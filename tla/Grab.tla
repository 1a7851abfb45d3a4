-------------------------------- MODULE Grab --------------------------------
(***************************************************************************)
(* A probe (src/src/tsgrab.rs) that takes a request the proxy has recorded *)
(* for its template: the headers of <stem>.req.out.hdr and the body, with  *)
(* fresh ids and the environment rewritten, and credentials of its own.    *)
(* What comes back from its attempts is in Rotation.                       *)
(***************************************************************************)
EXTENDS Headers

CONSTANTS
  Auths,     \* what --auth names, or Absent
  Explicits, \* the headers of --header
  Injects,   \* the turn-state of --inject, or Absent
  Ids        \* the ids that are drawn; bound: one for each attempt

\* The keys under which a body has ids (docs/fingerprint.md:83).
IdKeys ==
  {"session_id", "thread_id", "turn_id", "root_turn_id", "window_id",
   "context_window_id", "prompt_cache_key", "x-codex-turn-metadata",
   "x-codex-window-id", "x-codex-installation-id"}
ASSUME GrabAssumption == \A r \in Clients : DOMAIN r.ids \subseteq IdKeys

VARIABLES
  auth, explicit, inject, \* the arguments
  base,  \* headers: what every attempt starts from
  tries  \* what the attempts have sent, and when

vars == <<proxy, auth, explicit, inject, base, tries>>

TurnState == "x-codex-turn-state"
Owned == {"host", "connection", "content-length", "transfer-encoding"}

-----------------------------------------------------------------------------
(* The template.                                                           *)

\* The value ends at the recorder's mark.
Cut(value) ==
  LET marks == {i \in DOMAIN value : value[i] = "<-"} IN
  IF marks = {} THEN value ELSE SubSeq(value, 1, Min(marks) - 1)

\* sibling_header: what came in is the template where the dump is missing.
Template == IF dump # {} THEN dump ELSE IncomingDump(req)

\* headers_from_template.  Of a header that came more than once, one is kept
\* here.
TemplateHeaders(lines, injecting) ==
  LET skipped == Owned \cup {"x-incoming-path"}
                 \cup (IF injecting THEN {TurnState} ELSE {})
      mine == {l \in lines : /\ l.kind = "header" /\ l.name \notin skipped
                             /\ Cut(l.value) # <<"">>}
  IN  [n \in {l.name : l \in mine} |->
         Cut((CHOOSE l \in mine : l.name = n).value)]

Put(headers, name, value) ==
  IF value = Absent THEN headers ELSE With(headers, name, value)

Credentials == {"authorization", "chatgpt-account-id"}
Fake == [n \in Credentials |-> <<"fake">>]

\* Mutant of Authorized: a template without a bearer is left as it is.
AuthorizedByBearer(headers, a) ==
  IF a # Absent
    THEN Put(Put(headers, "authorization", IF a.access # Absent THEN a.access ELSE a.key),
             "chatgpt-account-id", a.account)
  ELSE IF "authorization" \in DOMAIN headers THEN Over(Fake, headers)
  ELSE headers

\* What is in the --auth file goes over the template; without one, recorded
\* credentials are replaced by fake ones.
Authorized(headers, a) ==
  IF a # Absent
    THEN Put(Put(headers, "authorization", IF a.access # Absent THEN a.access ELSE a.key),
             "chatgpt-account-id", a.account)
  ELSE IF Credentials \cap DOMAIN headers # {} THEN Over(Fake, headers)
  ELSE headers

-----------------------------------------------------------------------------
(* An attempt.                                                             *)

SessionHeaders == {"session-id", "thread-id", "x-client-request-id"}
IdHeaders == SessionHeaders \cup {"x-codex-window-id", "x-codex-turn-metadata"}

\* Mutant of Refreshed: the window goes on under its old id.
RefreshedButWindow(name, value, id) ==
  IF name \in SessionHeaders THEN <<id>>
  ELSE IF name = "x-codex-turn-metadata" /\ value[1] = "meta" THEN <<"meta", id>>
  ELSE value

\* refresh_identity_headers, and refresh_turn_metadata of what is an object.
Refreshed(name, value, id) ==
  IF name \in SessionHeaders THEN <<id>>
  ELSE IF name = "x-codex-window-id" THEN <<id, "0">>
  ELSE IF name = "x-codex-turn-metadata" /\ value[1] = "meta" THEN <<"meta", id>>
  ELSE value

\* The section of the configuration if it does anything, or else today's date
\* in the zone of the block.
ProbeSection(c) ==
  IF IsActive(c.section) THEN c.section
  ELSE [c.section EXCEPT !.current_date = <<"auto">>]

\* The ids of a body: its prompt_cache_key and what is in its client_metadata.
\* Only the keys named here get new ones.
RefreshedKey(key, value, id) ==
  IF key \in {"session_id", "thread_id", "prompt_cache_key"} THEN <<id>>
  ELSE IF key \in {"turn_id", "root_turn_id"} THEN <<id, "turn">>
  ELSE IF key = "window_id" THEN <<id, "0">>
  ELSE IF key = "context_window_id" THEN <<id, "context">>
  ELSE IF key = "x-codex-turn-metadata" /\ value[1] = "meta" THEN <<"meta", id>>
  ELSE value

\* build_body: a body that cannot be read goes out as it is.
BuildBody(c, r, id, when) ==
  IF ~r.readable THEN [ids |-> r.ids, pieces |-> r.body]
  ELSE [ids |-> [key \in DOMAIN r.ids |-> RefreshedKey(key, r.ids[key], id)],
        pieces |-> ApplyEnv(ProbeSection(c), r.body, when)]

-----------------------------------------------------------------------------
Init ==
  /\ ProxyInit
  /\ auth = Absent /\ explicit = NoHeaders /\ inject = Absent
  /\ base = NoHeaders /\ tries = << >>

\* run, up to its first attempt: the headers of the template, the injected
\* turn-state and the credentials.
Begin(a, x, token) ==
  /\ phase = "answered"
  /\ phase' = "probing"
  /\ auth' = a /\ explicit' = x /\ inject' = token
  /\ base' = Authorized(Put(TemplateHeaders(Template, token # Absent), TurnState, token), a)
  /\ UNCHANGED <<clock, cfg, file, outgoing, held, times, back, tries>>

\* Each attempt has ids of its own; --header goes over everything but what
\* tells of the attempt's own body.
Attempt ==
  LET id == Ids[Len(tries) + 1] IN
  /\ phase = "probing" /\ Len(tries) < Len(Ids)
  /\ \E early \in 0..Len(req.body) :
       /\ Rewriting(req.body, early)
       /\ tries' = Append(tries,
            [headers |-> Without(Over(explicit, [n \in DOMAIN base |-> Refreshed(n, base[n], id)]),
                                 {"content-type", "content-encoding"}),
             body |-> BuildBody(cfg, req, id,
                                ReadTimes(cfg, Len(req.body), early, now')),
             times |-> {Moment, Moment'}])
  /\ UNCHANGED <<cfg, file, phase, outgoing, held, times, back>>
  /\ UNCHANGED <<auth, explicit, inject, base>>

Next ==
  \/ ProxyNext /\ UNCHANGED <<auth, explicit, inject, base, tries>>
  \/ \E a \in Auths, x \in Explicits, token \in Injects : Begin(a, x, token)
  \/ Attempt

Spec == Init /\ [][Next]_vars

-----------------------------------------------------------------------------
\* What the recorder dumps and tsgrab reads again is what was sent: the marks
\* and comments that are for people are not taken for values, and nothing is
\* lost but what tsgrab's client sets itself, the recorder's own header and an
\* empty value (main.rs:439-445, tsgrab.rs:389-409).  Of a value that has such
\* a mark in it when it comes nothing is said.
DumpTellsSent ==
  phase \in {"sent", "answered"} /\ dump # {} =>
    LET read == TemplateHeaders(dump, FALSE)
        told(n) == Redact(n, out[n])
        left == Owned \cup {"x-incoming-path"}
    IN  /\ DOMAIN read \subseteq DOMAIN out \ left
        /\ \A n \in DOMAIN out \ left :
             (\A i \in DOMAIN told(n) : told(n)[i] # "<-") =>
               IF told(n) = <<"">> THEN n \notin DOMAIN read
               ELSE n \in DOMAIN read /\ read[n] = told(n)

\* What goes out again as it was recorded although it is an id, or has one in
\* it: in a body the window's under its name of a header, that of the
\* installation and metadata that is not JSON.
Replayed(key, value) ==
  \/ key \in {"x-codex-window-id", "x-codex-installation-id"}
  \/ key = "x-codex-turn-metadata" /\ value[1] # "meta"

\* Every id of an attempt, in its headers and in its body, is its own, and so
\* none of the template or of another attempt: but for a --header, metadata that
\* is not JSON, a body that cannot be read and two keys of a body that are left
\* as they were (tsgrab.rs:318-320, 517-543).  And headers and body tell the
\* same session.
NoReplay ==
  \A k \in DOMAIN tries :
    LET sent == tries[k].headers
        ids == tries[k].body.ids
        own(value) == \E i \in DOMAIN value : value[i] = Ids[k]
    IN  /\ \A n \in (IdHeaders \cap DOMAIN sent) \ DOMAIN explicit :
             own(sent[n]) \/ (n = "x-codex-turn-metadata" /\ sent[n][1] # "meta")
        /\ req.readable =>
             /\ \A key \in DOMAIN ids : own(ids[key]) \/ Replayed(key, req.ids[key])
             /\ \A n \in (SessionHeaders \cap DOMAIN sent) \ DOMAIN explicit :
                  \A key \in {"session_id", "prompt_cache_key"} \cap DOMAIN ids :
                    sent[n] = ids[key]

\* A recorded credential is sent again only under an --auth file that lacks
\* it; without --auth, none is but by --header (tsgrab.rs:783-784).
CredentialsExplicit ==
  \A k \in DOMAIN tries, n \in Credentials :
    n \in DOMAIN tries[k].headers \ DOMAIN explicit =>
      IF auth = Absent THEN tries[k].headers[n] = <<"fake">>
      ELSE LET own == IF n = "chatgpt-account-id" THEN {auth.account}
                      ELSE {auth.access, auth.key}
           IN  tries[k].headers[n] \in own \/ own = {Absent}

\* The automatic dates of what is forwarded are those of a moment between the
\* request's arrival and its going out, and of what is probed those of the
\* attempt (tsgrab.rs:755-757), each in the one zone, or else those of the
\* pinned moment.  Two blocks may have two dates at midnight.
LocalDates ==
  req # Absent /\ req.readable =>
    /\ Sent => DatesAreLocal(cfg.section, req.body, body, Read(cfg, times))
    /\ \A k \in DOMAIN tries :
         DatesAreLocal(ProbeSection(cfg), req.body, tries[k].body.pieces,
                       Read(cfg, tries[k].times))

=============================================================================
