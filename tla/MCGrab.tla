------------------------------- MODULE MCGrab -------------------------------
(* A small instance of Grab and the modules under it.  Every header          *)
(* configuration meets every client, and every environment section every     *)
(* body; the clock runs over a leap year, two centuries and the epoch.       *)
EXTENDS Grab, TLC

-----------------------------------------------------------------------------
\* Two zones with a tzdata file: one with a summer time, whose 32-bit block is
\* out of date, and one that never changed.
MCTzdata ==
  [n \in {"LA", "Tokyo"} |->
     IF n = "LA"
       THEN [version |-> 2,
             narrow |-> [trans |-> << >>, types |-> <<0>>],
             wide |-> [trans |-> <<[at |-> 27976920, type |-> 2],
                                   [at |-> 28319580, type |-> 1],
                                   [at |-> 28501080, type |-> 2]>>,
                       types |-> <<-480, -420>>]]
       ELSE [version |-> 1,
             narrow |-> [trans |-> << >>, types |-> <<540>>],
             wide |-> [trans |-> << >>, types |-> <<0>>]]]
MCFixed == [n \in {"Shanghai"} |-> 480]

\* 2024-01-15 and 2024-07-01, 07:30; the long runs of the clock.
MCBusy == {28421730, 28663650}
MCClocks ==
  {[now |-> 28421730, date |-> <<2024, 1, 15>>, until |-> 28421730 + 2160],
   [now |-> 28663650, date |-> <<2024, 7, 1>>, until |-> 28663650 + 1080],
   [now |-> -527040, date |-> <<1968, 12, 31>>, until |-> 1200 * 1440],
   [now |-> 15768000, date |-> <<1999, 12, 25>>, until |-> 15768000 + 100 * 1440],
   [now |-> 68364000, date |-> <<2099, 12, 25>>, until |-> 68364000 + 100 * 1440]}

-----------------------------------------------------------------------------
NoSection ==
  [timezone |-> Absent, current_date |-> Absent, cwd |-> Absent, shell |-> Absent,
   workspace_roots |-> Absent, drop |-> {}, fill_missing |-> FALSE]
Auto == [NoSection EXCEPT !.current_date = <<"auto">>]
East == <<"offset", 1, 8, 0>>

Sections ==
  <<NoSection,
    Auto,
    [Auto EXCEPT !.timezone = East],
    [Auto EXCEPT !.timezone = <<"name", "Shanghai">>, !.fill_missing = TRUE,
                 !.cwd = <<"markup", "w", 0>>, !.workspace_roots = <<"plain", "r">>],
    [Auto EXCEPT !.timezone = <<"offset", 1, 25, 0>>, !.shell = <<"plain", "sh">>],
    [Auto EXCEPT !.drop = {"timezone", "cwd"}],
    [NoSection EXCEPT !.current_date = <<"shift", -1>>, !.timezone = <<"utc">>],
    [Auto EXCEPT !.drop = {"environment_context"}, !.fill_missing = TRUE]>>

NoPersona ==
  [originator |-> "inherit", codex_version |-> "inherit", os |-> "inherit",
   arch |-> "inherit", terminal |-> "inherit", user_agent |-> "inherit",
   rewrite_client_version |-> FALSE]
Upstream == <<"backend-api", "codex">>
Plain ==
  [prefix |-> Upstream, strips |-> {Upstream, <<"v1">>, <<"api", "v1">>},
   pinned |-> Absent, drop |-> {}, set |-> NoHeaders, flags |-> NoHeaders, fromEnv |-> NoHeaders,
   env |-> NoHeaders, files |-> {}, persona |-> Absent,
   backDrop |-> {}, backSets |-> NoHeaders, backFiles |-> {}]

HeaderConfigs ==
  <<Plain,
    [Plain EXCEPT !.files = {TurnState}, !.backFiles = {TurnState},
       !.strips = @ \cup {<<"backend-api">>}],
    [Plain EXCEPT !.files = {TurnState},
       !.set = (TurnState :> <<"set">>) @@ ("x-extra" :> <<"env:", "EXTRA">>),
       !.flags = "chatgpt-account-id" :> <<"flag">>,
       !.fromEnv = "authorization" :> "KEY", !.env = "KEY" :> <<"key">>,
       !.drop = {"cf-ray", "originator"}, !.backDrop = {"cf-ray"},
       !.persona = <<[NoPersona EXCEPT !.originator = "desk", !.terminal = "",
                                       !.user_agent = "agent"]>>],
    [Plain EXCEPT
       !.persona = <<[NoPersona EXCEPT !.originator = "desk", !.codex_version = "2",
                                       !.rewrite_client_version = TRUE]>>,
       !.backSets = "cf-ray" :> <<"mine">>, !.backDrop = {"cf-ray"},
       !.pinned = <<[now |-> 15768000, date |-> <<1999, 12, 25>>]>>]>>

With2(config, section) ==
  [f \in DOMAIN config \cup {"section"} |->
     IF f = "section" THEN section ELSE config[f]]
MCConfigs == {With2(HeaderConfigs[((k - 1) % 4) + 1], Sections[k]) : k \in 1..8}

-----------------------------------------------------------------------------
Line(n, v) == [name |-> n, value |-> v]
Agent(terminal, suffixed) ==
  <<"codex", "1", "linux", "x86", terminal>>
    \o (IF suffixed THEN <<"codex", "1">> ELSE <<"", "">>)
Ids1 ==
  <<Line("session-id", <<"old">>), Line("x-codex-window-id", <<"old", "0">>),
    Line("x-codex-turn-metadata", <<"meta", "old">>)>>

HeaderLines ==
  <<<<Line("host", <<"here">>), Line("user-agent", Agent("term", TRUE)),
      Line("originator", <<"codex">>), Line("authorization", <<"real">>),
      Line("chatgpt-account-id", <<"real">>), Line(TurnState, <<"old">>)>> \o Ids1,
    <<Line("user-agent", Agent("", TRUE)), Line("chatgpt-account-id", <<"real">>),
      Line("cf-ray", <<"a">>), Line("cf-ray", <<"b">>),
      Line("x-codex-turn-metadata", <<"junk">>)>>,
    <<Line("user-agent", <<"curl">>), Line("x-odd", <<"opaque">>)>>,
    <<Line("user-agent", Agent("term", FALSE)), Line("connection", <<"close">>),
      Line("x-empty", <<"">>)>> \o Ids1>>

Queries == <<<< >>, <<<<"client_version", "1">>, <<"a", "b">>>>>>
Paths == <<<<"v1", "responses">>, <<"backend-api", "codex">>,
           <<"backend-api", "codex", "responses">>, <<"v1x", "models">>>>

-----------------------------------------------------------------------------
Piece(kind, tags) == [kind |-> kind, tags |-> tags]
Old == <<"date", 2020, 1, 1>>
Zoned(raw) == Piece("block", ("timezone" :> raw) @@ ("current_date" :> Old)
                             @@ ("cwd" :> <<"plain", "c">>) @@ ("shell" :> <<"plain", "s">>))
Bare == Piece("block", ("filesystem" :> <<"plain", "f">>))
Dated2 == Piece("block", ("current_date" :> Old))
Text == Piece("text", << >>)
West == <<"name", "LA">>

Bodies ==
  <<<<Text, Zoned(West)>>,
    <<Zoned(West), Text, Zoned(East)>>,
    <<Zoned(East), Zoned(West), Piece("open", "timezone" :> West)>>,
    <<Dated2, Zoned(<<"name", "Tokyo">>), Dated2>>,
    <<Zoned(<<"junk">>), Zoned(West)>>,
    <<Bare>>,
    <<Zoned(<<"offset", -1, 23, 59>>), Zoned(<<"name", "Shanghai">>)>>,
    <<Zoned(<<"utc">>)>>>>

\* The keys of docs/fingerprint.md:83; the others of build_body; none.
BodyIds ==
  <<[key \in {"session_id", "thread_id", "turn_id", "root_turn_id", "x-codex-window-id",
              "x-codex-installation-id", "x-codex-turn-metadata", "prompt_cache_key"} |->
       IF key = "x-codex-turn-metadata" THEN <<"meta", "old">> ELSE <<"old">>],
    [key \in {"window_id", "context_window_id", "x-codex-turn-metadata"} |-> <<"junk">>],
    NoHeaders>>

MCClients ==
  {[path |-> Paths[((k - 1) % 4) + 1], query |-> Queries[(k % 2) + 1],
    lines |-> HeaderLines[((k - 1) % 4) + 1], body |-> Bodies[k],
    readable |-> k # 6, ids |-> BodyIds[((k - 1) % 3) + 1]] : k \in 1..8}

MCAnswers ==
  {<<Line("cf-ray", <<"a">>), Line("set-cookie", <<"a">>), Line("set-cookie", <<"b">>),
     Line("content-length", <<"1">>)>>}

MCContents == {<<<<"two">>>>, << >>, <<<<"two">>, <<"lines">>>>}
MCAtStart == <<<<"first">>>>

NoAuth == [access |-> Absent, account |-> Absent, key |-> Absent]
MCAuths ==
  {Absent, [NoAuth EXCEPT !.access = <<"tok">>, !.account = <<"acc">>],
   [NoAuth EXCEPT !.key = <<"sk">>], NoAuth}
MCExplicits == {NoHeaders, "session-id" :> <<"mine">>}
MCInjects == {Absent, <<"token">>}
MCIds == <<"id1", "id2">>
=============================================================================
