------------------------------ MODULE Rotation ------------------------------
(***************************************************************************)
(* The rotation of the x-codex-turn-state: the rotators (src/ops/tsroll.py *)
(* as a service, and run by hand with --once) look at the token in the     *)
(* slot, scan the recorder's dumps for a newer one (tsscan.rs), else probe *)
(* the backend for one (the attempts of tsgrab.rs) and install it; and the *)
(* proxy sends what is in the slot and dumps what it sends and gets.       *)
(*                                                                         *)
(* Time is kept as the age of each token, which stops growing at MaxAge:   *)
(* beyond RefreshAfter no comparison of the code tells ages apart.         *)
(***************************************************************************)
EXTENDS Integers, Sequences, FiniteSets, FiniteSetsExt

CONSTANTS
  Loop,         \* the rotator that is a service
  Once,         \* rotators run by hand with --once
  NoToken,      \* no token: an empty file, no header, a transport error
  Skips,        \* values of: tsgrab has a config, whose token it passes over
  Fresh,        \* --scan-fresh-within, of tsroll and tsgrab alike
  RefreshAfter, \* --refresh-after
  Budget,       \* --budget
  ScanMax,      \* --scan-max: how many usable dumps end a scan, 0 for all
  MaxAge,       \* bound: where ages stop growing
  Junk,         \* the ages tsroll reads in a token with no issue time in it
  MaxDumps      \* bound: dumps kept

ASSUME RotationAssumption ==
  /\ Loop \notin Once
  /\ {Fresh, RefreshAfter, MaxAge, ScanMax, MaxDumps} \subseteq Nat
  /\ Budget \in Nat \ {0}
  /\ Fresh < RefreshAfter /\ RefreshAfter <= MaxAge
  /\ Skips \subseteq BOOLEAN
  /\ Junk \subseteq {-1, MaxAge}

VARIABLES
  skips,   \* the configuration: CODEX_REC_CONFIG names one
  dumps,   \* the tokens of the header dumps, in the order of their files' times
  slot,    \* the token of the slot file
  filled,  \* history: the slot was filled between the service's two looks at it
  pc,      \* what each rotator is doing
  seen,    \* hunt's cur_issued: the token in the slot when its hunt began
  tok,     \* hunt's tok
  via,     \* where tok comes from
  left     \* the probes left of the budget

rotators == <<pc, seen, tok, via, left>>
vars == <<skips, dumps, slot, filled, rotators>>

Rotators == {Loop} \cup Once

\* A token is of the wanted length or not.  Its first bytes are a real issue
\* time after the version byte 0x80, or are a time to nobody, when its age is
\* used in the slot only and is that of the file.  Or they are junk that tsroll
\* takes for a time, as it does not look at the version byte (tsroll.py:76-82):
\* one to come, which it gives an age of -1 here, or one long ago.
Tokens ==
  [wanted : BOOLEAN, date : {"real", "none"}, age : 0..MaxAge]
    \cup [wanted : BOOLEAN, date : {"junk"}, age : Junk]

ASSUME TokenAssumption == NoToken \notin Tokens

\* What the backend hands out, now.  One of another length and without a real
\* date is used as little as none.
Issued ==
  {t \in Tokens : (t.wanted \/ t.date = "real") /\ (t.date # "junk" => t.age = 0)}

-----------------------------------------------------------------------------
(* The scan of tsscan.rs.                                                  *)

\* matches_want, h.age_secs(now) <= fresh_within; issued_at found a time.
Usable(t) == t.wanted /\ t.date = "real" /\ t.age <= Fresh

\* Mutant of Enough: a fresh token of any length counts.
EnoughOfAny(t) == t.date = "real" /\ t.age <= Fresh

\* What counts for max_candidates: the token that is passed over, too.
Enough(t) == Usable(t)

\* The dumps a scan reads, the newest file first, until it has enough.
Read ==
  {i \in DOMAIN dumps :
     \/ ScanMax = 0
     \/ Cardinality({j \in (i + 1)..Len(dumps) : Enough(dumps[j])}) < ScanMax}

\* installed_now, unless tsgrab has no config.
Skip == IF skips THEN slot ELSE NoToken

Hits == {t \in {dumps[i] : i \in Read} : Usable(t) /\ t # Skip}

\* hits.sort_by(issued_at) and the first that will do.
Best ==
  IF Hits = {} THEN NoToken
  ELSE CHOOSE t \in Hits : \A u \in Hits : t.age <= u.age

-----------------------------------------------------------------------------
Init ==
  /\ skips \in Skips
  /\ dumps = << >> /\ slot = NoToken /\ filled = FALSE
  /\ pc = [p \in Rotators |-> "idle"]
  /\ seen = [p \in Rotators |-> NoToken]
  /\ tok = [p \in Rotators |-> NoToken]
  /\ via = [p \in Rotators |-> "scan"]
  /\ left = [p \in Rotators |-> 0]

-----------------------------------------------------------------------------
(* Time, and the proxy.                                                    *)

\* A junk time is too far away for its age to change.
Older(t) ==
  IF t = NoToken \/ t.date = "junk" THEN t
  ELSE [t EXCEPT !.age = Min({MaxAge, @ + 1})]
Aged(t) == IF t # NoToken /\ t.date = "real" THEN Older(t) ELSE t

\* Time passes, but not between a rotator's choice and its install.
Tick ==
  /\ \A p \in Rotators : pc[p] # "install"
  /\ dumps' = [i \in DOMAIN dumps |-> Aged(dumps[i])]
  /\ slot' = Older(slot)
  /\ seen' = [p \in Rotators |-> Aged(seen[p])]
  /\ UNCHANGED <<skips, filled, pc, tok, via, left>>

\* Only a dump in which the scan sees a token is kept here: one without a real
\* date is none to it.
Line(t) == IF t # NoToken /\ t.date = "real" THEN <<t>> ELSE << >>

Dump(ts) ==
  /\ dumps' = dumps \o ts
  /\ Len(dumps') <= MaxDumps
  /\ UNCHANGED <<skips, slot, filled, rotators>>

\* A token put into a file: without a date in it, the file's counts.
Placed(t) == IF t = NoToken \/ t.date # "none" THEN t ELSE [t EXCEPT !.age = 0]

\* A request, with a token the client was given before or none: the dump of
\* what came in, and that of what goes out with the token of the slot in it.
Request(t) ==
  Dump(Line(t) \o Line(IF slot = NoToken THEN t ELSE Placed(slot)))

\* The dump of a response, with the backend's token or none.
Respond(t) == Dump(Line(t))

\* The pruner removes the oldest.
Forget ==
  /\ dumps # << >>
  /\ dumps' = Tail(dumps)
  /\ UNCHANGED <<skips, slot, filled, rotators>>

-----------------------------------------------------------------------------
(* A rotator.                                                              *)

Stale == slot # NoToken => slot.age >= RefreshAfter

To(p, state) == pc' = [pc EXCEPT ![p] = state]
Holds(p, t, from) ==
  /\ tok' = [tok EXCEPT ![p] = t]
  /\ via' = [via EXCEPT ![p] = from]

\* Mutants of Due: the service never looks again, or hunts at any time.
DueWhenEmpty(p) == slot = NoToken
DueAlways(p) == TRUE

\* The service hunts when the token is old.
Due(p) == Stale

\* run_loop looks at the slot, and goes to sleep again or hunts.
Look ==
  /\ pc[Loop] = "idle"
  /\ Due(Loop)
  /\ To(Loop, "due")
  /\ filled' = FALSE
  /\ UNCHANGED <<skips, dumps, slot, seen, tok, via, left>>

\* hunt reads the slot again, which another rotator may have filled since;
\* --once hunts as soon as it is run.
Hunt(p) ==
  /\ pc[p] = IF p = Loop THEN "due" ELSE "idle"
  /\ To(p, "scan")
  /\ seen' = [seen EXCEPT ![p] = slot]
  /\ UNCHANGED <<skips, dumps, slot, filled, tok, via, left>>

\* Mutant of NotNewer: the gate is left out.
NotNewerNever(t, u) == FALSE

\* issued <= cur_issued, when tsroll reads a time in both.
NotNewer(t, u) ==
  u # NoToken /\ u.date # "none" /\ t.date # "none" /\ t.age >= u.age

Scan(p) ==
  /\ pc[p] = "scan"
  /\ IF Best = NoToken \/ NotNewer(Best, seen[p])
       THEN /\ To(p, "probe")
            /\ left' = [left EXCEPT ![p] = Budget]
            /\ UNCHANGED <<tok, via>>
       ELSE To(p, "install") /\ Holds(p, Best, "scan") /\ UNCHANGED left
  /\ UNCHANGED <<skips, dumps, slot, filled, seen>>

\* The tsgrab of a probe scans first, and prints what it finds.
Reuse(p) ==
  /\ pc[p] = "probe" /\ Best # NoToken
  /\ To(p, "install")
  /\ Holds(p, Best, "reuse")
  /\ left' = [left EXCEPT ![p] = 0]
  /\ UNCHANGED <<skips, dumps, slot, filled, seen>>

\* Else it asks the backend: a token of the wanted length is printed.
Attempt(p, t) ==
  /\ pc[p] = "probe" /\ Best = NoToken
  /\ t # NoToken /\ t.wanted
  /\ To(p, "install")
  /\ Holds(p, t, "probe")
  /\ left' = [left EXCEPT ![p] = 0]
  /\ UNCHANGED <<skips, dumps, slot, filled, seen>>

\* The hunt is over.
Done(p) ==
  /\ To(p, "idle")
  /\ seen' = [seen EXCEPT ![p] = NoToken]
  /\ Holds(p, NoToken, "scan")
  /\ left' = [left EXCEPT ![p] = 0]

\* Another one, no token or a transport error is a miss.
Miss(p) ==
  /\ pc[p] = "probe" /\ Best = NoToken
  /\ IF left[p] = 1
       THEN Done(p)
       ELSE left' = [left EXCEPT ![p] = @ - 1] /\ UNCHANGED <<pc, seen, tok, via>>
  /\ UNCHANGED <<skips, dumps, slot, filled>>

\* os.replace puts the token into the slot, whatever is there by now.  What
\* install writes after that, whole or not, no program reads: current.json, the
\* event, the log and the copy at the admin API.
Install(p) ==
  /\ pc[p] = "install"
  /\ slot' = Placed(tok[p])
  /\ filled' = (p # Loop /\ (filled \/ pc[Loop] = "due"))
  /\ Done(p)
  /\ UNCHANGED <<skips, dumps>>

\* A subprocess takes too long, a file cannot be written, the process dies.
Abort(p) ==
  /\ pc[p] # "idle"
  /\ Done(p)
  /\ UNCHANGED <<skips, dumps, slot, filled>>

-----------------------------------------------------------------------------
Given == {NoToken} \cup {dumps[i] : i \in DOMAIN dumps}

Proxy ==
  \/ \E t \in Given : Request(t)
  \/ \E t \in Issued \cup {NoToken} : Respond(t)
  \/ Forget

Rotator(p) ==
  \/ Hunt(p) \/ Scan(p) \/ Reuse(p) \/ (\E t \in Issued : Attempt(p, t))
  \/ Miss(p) \/ Install(p) \/ Abort(p)

Next == Tick \/ Proxy \/ Look \/ \E p \in Rotators : Rotator(p)

\* A probe that finds or is given a token tsroll does not take for an old one,
\* and its install.
Recent(t) == t.age < RefreshAfter
Probe(p) == Reuse(p) \/ \E t \in Issued : Recent(t) /\ Attempt(p, t)
Fill(p) == Install(p) /\ Recent(tok[p])

\* The service goes on, and what it tries again and again succeeds some time:
\* a scan is not always cut off, the backend does not always refuse.
Fairness ==
  /\ WF_vars(Look) /\ SF_vars(Hunt(Loop)) /\ SF_vars(Scan(Loop))
  /\ SF_vars(Probe(Loop)) /\ WF_vars(Install(Loop)) /\ SF_vars(Fill(Loop))

Spec == Init /\ [][Next]_vars /\ Fairness

-----------------------------------------------------------------------------
TokenOrNone == Tokens \cup {NoToken}

TypeOK ==
  /\ skips \in BOOLEAN
  /\ dumps \in Seq(Tokens) /\ Len(dumps) <= MaxDumps
  /\ slot \in TokenOrNone /\ filled \in BOOLEAN
  /\ pc \in [Rotators -> {"idle", "due", "scan", "probe", "install"}]
  /\ seen \in [Rotators -> TokenOrNone] /\ tok \in [Rotators -> TokenOrNone]
  /\ via \in [Rotators -> {"scan", "reuse", "probe"}]
  /\ left \in [Rotators -> 0..Budget]

\* Whatever is dumped, scanned, probed or given up, by one rotator or two,
\* what the proxy sends is a token of the wanted length (tsroll.py:203-241).
SlotIsWanted == slot # NoToken => slot.wanted

\* tsscan.rs:14-15 says that the freshest usable token wins: one that loses
\* to an older token, or to none, is in a file older than ScanMax usable ones.
FreshestUnlessCapped ==
  \A i \in DOMAIN dumps :
    Usable(dumps[i]) /\ dumps[i] # Skip
      /\ (Best = NoToken \/ Best.age > dumps[i].age)
    => /\ ScanMax > 0
       /\ Cardinality({j \in (i + 1)..Len(dumps) : Usable(dumps[j])}) >= ScanMax

\* Of two tokens with a real date, the first is the newer.
NewerThan(t, u) ==
  u # NoToken /\ t.date = "real" /\ u.date = "real" => t.age < u.age

\* No install puts an older or the same token back (tsroll.py:275-277), unless
\* another rotator has filled the slot since the hunt looked at it or the
\* probe's own scan has found it again.
NeverBack ==
  [][\A p \in Rotators :
       Install(p) /\ via[p] # "reuse" /\ slot = seen[p]
       => NewerThan(tok[p], slot) \/ tok[p].age = 0]_vars

\* The service, which goes hunting when the slot is staler than any token a
\* scan takes, does not even put one back when its probe reuses one: what it
\* puts over a token it saw is newer, unless that token came into the slot
\* between its look at the slot and the hunt (tsroll.py:309-312, 269-273).
ServiceNeverBack ==
  [][Install(Loop) /\ slot = seen[Loop] /\ ~filled
     => NewerThan(tok[Loop], slot)]_vars

\* What tsroll.py:275-277 says of any hunt: what is found on disk is installed
\* only if it is newer than the token in the slot.
NeverAgain ==
  [][\A p \in Rotators :
       Install(p) /\ via[p] # "probe" /\ slot = seen[p] => NewerThan(tok[p], slot)]_vars

\* A slot that is empty or older than --refresh-after, as tsroll reads its age,
\* gets a token that is not, as long as the backend hands one out from time to
\* time.
Refreshed == Stale ~> ~Stale
=============================================================================
