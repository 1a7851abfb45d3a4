--------------------------- MODULE ExchangeProofs ---------------------------
(***************************************************************************)
(* What is forwarded, recorded and left behind, for any number of requests *)
(* with any stems, sizes and limits, and every way out of the handler.     *)
(***************************************************************************)
EXTENDS Exchange, FiniteSetTheorems, SequenceTheorems, TLAPS

USE ExchangeAssumption

-----------------------------------------------------------------------------
(* The beginning of a body.                                                *)

Beginning(r, n) == [i \in 1 .. n |-> Block(r, i)]
Blocks(r) == {Block(r, i) : i \in Nat}

LEMMA SizesAreNumbers == TypeOK => \A r \in Requests : size[r] \in Nat
BY DEF TypeOK

LEMMA BeginningLength ==
  ASSUME NEW r, NEW n \in Nat
  PROVE  /\ Beginning(r, n) \in Seq(Blocks(r))
         /\ Len(Beginning(r, n)) = n
         /\ \A i \in 1 .. n : Beginning(r, n)[i] = Block(r, i)
<1>1. \A i \in 1 .. n : Block(r, i) \in Blocks(r)
  BY DEF Blocks
<1>2. Beginning(r, n) \in Seq(Blocks(r)) /\ Len(Beginning(r, n)) = n
  BY <1>1 DEF Beginning
<1>3. \A i \in 1 .. n : Beginning(r, n)[i] = Block(r, i)
  BY DEF Beginning
<1> QED BY <1>2, <1>3

LEMMA BeginningOfBeginning ==
  ASSUME NEW r, NEW n \in Nat, NEW m \in 0 .. n
  PROVE  First(Beginning(r, n), m) = Beginning(r, m)
<1> DEFINE whole == Beginning(r, n)
           part == Beginning(r, m)
<1>1. Len(whole) = n /\ \A i \in 1 .. n : whole[i] = Block(r, i)
  BY BeginningLength
<1>2. \A i \in 1 .. m : whole[i] = Block(r, i) /\ whole[i] \in Blocks(r)
  <2>1. \A i \in 1 .. m : i \in 1 .. n /\ Block(r, i) \in Blocks(r)
    BY DEF Blocks
  <2> QED BY <1>1, <2>1
<1>3. part \in Seq(Blocks(r)) /\ Len(part) = m /\ \A i \in 1 .. m : part[i] = Block(r, i)
  BY BeginningLength
<1>4. Lesser(m, n) = m
  BY DEF Lesser
<1> HIDE DEF whole, part
<1>5. /\ SubSeq(whole, 1, m) \in Seq(Blocks(r))
      /\ Len(SubSeq(whole, 1, m)) = m
      /\ \A i \in 1 .. m : SubSeq(whole, 1, m)[i] = whole[i]
  <2>1. /\ SubSeq(whole, 1, m) \in Seq(Blocks(r))
        /\ Len(SubSeq(whole, 1, m)) = IF 1 <= m THEN m - 1 + 1 ELSE 0
        /\ \A i \in 1 .. m - 1 + 1 : SubSeq(whole, 1, m)[i] = whole[1 + i - 1]
    BY <1>2, SubSeqProperties
  <2> QED BY <2>1
<1>6. SubSeq(whole, 1, m) = part
  BY <1>2, <1>3, <1>5, SeqEqual
<1> QED BY <1>1, <1>4, <1>6 DEF First, whole, part

LEMMA BeginningOfBody ==
  ASSUME TypeOK, NEW r \in Requests
  PROVE  /\ BodyOf(r) = Beginning(r, size[r])
         /\ \A n \in 0 .. size[r] : First(BodyOf(r), n) = Beginning(r, n)
<1>1. BodyOf(r) = Beginning(r, size[r])
  BY DEF BodyOf, Beginning
<1> QED BY <1>1, SizesAreNumbers, BeginningOfBeginning

LEMMA BeginningGrows ==
  ASSUME NEW r, NEW n \in Nat
  PROVE  /\ Append(Beginning(r, n), Block(r, n + 1)) = Beginning(r, n + 1)
         /\ Overwritten(Beginning(r, n), n, Block(r, n + 1)) = Beginning(r, n + 1)
<1> DEFINE s == Beginning(r, n)
           b == Block(r, n + 1)
<1>1. s \in Seq(Blocks(r)) /\ Len(s) = n
      /\ \A i \in 1 .. n : s[i] = Block(r, i)
  BY BeginningLength
<1> HIDE DEF s, b
<1>2. Append(s, b) = Beginning(r, n + 1)
  <2> DEFINE next == Beginning(r, n + 1)
  <2>1. next \in Seq(Blocks(r)) /\ Len(next) = n + 1 /\ \A i \in 1 .. n + 1 : next[i] = Block(r, i)
    BY BeginningLength
  <2>2. s \in Seq(Blocks(r)) /\ b \in Blocks(r)
    BY <1>1 DEF b, Blocks
  <2> HIDE DEF next
  <2>3. /\ Append(s, b) \in Seq(Blocks(r)) /\ Len(Append(s, b)) = n + 1
        /\ \A i \in 1 .. n : Append(s, b)[i] = s[i]
        /\ Append(s, b)[n + 1] = b
    BY <1>1, <2>2, AppendProperties
  <2>4. \A i \in 1 .. n + 1 : Append(s, b)[i] = next[i]
    BY <1>1, <2>1, <2>3 DEF b
  <2>5. Append(s, b) = next
    BY <2>1, <2>3, <2>4, SeqEqual
  <2> QED BY <2>5 DEF next
<1>3. \A i \in 1 .. n + 1 : (IF i = n + 1 THEN b ELSE s[i]) = Block(r, i)
  BY <1>1 DEF b
<1>4. Overwritten(s, n, b) = [i \in 1 .. n + 1 |-> IF i = n + 1 THEN b ELSE s[i]]
  <2>1. (IF n + 1 > Len(s) THEN n + 1 ELSE Len(s)) = n + 1
    BY <1>1
  <2>2. \A i \in 1 .. n + 1 : i # n + 1 => i <= Len(s)
    BY <1>1
  <2> QED BY <2>1, <2>2 DEF Overwritten
<1>5. [i \in 1 .. n + 1 |-> IF i = n + 1 THEN b ELSE s[i]] = Beginning(r, n + 1)
  BY <1>3 DEF Beginning
<1> QED BY <1>2, <1>4, <1>5 DEF s, b

-----------------------------------------------------------------------------
(* The inductive invariant.                                                *)

Own(p) == {Temp(p), Raw(p)}

\* Inodes are numbered as they come, and each has one name at most.
Inodes    == \E k \in Nat : DOMAIN data = 1 .. k
Injective == \A m, n \in DOMAIN names : names[m] = names[n] => m = n

Base == TypeOK /\ Inodes /\ Injective /\ InMemory \notin DOMAIN names

\* The inodes a request may write to, and those it may read as well.
Writes(p, i) ==
  /\ i # 0
  /\ i = in[p].ino \/ \E n \in Own(p) \cap DOMAIN names : names[n] = i
Mine(p, i) == Writes(p, i) \/ (i # 0 /\ i = out[p].ino)

\* No other request has an inode of one whose stem is its own.
Apart ==
  \A r \in Requests : Private(r) =>
    \A q \in Requests \ {r} : \A i \in DOMAIN data : ~(Mine(r, i) /\ Mine(q, i))

\* How the parts of a request's state go together.
Reads == {"reading", "spilling", "moving"}
Phases(r) ==
  /\ at[r] \in Reads \cup {"writing"} => up[r] = "unpolled"
  /\ at[r] \in Reads => source[r] = InMemory
  /\ at[r] = "reading" => ~cut[r]
  /\ at[r] \in {"spilling", "moving"} => OverLimit(r)
  /\ at[r] = "spilling" => in[r].ino # 0
  /\ at[r] = "writing" /\ source[r] = Temp(r) => unlink[r]
  /\ unlink[r] => OverLimit(r)
  /\ up[r] = "sending" => out[r].ino # 0 /\ source[r] # InMemory
  /\ up[r] \in {"sending", "ended"} => Uploading(r)
InPhase == \A r \in Requests : Phases(r)

\* What r's spill file holds in the end: all of the body, but for a lost block.
Rest(r) == size[r] - Missing(r)

\* An inode holds the beginning of r's body: its rest in r's spill file.
Good(r, i) ==
  /\ i \in DOMAIN data
  /\ \E n \in 0 .. size[r] :
       data[i] = Beginning(r, n) /\ (source[r] = Temp(r) => n = Rest(r))

\* What r has spilled, what it will forward, what it is forwarding from, and
\* what the upstream has got.
Spilling(r) ==
  at[r] = "spilling" =>
    /\ in[r].pos \in Missing(r) .. size[r]
    /\ data[in[r].ino] = Beginning(r, in[r].pos - Missing(r))
    /\ Temp(r) \in DOMAIN names => names[Temp(r)] = in[r].ino
Moving(r) ==
  at[r] = "moving" /\ Temp(r) \in DOMAIN names =>
    data[names[Temp(r)]] = Beginning(r, Rest(r))
Forwards(r) ==
  at[r] \notin Reads /\ source[r] \in DOMAIN names => Good(r, names[source[r]])
Sending(r) ==
  up[r] = "sending" =>
    /\ Good(r, out[r].ino)
    /\ out[r].pos \in 0 .. Len(data[out[r].ino])
    /\ sent[r] = Beginning(r, out[r].pos)
Got(r) ==
  up[r] # "sending" =>
    \E n \in 0 .. size[r] :
      /\ sent[r] = Beginning(r, n)
      /\ up[r] = "unpolled" => n = 0
      /\ up[r] = "ended" /\ source[r] # Raw(r) => n >= Rest(r)
Content(r) == Spilling(r) /\ Moving(r) /\ Forwards(r) /\ Sending(r) /\ Got(r)
Contents == \A r \in Requests : Private(r) => Content(r)

\* A spill file that exists has a request that has not come to removing it.
Keeps(r) ==
  /\ OverLimit(r)
  /\ \/ at[r] \in {"spilling", "moving", "refused", "gone", "catalog", "unread"}
     \/ at[r] \in {"writing", "forwarding", "collecting", "streaming"} /\ unlink[r]
Spills ==
  \A n \in DOMAIN names : n.dir = "tmp" => \E r \in Requests : Temp(r) = n /\ Keeps(r)

\* The raw artifact of a body that was in memory: nobody spills into it.
Artful(r) == size[r] \in 1 .. RawCap - 1
RawOf(r) ==
  RecordRaw /\ r \in Compressed /\ ~OverLimit(r) /\ Alone(r) =>
    /\ Raw(r) \in DOMAIN names =>
         /\ \A q \in Requests : in[q].ino # names[Raw(r)]
         /\ Artful(r)
         /\ \E n \in 0 .. size[r] : data[names[Raw(r)]] = Beginning(r, n)
    /\ Uploading(r) /\ Artful(r) /\ ~unkept[r] =>
         Raw(r) \in DOMAIN names /\ data[names[Raw(r)]] = BodyOf(r)
Raws == \A r \in Requests : RawOf(r)

Inv == Base /\ Apart /\ InPhase /\ Contents /\ Spills /\ Raws

-----------------------------------------------------------------------------
(* What a step of one request leaves alone.                                *)

Same(q) ==
  /\ at'[q] = at[q] /\ in'[q] = in[q] /\ out'[q] = out[q] /\ source'[q] = source[q]
  /\ unlink'[q] = unlink[q] /\ up'[q] = up[q] /\ sent'[q] = sent[q]
  /\ cut'[q] = cut[q] /\ unkept'[q] = unkept[q]

FilesOf(p) ==
  /\ \A n \in DOMAIN names \ Own(p) : n \in DOMAIN names' /\ names'[n] = names[n]
  /\ \A n \in DOMAIN names' \ Own(p) : n \in DOMAIN names
  /\ \A n \in Own(p) \cap DOMAIN names' :
       Writes(p, names'[n]) \/ names'[n] \notin DOMAIN data
  /\ DOMAIN data \subseteq DOMAIN data'
  /\ \A i \in DOMAIN data : ~Writes(p, i) => data'[i] = data[i]

StepOf(p) ==
  /\ UNCHANGED <<size, stem, dir>> /\ FilesOf(p)
  /\ \A q \in Requests \ {p} : Same(q)
  /\ \/ in'[p].ino \in {0, in[p].ino}
     \/ Temp(p) \in DOMAIN names' /\ in'[p].ino = names'[Temp(p)]
  /\ \/ out'[p].ino = out[p].ino
     \/ \E n \in Own(p) \cap DOMAIN names : out'[p].ino = names[n]

\* What a step of p must see to itself.
OwnPart(p) ==
  /\ Base' /\ Phases(p)' /\ RawOf(p)'
  /\ Private(p) => Content(p)'
  /\ Temp(p) \in DOMAIN names' => Keeps(p)' \/ (Temp(p) \in DOMAIN names /\ ~Keeps(p))

LEMMA OwnNames ==
  ASSUME TypeOK
  PROVE  /\ \A p, q : Raw(p) = Raw(q) => stem[p] = stem[q]
         /\ \A p, q : Temp(p) = Temp(q) => stem[p] = stem[q]
         /\ \A p \in Requests : Temp(p).dir = "tmp" /\ Raw(p).dir \in Dirs
         /\ \A p, q \in Requests : Temp(p) # Raw(q)
         /\ \A p \in Requests : InMemory \notin Own(p)
<1>1. /\ \A p : Temp(p).dir = "tmp" /\ Temp(p).file = stem[p]
      /\ \A p : Raw(p).dir = dir[p] /\ Raw(p).file = stem[p]
      /\ InMemory.dir = "memory"
  BY DEF Temp, Raw, InMemory
<1>2. \A p \in Requests : dir[p] \in Dirs
  BY DEF TypeOK
<1> QED BY <1>1, <1>2 DEF Own, ExchangeAssumption

LEMMA PrivateNames ==
  ASSUME TypeOK, NEW r \in Requests, Private(r), NEW q \in Requests \ {r}
  PROVE  Own(r) \cap Own(q) = {}
BY OwnNames DEF Private, Own

\* A body over the limit is longer than what its spill file may lack.
LEMMA RestInBody ==
  ASSUME TypeOK, NEW p \in Requests, OverLimit(p)
  PROVE  Rest(p) \in 0 .. size[p]
BY SizesAreNumbers DEF OverLimit, Rest, Missing, ExchangeAssumption

LEMMA InodesNotZero == Inodes => 0 \notin DOMAIN data
BY DEF Inodes

LEMMA SamePaths ==
  ASSUME UNCHANGED <<stem, dir>>
  PROVE  /\ \A r : Temp(r)' = Temp(r) /\ Raw(r)' = Raw(r) /\ Own(r)' = Own(r)
         /\ \A r : (Private(r)' <=> Private(r)) /\ (Alone(r)' <=> Alone(r))
BY DEF Temp, Raw, Own, Private, Alone

LEMMA MineIsInode ==
  ASSUME Base, NEW r \in Requests, NEW i, Mine(r, i)
  PROVE  i \in DOMAIN data
BY DEF Base, TypeOK, Inside, Mine, Writes

\* The inodes of p after its step: those before it, or new ones.
LEMMA OwnInodes ==
  ASSUME Base, NEW p \in Requests, StepOf(p), NEW i, Mine(p, i)'
  PROVE  Mine(p, i) \/ i \notin DOMAIN data
<1>1. Own(p)' = Own(p) /\ Temp(p)' = Temp(p) /\ Temp(p) \in Own(p)
  BY SamePaths DEF StepOf, FilesOf, Own
<1>2. i # 0
  BY DEF Mine, Writes
<1>3. CASE i = in'[p].ino
  BY <1>1, <1>2, <1>3 DEF StepOf, FilesOf, Mine, Writes
<1>4. CASE i = out'[p].ino
  BY <1>2, <1>4 DEF StepOf, FilesOf, Mine, Writes
<1>5. CASE \E n \in Own(p) \cap DOMAIN names' : names'[n] = i
  BY <1>5 DEF StepOf, FilesOf, Mine
<1> QED BY <1>1, <1>3, <1>4, <1>5 DEF Mine, Writes

\* The inodes of another request: those it had, or of files that it shares.
LEMMA OtherInodes ==
  ASSUME Base, NEW p \in Requests, StepOf(p), NEW x \in Requests \ {p},
         NEW i, Mine(x, i)'
  PROVE  /\ Mine(x, i) \/ Mine(p, i) \/ i \notin DOMAIN data
         /\ Own(x) \cap Own(p) = {} => Mine(x, i)
<1>1. Own(x)' = Own(x) /\ in'[x] = in[x] /\ out'[x] = out[x]
  BY SamePaths DEF StepOf, FilesOf, Same
<1>2. i # 0
  BY DEF Mine, Writes
<1>3. CASE i = in'[x].ino \/ i = out'[x].ino
  BY <1>1, <1>2, <1>3 DEF Mine, Writes
<1>4. CASE \E n \in Own(x) \cap DOMAIN names' : names'[n] = i
  <2>1. PICK n \in Own(x) \cap DOMAIN names' : names'[n] = i
    BY <1>4
  <2>2. CASE n \in Own(p)
    BY <2>1, <2>2 DEF StepOf, FilesOf, Mine
  <2>3. CASE n \notin Own(p)
    <3>1. n \in DOMAIN names /\ names[n] = i
      BY <2>1, <2>3 DEF StepOf, FilesOf
    <3> QED BY <1>2, <2>1, <3>1 DEF Mine, Writes
  <2> QED BY <2>1, <2>2, <2>3
<1> QED BY <1>1, <1>3, <1>4 DEF Mine, Writes

LEMMA BaseTypes == Base => TypeOK
BY DEF Base

LEMMA ApartKept ==
  ASSUME Base, Apart, NEW p \in Requests, StepOf(p)
  PROVE  Apart'
<1> SUFFICES ASSUME NEW r \in Requests, Private(r), NEW q \in Requests \ {r}, NEW i,
                    Mine(r, i)', Mine(q, i)'
             PROVE  FALSE
  BY SamePaths DEF Apart, StepOf, FilesOf
<1>1. \A x \in Requests \ {r} : ~(i \in DOMAIN data /\ Mine(r, i) /\ Mine(x, i))
  BY DEF Apart
<1>2. CASE p = r
  <2>1. Own(q) \cap Own(p) = {}
    BY <1>2, BaseTypes, PrivateNames
  <2>2. Mine(q, i)
    BY <1>2, <2>1, OtherInodes
  <2> QED BY <1>1, <1>2, <2>2, OwnInodes, MineIsInode
<1>3. CASE p = q
  <2>1. Own(r) \cap Own(p) = {}
    BY <1>3, BaseTypes, PrivateNames
  <2>2. Mine(r, i)
    BY <1>3, <2>1, OtherInodes
  <2> QED BY <1>1, <1>3, <2>2, OwnInodes, MineIsInode
<1>4. CASE p \notin {q, r}
  <2>1. Own(r) \cap Own(p) = {}
    BY <1>4, BaseTypes, PrivateNames
  <2>2. Mine(r, i)
    BY <1>4, <2>1, OtherInodes
  <2>3. Mine(q, i) \/ Mine(p, i) \/ i \notin DOMAIN data
    BY <1>4, OtherInodes
  <2> QED BY <1>1, <1>4, <2>2, <2>3, MineIsInode
<1> QED BY <1>2, <1>3, <1>4

\* What another request does leaves the content of a private one as it is.
LEMMA ContentKept ==
  ASSUME Base, Apart, InPhase, NEW p \in Requests, StepOf(p),
         NEW r \in Requests \ {p}, Private(r), Content(r)
  PROVE  Content(r)'
<1>1. Same(r) /\ size' = size /\ Temp(r)' = Temp(r) /\ Raw(r)' = Raw(r)
  BY SamePaths DEF StepOf, FilesOf
<1>2. ASSUME NEW i \in DOMAIN data, Mine(r, i)
      PROVE  i \in DOMAIN data' /\ data'[i] = data[i]
  <2>1. ~Mine(p, i)
    BY <1>2 DEF Apart
  <2>2. ~Writes(p, i)
    BY <2>1 DEF Mine
  <2> QED BY <2>2 DEF StepOf, FilesOf
<1>3. \A n \in Own(r) : n \notin Own(p)
  BY BaseTypes, PrivateNames
<1>4. ASSUME NEW n \in Own(r)
      PROVE  /\ n \in DOMAIN names' <=> n \in DOMAIN names
             /\ n \in DOMAIN names => names'[n] = names[n]
  BY <1>3 DEF StepOf, FilesOf
<1>5. ASSUME NEW n \in Own(r) \cap DOMAIN names
      PROVE  /\ names[n] \in DOMAIN data /\ Mine(r, names[n])
             /\ data'[names[n]] = data[names[n]]
  <2>1. names[n] \in DOMAIN data /\ names[n] # 0
    BY InodesNotZero DEF Base, TypeOK
  <2>2. Mine(r, names[n])
    BY <2>1 DEF Mine, Writes
  <2> QED BY <1>2, <2>1, <2>2
<1>6. ASSUME NEW i \in DOMAIN data, Mine(r, i), Good(r, i)
      PROVE  Good(r, i)'
  <2>1. i \in DOMAIN data' /\ data'[i] = data[i]
    BY <1>2, <1>6
  <2> QED BY <1>1, <1>6, <2>1 DEF Good, Same, Rest, Missing, Beginning, Block
<1>7. Spilling(r)'
  <2> SUFFICES ASSUME at[r] = "spilling"
               PROVE  /\ in[r].pos \in Missing(r) .. size[r]
                      /\ data'[in[r].ino] = Beginning(r, in[r].pos - Missing(r))
                      /\ Temp(r) \in DOMAIN names' => names'[Temp(r)] = in[r].ino
    BY <1>1 DEF Spilling, Same, Missing, Beginning, Block
  <2>1. Mine(r, in[r].ino) /\ in[r].ino \in DOMAIN data
    BY DEF InPhase, Phases, Mine, Writes, Base, TypeOK, Inside
  <2> QED BY <1>2, <1>4, <2>1 DEF Content, Spilling, Own
<1>8. Moving(r)'
  <2>1. Beginning(r, Rest(r))' = Beginning(r, Rest(r))
    BY <1>1 DEF Beginning, Block, Rest, Missing, Same
  <2>2. Temp(r) \in Own(r)
    BY DEF Own
  <2> QED BY <1>1, <1>4, <1>5, <2>1, <2>2 DEF Content, Moving, Same
<1>9. Forwards(r)'
  <2> SUFFICES ASSUME at[r] \notin Reads, source[r] \in DOMAIN names'
               PROVE  \A i : i = names'[source'[r]] => Good(r, i)'
    BY <1>1 DEF Forwards, Same, Good
  <2>1. source[r] \in Own(r) \cap DOMAIN names
    <3>1. source[r] \in Own(r) \/ source[r] = InMemory
      BY DEF Base, TypeOK, Own
    <3>2. InMemory \notin Own(p)
      BY BaseTypes, OwnNames
    <3>3. InMemory \notin DOMAIN names'
      BY <3>2 DEF StepOf, FilesOf, Base
    <3> QED BY <1>4, <3>1, <3>3
  <2>2. Good(r, names[source[r]]) /\ names'[source'[r]] = names[source[r]]
    BY <1>1, <1>4, <2>1 DEF Content, Forwards, Same
  <2> QED BY <1>5, <1>6, <2>1, <2>2
<1>10. Sending(r)'
  <2> SUFFICES ASSUME up[r] = "sending"
               PROVE  /\ \A i : i = out[r].ino => Good(r, i)'
                      /\ out[r].pos \in 0 .. Len(data'[out[r].ino])
                      /\ sent[r] = Beginning(r, out[r].pos)
    BY <1>1 DEF Sending, Same, Good, Beginning, Block
  <2>1. Mine(r, out[r].ino) /\ out[r].ino \in DOMAIN data
    BY DEF InPhase, Phases, Mine, Base, TypeOK, Inside
  <2> QED BY <1>2, <1>6, <2>1 DEF Content, Sending
<1>11. Got(r)'
  BY <1>1 DEF Content, Got, Same, Rest, Missing, Beginning, Block
<1> QED BY <1>7, <1>8, <1>9, <1>10, <1>11 DEF Content

\* So it does with the raw artifact of any.
LEMMA RawKept ==
  ASSUME Base, Base', NEW p \in Requests, StepOf(p),
         NEW r \in Requests \ {p}, RawOf(r)
  PROVE  RawOf(r)'
<1> SUFFICES ASSUME RecordRaw, r \in Compressed, ~OverLimit(r), Alone(r)
             PROVE  /\ Raw(r)' \in DOMAIN names' =>
                         /\ \A q \in Requests : in'[q].ino # names'[Raw(r)']
                         /\ Artful(r)
                         /\ \E n \in 0 .. size[r] :
                              data'[names'[Raw(r)']] = Beginning(r, n)
                    /\ Uploading(r)' /\ Artful(r) /\ ~unkept[r] =>
                         /\ Raw(r)' \in DOMAIN names'
                         /\ data'[names'[Raw(r)']] = BodyOf(r)
  BY SamePaths DEF RawOf, StepOf, FilesOf, Same, OverLimit, Artful, BodyOf, Beginning, Block
<1>1. Raw(r)' = Raw(r) /\ Temp(p)' = Temp(p)
  BY SamePaths DEF StepOf, FilesOf
<1>2. Raw(r) \notin Own(p) /\ Raw(r) # Temp(p)
  BY BaseTypes, OwnNames DEF Own, Alone
<1>3. /\ Raw(r) \in DOMAIN names' <=> Raw(r) \in DOMAIN names
      /\ Raw(r) \in DOMAIN names => names'[Raw(r)] = names[Raw(r)]
  BY <1>2 DEF StepOf, FilesOf
<1>4. Raw(r) \in DOMAIN names => \A q \in Requests : in[q].ino # names[Raw(r)]
  BY DEF RawOf
<1>5. Raw(r) \in DOMAIN names => names[Raw(r)] \in DOMAIN data /\ names[Raw(r)] # 0
  BY InodesNotZero DEF Base, TypeOK
<1>6. Raw(r) \in DOMAIN names' =>
        \A q \in Requests : in'[q].ino # names'[Raw(r)]
  <2>1. \A q \in Requests \ {p} : in'[q].ino = in[q].ino
    BY DEF StepOf, FilesOf, Same
  <2>2. Raw(r) \in DOMAIN names' => in'[p].ino # names'[Raw(r)]
    <3>1. Temp(p) \in DOMAIN names' /\ Raw(r) \in DOMAIN names'
            => names'[Temp(p)] # names'[Raw(r)]
      BY <1>2 DEF Base, Injective
    <3> QED BY <1>3, <1>4, <1>5, <3>1 DEF StepOf, FilesOf
  <2> QED BY <1>3, <1>4, <2>1, <2>2
<1>7. Raw(r) \in DOMAIN names => data'[names[Raw(r)]] = data[names[Raw(r)]]
  <2>1. Raw(r) \in DOMAIN names => ~Writes(p, names[Raw(r)])
    BY <1>2, <1>4 DEF Writes, Base, Injective
  <2> QED BY <1>5, <2>1 DEF StepOf, FilesOf
<1>8. Uploading(r)' => Uploading(r)
  BY DEF StepOf, FilesOf, Same, Uploading
<1>9. /\ Raw(r) \in DOMAIN names =>
           Artful(r) /\ \E n \in 0 .. size[r] : data[names[Raw(r)]] = Beginning(r, n)
      /\ Uploading(r) /\ Artful(r) /\ ~unkept[r] =>
           Raw(r) \in DOMAIN names /\ data[names[Raw(r)]] = BodyOf(r)
  BY DEF RawOf
<1> QED BY <1>1, <1>3, <1>6, <1>7, <1>8, <1>9

\* And with the spill files of the others.
LEMMA SpillsKept ==
  ASSUME Base, Spills, NEW p \in Requests, StepOf(p),
         Temp(p) \in DOMAIN names' => Keeps(p)' \/ (Temp(p) \in DOMAIN names /\ ~Keeps(p))
  PROVE  Spills'
<1>1. \A q \in Requests : Temp(q)' = Temp(q)
  BY SamePaths DEF StepOf, FilesOf
<1>2. \A q \in Requests \ {p} : Keeps(q) => Keeps(q)'
  BY DEF StepOf, FilesOf, Same, Keeps, OverLimit
<1> SUFFICES ASSUME NEW n \in DOMAIN names', n.dir = "tmp"
             PROVE  \E r \in Requests : Temp(r)' = n /\ Keeps(r)'
  BY DEF Spills
<1>3. CASE n = Temp(p)
  <2>1. CASE Keeps(p)'
    BY <1>1, <1>3, <2>1
  <2>2. CASE Temp(p) \in DOMAIN names /\ ~Keeps(p)
    <3>1. PICK q \in Requests : Temp(q) = n /\ Keeps(q)
      BY <1>3, <2>2 DEF Spills
    <3>2. q # p
      BY <2>2, <3>1
    <3> QED BY <1>1, <1>2, <3>1, <3>2
  <2> QED BY <1>3, <2>1, <2>2
<1>4. CASE n # Temp(p)
  <2>1. n \notin Own(p)
    BY <1>4, BaseTypes, OwnNames DEF Own
  <2>2. PICK q \in Requests : Temp(q) = n /\ Keeps(q)
    BY <2>1 DEF StepOf, FilesOf, Spills
  <2> QED BY <1>1, <1>2, <1>4, <2>2
<1> QED BY <1>3, <1>4

\* A step that leaves the others alone and does its own part keeps it all.
LEMMA FrameKeeps ==
  ASSUME Inv, NEW p \in Requests, StepOf(p), OwnPart(p)
  PROVE  Inv'
<1>1. Base' /\ Spills'
  BY SpillsKept DEF Inv, OwnPart
<1>2. Apart'
  BY ApartKept DEF Inv
<1>3. InPhase'
  <2>1. ASSUME NEW r \in Requests \ {p}
        PROVE  Phases(r)'
    <3>1. Phases(r) /\ Same(r) /\ size' = size /\ Temp(r)' = Temp(r)
      BY SamePaths DEF Inv, InPhase, StepOf, FilesOf
    <3> QED BY <3>1 DEF Phases, Same, OverLimit, Uploading
  <2> QED BY <2>1 DEF InPhase, OwnPart
<1>4. Contents'
  <2> SUFFICES ASSUME NEW r \in Requests, Private(r)'
               PROVE  Content(r)'
    BY DEF Contents
  <2>1. Private(r)
    BY SamePaths DEF StepOf, FilesOf
  <2>2. CASE r = p
    BY <2>1, <2>2 DEF OwnPart
  <2>3. CASE r # p
    BY <2>1, <2>3, ContentKept DEF Inv, Contents
  <2> QED BY <2>2, <2>3
<1>5. Raws'
  <2>1. ASSUME NEW r \in Requests \ {p}
        PROVE  RawOf(r)'
    BY <1>1, RawKept DEF Inv, Raws
  <2> QED BY <2>1 DEF Raws, OwnPart
<1> QED BY <1>1, <1>2, <1>3, <1>4, <1>5 DEF Inv

-----------------------------------------------------------------------------
(* The steps that write no file and open none.                             *)

Closing(p) ==
  /\ UNCHANGED <<size, stem, dir, data, out, source, sent, cut, unkept>>
  /\ names' \in {names, Without(Temp(p))}
  /\ in' \in {in, [in EXCEPT ![p] = Closed]}
  /\ \E x \in Places \ {"reading"} : at' = [at EXCEPT ![p] = x]
  /\ \E x \in BOOLEAN : unlink' = [unlink EXCEPT ![p] = x]
  /\ \E x \in Uploads : up' = [up EXCEPT ![p] = x]

LEMMA ClosingNames ==
  ASSUME NEW p, names' \in {names, Without(Temp(p))}
  PROVE  /\ DOMAIN names' \subseteq DOMAIN names
         /\ \A n \in DOMAIN names' : names'[n] = names[n]
         /\ \A n \in DOMAIN names : n # Temp(p) => n \in DOMAIN names'
BY DEF Without

LEMMA ClosingBase ==
  ASSUME Base, NEW p \in Requests, Closing(p)
  PROVE  Base'
<1>1. /\ DOMAIN names' \subseteq DOMAIN names
      /\ \A n \in DOMAIN names' : names'[n] = names[n]
  BY ClosingNames DEF Closing
<1>2. TypeOK'
  <2>1. in' \in [Requests -> [ino : Nat, pos : Nat]] /\ Inside(in)'
    <3>1. Closed \in [ino : Nat, pos : Nat] /\ Closed.ino = 0
      BY DEF Closed
    <3>2. in \in [Requests -> [ino : Nat, pos : Nat]] /\ Inside(in)
      BY DEF Base, TypeOK
    <3>3. in' = in \/ in' = [in EXCEPT ![p] = Closed]
      BY DEF Closing
    <3>4. in' \in [Requests -> [ino : Nat, pos : Nat]]
      BY <3>1, <3>2, <3>3
    <3>5. \A r \in Requests : in'[r].ino \in {0, in[r].ino}
      BY <3>1, <3>2, <3>3
    <3> QED BY <3>2, <3>4, <3>5 DEF Closing, Inside
  <2>2. at' \in [Requests -> Places] /\ unlink' \in [Requests -> BOOLEAN]
        /\ up' \in [Requests -> Uploads]
    BY DEF Base, TypeOK, Closing
  <2>3. \A r \in Requests : source'[r] \in {InMemory, Temp(r)', Raw(r)'}
    BY SamePaths DEF Base, TypeOK, Closing
  <2> QED BY <1>1, <2>1, <2>2, <2>3 DEF Base, TypeOK, Closing, Inside
<1> QED BY <1>1, <1>2 DEF Base, Inodes, Injective, Closing

LEMMA ClosingStep ==
  ASSUME Base, NEW p \in Requests, Closing(p)
  PROVE  StepOf(p)
<1>1. /\ DOMAIN names' \subseteq DOMAIN names
      /\ \A n \in DOMAIN names' : names'[n] = names[n]
      /\ \A n \in DOMAIN names : n # Temp(p) => n \in DOMAIN names'
  BY ClosingNames DEF Closing
<1>2. \A q \in Requests \ {p} : Same(q)
  BY DEF Base, TypeOK, Closing, Same
<1>3. in'[p].ino \in {0, in[p].ino}
  BY DEF Base, TypeOK, Closing, Closed
<1>4. \A n \in Own(p) \cap DOMAIN names' : Writes(p, names'[n])
  <2>1. \A n \in Own(p) \cap DOMAIN names' : names[n] # 0
    BY <1>1, InodesNotZero DEF Base, TypeOK
  <2> QED BY <1>1, <2>1 DEF Writes
<1>5. /\ UNCHANGED <<size, stem, dir>> /\ out'[p].ino = out[p].ino
      /\ DOMAIN data \subseteq DOMAIN data'
      /\ \A i \in DOMAIN data : ~Writes(p, i) => data'[i] = data[i]
  BY DEF Closing
<1>6. Temp(p) \in Own(p)
  BY DEF Own
<1> QED BY <1>1, <1>2, <1>3, <1>4, <1>5, <1>6 DEF StepOf, FilesOf

LEMMA ClosingRaw ==
  ASSUME Base, NEW p \in Requests, Closing(p), RawOf(p), Uploading(p)' => Uploading(p)
  PROVE  RawOf(p)'
<1>1. /\ DOMAIN names' \subseteq DOMAIN names
      /\ \A n \in DOMAIN names' : names'[n] = names[n]
      /\ \A n \in DOMAIN names : n # Temp(p) => n \in DOMAIN names'
  BY ClosingNames DEF Closing
<1>2. Raw(p)' = Raw(p) /\ BodyOf(p)' = BodyOf(p) /\ Raw(p) # Temp(p) /\ size' = size
      /\ data' = data
  BY SamePaths, BaseTypes, OwnNames DEF Closing, BodyOf, Block
<1>3. \A q \in Requests : in'[q].ino \in {0, in[q].ino}
  BY DEF Base, TypeOK, Closing, Closed
<1>4. Raw(p) \in DOMAIN names => names[Raw(p)] # 0
  BY InodesNotZero DEF Base, TypeOK
<1>5. /\ Alone(p)' <=> Alone(p)
      /\ \A n : Beginning(p, n)' = Beginning(p, n)
      /\ unkept' = unkept
  BY SamePaths DEF Closing, Beginning, Block
<1> QED BY <1>1, <1>2, <1>3, <1>4, <1>5 DEF RawOf, Artful, OverLimit

\* What it does to the content is to end an upload, or to end spilling.
LEMMA ClosingContent ==
  ASSUME Base, NEW p \in Requests, Phases(p), Closing(p), Content(p),
         at'[p] = "spilling" => UNCHANGED <<names, in>> /\ at[p] = "spilling",
         at'[p] = "moving" =>
           UNCHANGED names /\ (at[p] = "moving" \/ (at[p] = "spilling" /\ in[p].pos = size[p])),
         up'[p] \in {"unpolled", "sending"} => up[p] = up'[p],
         up'[p] = "ended" =>
           up[p] = "ended" \/ (up[p] = "sending" /\ out[p].pos >= Len(data[out[p].ino]))
  PROVE  Content(p)'
<1>1. /\ DOMAIN names' \subseteq DOMAIN names
      /\ \A n \in DOMAIN names' : names'[n] = names[n]
  BY ClosingNames DEF Closing
<1>2. /\ Temp(p)' = Temp(p) /\ Raw(p)' = Raw(p) /\ BodyOf(p)' = BodyOf(p)
      /\ size' = size /\ data' = data /\ source' = source /\ out' = out /\ sent' = sent
      /\ \A n : Beginning(p, n)' = Beginning(p, n)
      /\ Missing(p)' = Missing(p) /\ Rest(p)' = Rest(p)
  BY SamePaths DEF Closing, BodyOf, Beginning, Block, Missing, Rest
<1>3. size[p] \in Nat
  BY SizesAreNumbers DEF Base
<1>4. Spilling(p)'
  BY <1>2 DEF Content, Spilling
<1>5. Moving(p)'
  <2>1. CASE at'[p] = "moving" /\ at[p] = "moving"
    BY <1>2, <2>1 DEF Content, Moving
  <2>2. CASE at'[p] = "moving" /\ at[p] = "spilling" /\ in[p].pos = size[p]
    BY <1>2, <1>3, <2>2 DEF Content, Moving, Spilling, Rest
  <2> QED BY <2>1, <2>2 DEF Moving
<1>6. Forwards(p)'
  <2> SUFFICES ASSUME at'[p] \notin Reads, source[p] \in DOMAIN names'
               PROVE  Good(p, names[source[p]])
    BY <1>1, <1>2 DEF Forwards, Good
  <2>1. source[p] \in DOMAIN names /\ source[p] # InMemory
    BY <1>1 DEF Base
  <2> QED BY <2>1 DEF Content, Forwards, Phases
<1>7. Sending(p)'
  BY <1>2 DEF Content, Sending, Good
<1>8. Got(p)'
  <2> SUFFICES ASSUME up'[p] # "sending"
               PROVE  \E n \in 0 .. size[p] :
                        /\ sent[p] = Beginning(p, n)
                        /\ up'[p] = "unpolled" => n = 0
                        /\ up'[p] = "ended" /\ source[p] # Raw(p) => n >= Rest(p)
    BY <1>2 DEF Got
  <2>1. CASE up[p] # "sending"
    BY <2>1 DEF Content, Got
  <2>2. CASE up[p] = "sending"
    <3>1. PICK n \in 0 .. size[p] :
            data[out[p].ino] = Beginning(p, n) /\ (source[p] = Temp(p) => n = Rest(p))
      BY <2>2 DEF Content, Sending, Good
    <3>2. Len(data[out[p].ino]) = n
      BY <1>3, <3>1, BeginningLength
    <3>3. out[p].pos \in 0 .. n /\ sent[p] = Beginning(p, out[p].pos)
      BY <2>2, <3>2 DEF Content, Sending
    <3>4. source[p] \in {Temp(p), Raw(p)}
      BY <2>2 DEF Phases, Base, TypeOK
    <3>5. up'[p] = "ended" => out[p].pos = n
      BY <1>3, <2>2, <3>2, <3>3
    <3> QED BY <1>3, <2>2, <3>1, <3>3, <3>4, <3>5
  <2> QED BY <2>1, <2>2
<1> QED BY <1>4, <1>5, <1>6, <1>7, <1>8 DEF Content

\* A closing step is right when its request goes on as the handler does.
GoesOn(p) ==
  /\ at'[p] = "spilling" => UNCHANGED <<names, in>> /\ at[p] = "spilling"
  /\ at'[p] = "moving" =>
       UNCHANGED names /\ (at[p] = "moving" \/ (at[p] = "spilling" /\ in[p].pos = size[p]))
  /\ up'[p] \in {"unpolled", "sending"} => up[p] = up'[p]
  /\ up'[p] = "ended" =>
       up[p] = "ended" \/ (up[p] = "sending" /\ out[p].pos >= Len(data[out[p].ino]))
  /\ Uploading(p)' => Uploading(p)
  /\ Temp(p) \in DOMAIN names' /\ Keeps(p) => Keeps(p)'

LEMMA ClosingKeeps ==
  ASSUME Inv, NEW p \in Requests, Closing(p), Phases(p)', GoesOn(p)
  PROVE  Inv'
<1>1. Base /\ Phases(p) /\ RawOf(p) /\ (Private(p) => Content(p))
  BY DEF Inv, InPhase, Raws, Contents
<1>2. StepOf(p) /\ Base' /\ RawOf(p)'
  BY <1>1, ClosingStep, ClosingBase, ClosingRaw DEF GoesOn
<1>3. Private(p) => Content(p)'
  BY <1>1, ClosingContent DEF GoesOn
<1>4. DOMAIN names' \subseteq DOMAIN names
  BY ClosingNames DEF Closing
<1>5. OwnPart(p)
  BY <1>2, <1>3, <1>4 DEF OwnPart, GoesOn
<1> QED BY <1>2, <1>5, FrameKeeps

\* What a step leaves alone, as Closing puts it.
LEMMA LeftAlone ==
  ASSUME TypeOK, NEW p \in Requests
  PROVE  /\ unlink = [unlink EXCEPT ![p] = unlink[p]] /\ unlink[p] \in BOOLEAN
         /\ up = [up EXCEPT ![p] = up[p]] /\ up[p] \in Uploads
         /\ at = [at EXCEPT ![p] = at[p]] /\ at[p] \in Places
BY DEF TypeOK

LEMMA ReadInMemoryKeeps ==
  ASSUME Inv, NEW p \in Requests, ReadInMemory(p)
  PROVE  Inv'
<1>1. TypeOK /\ Phases(p)
  BY DEF Inv, Base, InPhase
<1>2. at[p] = "reading" /\ at'[p] = "writing" /\ at' = [at EXCEPT ![p] = "writing"]
  BY <1>1 DEF plans, ReadInMemory, Goes, TypeOK
<1>3. Closing(p)
  BY <1>1, <1>2, LeftAlone DEF plans, ReadInMemory, Closing, TypeOK, Places
<1>4. Phases(p)'
  BY <1>1, <1>2, SamePaths, OwnNames DEF plans, ReadInMemory, Phases, Reads, Uploading, OverLimit, Own
<1>5. GoesOn(p)
  BY <1>1, <1>2 DEF plans, ReadInMemory, GoesOn, Uploading, Keeps, OverLimit
<1> QED BY <1>3, <1>4, <1>5, ClosingKeeps

LEMMA SpilledKeeps ==
  ASSUME Inv, NEW p \in Requests, Spilled(p)
  PROVE  Inv'
<1>1. TypeOK /\ Phases(p)
  BY DEF Inv, Base, InPhase
<1>2. at[p] = "spilling" /\ at'[p] = "moving" /\ at' = [at EXCEPT ![p] = "moving"]
  BY <1>1 DEF plans, Spilled, Goes, TypeOK
<1>3. Closing(p)
  BY <1>1, <1>2, LeftAlone DEF plans, Spilled, Closing, TypeOK, Places
<1>4. Phases(p)'
  BY <1>1, <1>2, SamePaths DEF plans, Spilled, Phases, Reads, Uploading, OverLimit
<1>5. GoesOn(p)
  BY <1>1, <1>2 DEF plans, Spilled, GoesOn, Uploading, Keeps, OverLimit
<1> QED BY <1>3, <1>4, <1>5, ClosingKeeps

LEMMA RefuseKeeps ==
  ASSUME Inv, NEW p \in Requests, Refuse(p)
  PROVE  Inv'
<1>1. TypeOK /\ Phases(p)
  BY DEF Inv, Base, InPhase
<1>2. at[p] \in {"reading", "spilling"} /\ at'[p] = "refused" /\ at' = [at EXCEPT ![p] = "refused"]
  BY <1>1 DEF plans, Refuse, Goes, TypeOK
<1>3. Closing(p)
  BY <1>1, <1>2, LeftAlone DEF plans, Refuse, Closing, TypeOK, Places, Over
<1>4. Phases(p)'
  BY <1>1, <1>2, SamePaths DEF plans, Refuse, Phases, Reads, Uploading, OverLimit
<1>5. GoesOn(p)
  BY <1>1, <1>2 DEF plans, Refuse, GoesOn, Uploading, Keeps, OverLimit
<1> QED BY <1>3, <1>4, <1>5, ClosingKeeps

LEMMA GoneKeeps ==
  ASSUME Inv, NEW p \in Requests, Gone(p)
  PROVE  Inv'
<1>1. TypeOK /\ Phases(p)
  BY DEF Inv, Base, InPhase
<1>2. /\ at[p] \in {"reading", "spilling", "forwarding", "collecting"}
      /\ at'[p] = "gone" /\ at' = [at EXCEPT ![p] = "gone"]
      /\ up'[p] = "broken"
  BY <1>1 DEF plans, Gone, Goes, TypeOK
<1>3. Closing(p)
  BY <1>1, <1>2, LeftAlone DEF plans, Gone, Closing, TypeOK, Places, Over, Uploads
<1>4. Phases(p)'
  BY <1>1, <1>2, SamePaths DEF plans, Gone, Phases, Reads, Uploading, OverLimit
<1>5. GoesOn(p)
  BY <1>1, <1>2 DEF plans, Gone, GoesOn, Uploading, Keeps, OverLimit
<1> QED BY <1>3, <1>4, <1>5, ClosingKeeps

LEMMA RespondKeeps ==
  ASSUME Inv, NEW p \in Requests, Respond(p)
  PROVE  Inv'
<1>1. TypeOK /\ Phases(p)
  BY DEF Inv, Base, InPhase
<1>2. PICK x \in {"collecting", "streaming"} :
        at[p] = "forwarding" /\ at'[p] = x /\ at' = [at EXCEPT ![p] = x]
  BY <1>1 DEF plans, Respond, Goes, TypeOK
<1>3. Closing(p)
  BY <1>1, <1>2, LeftAlone DEF plans, Respond, Closing, TypeOK, Places
<1>4. Phases(p)'
  BY <1>1, <1>2, SamePaths DEF plans, Respond, Phases, Reads, Uploading, OverLimit
<1>5. GoesOn(p)
  BY <1>1, <1>2 DEF plans, Respond, GoesOn, Uploading, Keeps, OverLimit
<1> QED BY <1>3, <1>4, <1>5, ClosingKeeps

LEMMA AnswerCatalogKeeps ==
  ASSUME Inv, NEW p \in Requests, AnswerCatalog(p)
  PROVE  Inv'
<1>1. TypeOK /\ Phases(p)
  BY DEF Inv, Base, InPhase
<1>2. PICK x \in {"catalog", "unread"} :
        at[p] = "collecting" /\ at'[p] = x /\ at' = [at EXCEPT ![p] = x]
  BY <1>1 DEF plans, AnswerCatalog, Goes, TypeOK
<1>3. Closing(p)
  BY <1>1, <1>2, LeftAlone DEF plans, AnswerCatalog, Closing, TypeOK, Places, Over
<1>4. Phases(p)'
  BY <1>1, <1>2, SamePaths DEF plans, AnswerCatalog, Phases, Reads, Uploading, OverLimit
<1>5. GoesOn(p)
  BY <1>1, <1>2 DEF plans, AnswerCatalog, GoesOn, Uploading, Keeps, OverLimit
<1> QED BY <1>3, <1>4, <1>5, ClosingKeeps

LEMMA SentAllKeeps ==
  ASSUME Inv, NEW p \in Requests, SentAll(p)
  PROVE  Inv'
<1>1. TypeOK /\ Phases(p)
  BY DEF Inv, Base, InPhase
<1>2. up[p] = "sending" /\ up'[p] = "ended" /\ Uploading(p)
  BY <1>1 DEF plans, SentAll, TypeOK, Phases
<1>3. at' = [at EXCEPT ![p] = at[p]] /\ unlink' = [unlink EXCEPT ![p] = unlink[p]]
      /\ at[p] \in Places \ {"reading"}
  BY <1>1, <1>2 DEF plans, SentAll, TypeOK, Uploading
<1>4. Closing(p)
  BY <1>1, <1>2, <1>3, LeftAlone DEF plans, SentAll, Closing, TypeOK, Uploads
<1>5. Phases(p)'
  BY <1>1, <1>2, SamePaths DEF plans, SentAll, Phases, Reads, Uploading, OverLimit
<1>6. GoesOn(p)
  BY <1>1, <1>2 DEF plans, SentAll, GoesOn, Uploading, Keeps, OverLimit
<1> QED BY <1>4, <1>5, <1>6, ClosingKeeps


LEMMA UnspillNames ==
  ASSUME NEW p, Unspill(p)
  PROVE  /\ names' \in {names, Without(Temp(p))}
         /\ unlink[p] => Temp(p) \notin DOMAIN names'
BY DEF Unspill, Without

LEMMA SendFailsKeeps ==
  ASSUME Inv, NEW p \in Requests, SendFails(p)
  PROVE  Inv'
<1>1. TypeOK /\ Phases(p)
  BY DEF Inv, Base, InPhase
<1>2. /\ at[p] = "forwarding" /\ at'[p] = "bad_gateway" /\ at' = [at EXCEPT ![p] = "bad_gateway"]
      /\ up'[p] = "broken" /\ ~unlink'[p] /\ unlink' = [unlink EXCEPT ![p] = FALSE]
  BY <1>1 DEF plans, SendFails, Goes, TypeOK, Unspill
<1>3. Closing(p)
  BY <1>1, <1>2, UnspillNames DEF plans, SendFails, Closing, TypeOK, Places, Over, Uploads
<1>4. Phases(p)'
  BY <1>1, <1>2, SamePaths DEF plans, SendFails, Phases, Reads, Uploading, OverLimit
<1>5. GoesOn(p)
  BY <1>2, UnspillNames DEF plans, SendFails, GoesOn, Uploading, Keeps
<1> QED BY <1>3, <1>4, <1>5, ClosingKeeps

LEMMA PassOnKeeps ==
  ASSUME Inv, NEW p \in Requests, PassOn(p)
  PROVE  Inv'
<1>1. TypeOK /\ Phases(p)
  BY DEF Inv, Base, InPhase
<1>2. /\ at[p] = "forwarding" /\ at'[p] = "passed" /\ at' = [at EXCEPT ![p] = "passed"]
      /\ ~unlink'[p] /\ unlink' = [unlink EXCEPT ![p] = FALSE]
  BY <1>1 DEF plans, PassOn, Goes, TypeOK, Unspill
<1>3. Closing(p)
  BY <1>1, <1>2, UnspillNames, LeftAlone DEF plans, PassOn, Closing, TypeOK, Places, Over
<1>4. Phases(p)'
  BY <1>1, <1>2, SamePaths DEF plans, PassOn, Phases, Reads, Uploading, OverLimit
<1>5. GoesOn(p)
  BY <1>2, UnspillNames DEF plans, PassOn, GoesOn, Uploading, Keeps
<1> QED BY <1>3, <1>4, <1>5, ClosingKeeps

LEMMA FinishKeeps ==
  ASSUME Inv, NEW p \in Requests, Finish(p)
  PROVE  Inv'
<1>1. TypeOK /\ Phases(p)
  BY DEF Inv, Base, InPhase
<1>2. /\ at[p] = "streaming" /\ at'[p] = "answered" /\ at' = [at EXCEPT ![p] = "answered"]
      /\ ~unlink'[p] /\ unlink' = [unlink EXCEPT ![p] = FALSE]
  BY <1>1 DEF plans, Finish, Goes, TypeOK, Unspill
<1>3. Closing(p)
  BY <1>1, <1>2, UnspillNames, LeftAlone DEF plans, Finish, Closing, TypeOK, Places, Over
<1>4. Phases(p)'
  BY <1>1, <1>2, SamePaths DEF plans, Finish, Phases, Reads, Uploading, OverLimit
<1>5. GoesOn(p)
  BY <1>2, UnspillNames DEF plans, Finish, GoesOn, Uploading, Keeps
<1> QED BY <1>3, <1>4, <1>5, ClosingKeeps

-----------------------------------------------------------------------------
(* The upload.                                                             *)

LEMMA OpenBodyKeeps ==
  ASSUME Inv, NEW p \in Requests, OpenBody(p)
  PROVE  Inv'
<1>1. Base /\ TypeOK /\ Phases(p) /\ RawOf(p) /\ (Private(p) => Content(p))
  BY DEF Inv, Base, InPhase, Raws, Contents
<1>2. /\ UNCHANGED <<size, stem, dir, at, names, data, in, source, unlink, cut, unkept>>
      /\ Uploading(p) /\ up[p] = "unpolled"
  BY DEF plans, OpenBody
<1>3. /\ \A r \in Requests \ {p} : out'[r] = out[r] /\ sent'[r] = sent[r] /\ up'[r] = up[r]
      /\ up' \in [Requests -> Uploads] /\ DOMAIN sent' = Requests
  BY <1>1 DEF plans, OpenBody, TypeOK, Uploads
<1>4. \/ /\ source[p] = InMemory /\ out' = out /\ up'[p] = "ended" /\ sent'[p] = BodyOf(p)
      \/ /\ source[p] # InMemory /\ source[p] \in DOMAIN names /\ sent' = sent
         /\ up'[p] = "sending" /\ out' = [out EXCEPT ![p] = [ino |-> names[source[p]], pos |-> 0]]
      \/ out' = out /\ sent' = sent /\ up'[p] = "broken"
  BY <1>1 DEF plans, OpenBody, TypeOK
<1>5. \A n \in DOMAIN names : names[n] \in Nat
  BY <1>1 DEF Base, TypeOK, Inodes
<1>6. out' \in [Requests -> [ino : Nat, pos : Nat]] /\ Inside(out)'
  <2>1. CASE out' = out
    BY <1>1, <1>2, <2>1 DEF TypeOK, Inside
  <2>2. CASE source[p] \in DOMAIN names
             /\ out' = [out EXCEPT ![p] = [ino |-> names[source[p]], pos |-> 0]]
    <3>1. [ino |-> names[source[p]], pos |-> 0] \in [ino : Nat, pos : Nat]
      BY <1>5, <2>2
    <3> QED BY <1>1, <1>2, <2>2, <3>1 DEF TypeOK, Inside
  <2> QED BY <1>4, <2>1, <2>2
<1>7. Base'
  <2>1. \A r \in Requests : source'[r] \in {InMemory, Temp(r)', Raw(r)'}
    BY <1>1, <1>2, SamePaths DEF TypeOK
  <2> QED BY <1>1, <1>2, <1>3, <1>6, <2>1 DEF Base, TypeOK, Inodes, Injective, Inside
<1>8. source[p] \in DOMAIN names => source[p] \in Own(p) \cap DOMAIN names
  BY <1>1 DEF Base, TypeOK, Own
<1>9. StepOf(p)
  <2>1. \A q \in Requests \ {p} : Same(q)
    BY <1>2, <1>3 DEF Same
  <2>2. \A n \in Own(p) \cap DOMAIN names' : Writes(p, names'[n])
    BY <1>1, <1>2, InodesNotZero DEF Base, TypeOK, Writes
  <2>3. \/ out'[p].ino = out[p].ino
        \/ \E n \in Own(p) \cap DOMAIN names : out'[p].ino = names[n]
    BY <1>1, <1>4, <1>8 DEF TypeOK
  <2> QED BY <1>2, <2>1, <2>2, <2>3 DEF StepOf, FilesOf
<1>10. Phases(p)'
  <2>1. out'[p].ino # 0 \/ up'[p] # "sending"
    BY <1>1, <1>4, InodesNotZero DEF Base, TypeOK
  <2> QED BY <1>1, <1>2, <1>4, <2>1, SamePaths
          DEF Phases, Reads, Uploading, OverLimit, TypeOK
<1>11. RawOf(p)' /\ (Keeps(p) => Keeps(p)') /\ Temp(p)' = Temp(p)
  BY <1>1, <1>2, SamePaths
     DEF RawOf, Artful, Uploading, Keeps, OverLimit, BodyOf, Beginning, Block
<1>12. ASSUME Private(p)
       PROVE  Content(p)'
  <2>1. Spilling(p)' /\ Moving(p)'
    BY <1>2 DEF Spilling, Moving, Uploading
  <2>2. Forwards(p)'
    <3>1. Forwards(p) /\ source' = source /\ at' = at
      BY <1>1, <1>2, <1>12 DEF Content
    <3>2. Temp(p)' = Temp(p)
      BY <1>2, SamePaths
    <3> QED BY <1>2, <3>1, <3>2 DEF Forwards, Good, Rest, Missing, Beginning, Block
  <2>3. sent[p] = Beginning(p, 0) /\ size[p] \in Nat
    BY <1>1, <1>2, <1>12, SizesAreNumbers DEF Content, Got
  <2>4. (\A n : Beginning(p, n)' = Beginning(p, n)) /\ Rest(p)' = Rest(p)
    BY <1>2 DEF Beginning, Block, Rest, Missing
  <2>5. Sending(p)'
    <3> SUFFICES ASSUME up'[p] = "sending"
                 PROVE  /\ Good(p, names[source[p]])
                        /\ 0 \in 0 .. Len(data[names[source[p]]])
                        /\ out'[p].ino = names[source[p]] /\ out'[p].pos = 0
                        /\ sent'[p] = Beginning(p, 0)
      BY <1>2, <2>4, SamePaths DEF Sending, Good
    <3>1. source[p] \in DOMAIN names /\ at[p] \notin Reads
      BY <1>2, <1>4 DEF Uploading, Reads
    <3>2. Good(p, names[source[p]])
      BY <1>1, <1>12, <3>1 DEF Content, Forwards
    <3>3. Len(data[names[source[p]]]) \in Nat
      BY <2>3, <3>2, BeginningLength DEF Good
    <3>4. out'[p] = [ino |-> names[source[p]], pos |-> 0] /\ sent' = sent
      BY <1>1, <1>4 DEF TypeOK
    <3> QED BY <2>3, <3>2, <3>3, <3>4
  <2>6. Got(p)'
    <3>1. CASE up'[p] = "broken"
      BY <1>2, <1>4, <2>3, <2>4, <3>1 DEF Got
    <3>2. CASE up'[p] = "ended"
      BY <1>1, <1>2, <1>4, <2>3, <2>4, <3>2, BeginningOfBody DEF Got, Rest, Missing
    <3> QED BY <1>4, <3>1, <3>2 DEF Got
  <2> QED BY <2>1, <2>2, <2>5, <2>6 DEF Content
<1>13. OwnPart(p)
  BY <1>2, <1>7, <1>10, <1>11, <1>12 DEF OwnPart
<1> QED BY <1>9, <1>13, FrameKeeps

LEMMA SendBlockKeeps ==
  ASSUME Inv, NEW p \in Requests, SendBlock(p)
  PROVE  Inv'
<1>1. Base /\ TypeOK /\ Phases(p) /\ RawOf(p) /\ (Private(p) => Content(p))
  BY DEF Inv, Base, InPhase, Raws, Contents
<1>2. /\ UNCHANGED <<size, stem, dir, at, names, data, in, source, unlink, up, cut, unkept>>
      /\ up[p] = "sending" /\ out[p].pos < Len(data[out[p].ino])
  BY DEF plans, SendBlock
<1>3. /\ out' = [out EXCEPT ![p] = [ino |-> out[p].ino, pos |-> out[p].pos + 1]]
      /\ out'[p].ino = out[p].ino /\ out'[p].pos = out[p].pos + 1
      /\ out' \in [Requests -> [ino : Nat, pos : Nat]]
  <2>1. [ino |-> out[p].ino, pos |-> out[p].pos + 1] \in [ino : Nat, pos : Nat]
    BY <1>1 DEF TypeOK
  <2> QED BY <1>1, <2>1 DEF plans, SendBlock, TypeOK
<1>4. /\ \A r \in Requests \ {p} : sent'[r] = sent[r] /\ out'[r] = out[r]
      /\ DOMAIN sent' = Requests
      /\ sent'[p] = Append(sent[p], data[out[p].ino][out[p].pos + 1])
  BY <1>1, <1>3 DEF plans, SendBlock, TypeOK
<1>5. Base'
  <2>1. \A r \in Requests : source'[r] \in {InMemory, Temp(r)', Raw(r)'}
    BY <1>1, <1>2, SamePaths DEF TypeOK
  <2>2. Inside(out)'
    BY <1>1, <1>2, <1>3, <1>4 DEF TypeOK, Inside
  <2> QED BY <1>1, <1>2, <1>3, <1>4, <2>1, <2>2 DEF Base, TypeOK, Inodes, Injective, Inside
<1>6. StepOf(p)
  <2>1. \A q \in Requests \ {p} : Same(q)
    BY <1>2, <1>4 DEF Same
  <2>2. \A n \in Own(p) \cap DOMAIN names' : Writes(p, names'[n])
    BY <1>1, <1>2, InodesNotZero DEF Base, TypeOK, Writes
  <2> QED BY <1>2, <1>3, <2>1, <2>2 DEF StepOf, FilesOf
<1>7. Phases(p)'
  BY <1>1, <1>2, <1>3, SamePaths DEF Phases, Reads, Uploading, OverLimit
<1>8. RawOf(p)' /\ (Keeps(p) => Keeps(p)') /\ Temp(p)' = Temp(p)
  BY <1>1, <1>2, SamePaths
     DEF RawOf, Artful, Uploading, Keeps, OverLimit, BodyOf, Beginning, Block
<1>9. ASSUME Private(p)
      PROVE  Content(p)'
  <2>1. Spilling(p)' /\ Moving(p)'
    BY <1>1, <1>2 DEF Spilling, Moving, Uploading, Phases
  <2>2. /\ Temp(p)' = Temp(p) /\ Rest(p)' = Rest(p)
        /\ \A n : Beginning(p, n)' = Beginning(p, n)
    BY <1>2, SamePaths DEF Beginning, Block, Rest, Missing
  <2>3. Forwards(p)'
    BY <1>1, <1>2, <1>9, <2>2 DEF Content, Forwards, Good
  <2>4. Got(p)'
    BY <1>2 DEF Got
  <2>5. Sending(p)
    BY <1>1, <1>9 DEF Content
  <2>6. PICK n \in 0 .. size[p] : data[out[p].ino] = Beginning(p, n)
    BY <1>2, <2>5 DEF Sending, Good
  <2>7. size[p] \in Nat /\ out[p].pos \in Nat
    BY <1>1, SizesAreNumbers DEF TypeOK
  <2>8. /\ Len(data[out[p].ino]) = n
        /\ \A i \in 1 .. n : data[out[p].ino][i] = Block(p, i)
    BY <2>6, <2>7, BeginningLength
  <2>9. out[p].pos + 1 \in 0 .. n /\ data[out[p].ino][out[p].pos + 1] = Block(p, out[p].pos + 1)
    BY <1>2, <2>7, <2>8
  <2>10. sent'[p] = Beginning(p, out[p].pos + 1)
    BY <1>2, <1>4, <2>5, <2>7, <2>9, BeginningGrows DEF Sending
  <2>11. Sending(p)'
    BY <1>2, <1>3, <2>2, <2>5, <2>8, <2>9, <2>10 DEF Sending, Good
  <2> QED BY <2>1, <2>3, <2>4, <2>11 DEF Content
<1>10. OwnPart(p)
  BY <1>2, <1>5, <1>7, <1>8, <1>9 DEF OwnPart
<1> QED BY <1>6, <1>10, FrameKeeps

-----------------------------------------------------------------------------
(* The steps that write files.                                             *)

LEMMA FreshInode ==
  ASSUME Inodes
  PROVE  /\ FreshIno \in Nat \ {0} /\ FreshIno \notin DOMAIN data
         /\ \E k \in Nat : DOMAIN data \cup {FreshIno} = 1 .. k
<1>1. PICK k \in Nat : DOMAIN data = 1 .. k
  BY DEF Inodes
<1>2. Cardinality(1 .. k) = k
  <2>1. Cardinality(1 .. k) = IF 1 > k THEN 0 ELSE k - 1 + 1
    BY FS_Interval
  <2> QED BY <2>1
<1>3. FreshIno = k + 1
  BY <1>1, <1>2 DEF FreshIno
<1>4. DOMAIN data \cup {k + 1} = 1 .. (k + 1)
  BY <1>1
<1> QED BY <1>1, <1>3, <1>4

\* The files of Base: what TypeOK says of them and the rest.
Files == Inodes /\ Injective /\ \A n \in DOMAIN names : names[n] \in DOMAIN data

LEMMA BaseFiles == Base => Files
BY DEF Base, Files, TypeOK

LEMMA CreatesFile ==
  ASSUME Files, NEW name, NEW content, Creates(name, content)
  PROVE  /\ DOMAIN names' = DOMAIN names \cup {name}
         /\ \A n \in DOMAIN names : names'[n] = names[n]
         /\ name \in DOMAIN names \/ names'[name] \notin DOMAIN data
         /\ data'[names'[name]] = content
         /\ DOMAIN data \subseteq DOMAIN data'
         /\ \A i \in DOMAIN data : i # names'[name] => data'[i] = data[i]
         /\ Files'
<1> DEFINE ino == IF name \in DOMAIN names THEN names[name] ELSE FreshIno
<1>1. /\ names' = [n \in DOMAIN names \cup {name} |-> IF n = name THEN ino ELSE names[n]]
      /\ data' = [i \in DOMAIN data \cup {ino} |-> IF i = ino THEN content ELSE data[i]]
  BY DEF Creates
<1>2. /\ name \in DOMAIN names => ino = names[name] /\ ino \in DOMAIN data
      /\ name \notin DOMAIN names => ino = FreshIno
  BY DEF Files
<1> HIDE DEF ino
<1>3. /\ DOMAIN names' = DOMAIN names \cup {name} /\ names'[name] = ino
      /\ \A n \in DOMAIN names : names'[n] = names[n]
      /\ DOMAIN data' = DOMAIN data \cup {ino} /\ data'[ino] = content
      /\ \A i \in DOMAIN data : i # ino => data'[i] = data[i]
  BY <1>1, <1>2
<1>4. FreshIno \notin DOMAIN data /\ \E k \in Nat : DOMAIN data \cup {FreshIno} = 1 .. k
  BY FreshInode DEF Files
<1>5. Inodes'
  <2>1. CASE name \in DOMAIN names
    <3>1. DOMAIN data' = DOMAIN data
      BY <1>2, <1>3, <2>1
    <3> QED BY <3>1 DEF Files, Inodes
  <2>2. CASE name \notin DOMAIN names
    BY <1>2, <1>3, <1>4, <2>2 DEF Inodes
  <2> QED BY <2>1, <2>2
<1>6. Injective'
  BY <1>2, <1>3, <1>4 DEF Files, Injective
<1>7. \A n \in DOMAIN names' : names'[n] \in DOMAIN data'
  BY <1>3 DEF Files
<1> QED BY <1>2, <1>3, <1>4, <1>5, <1>6, <1>7 DEF Files

LEMMA CreatesOwn ==
  ASSUME Base, NEW p \in Requests, NEW name \in Own(p), NEW content, Creates(name, content)
  PROVE  Files' /\ FilesOf(p)
<1>1. /\ DOMAIN names' = DOMAIN names \cup {name}
      /\ \A n \in DOMAIN names : names'[n] = names[n]
      /\ name \in DOMAIN names \/ names'[name] \notin DOMAIN data
      /\ DOMAIN data \subseteq DOMAIN data'
      /\ \A i \in DOMAIN data : i # names'[name] => data'[i] = data[i]
      /\ Files'
  BY BaseFiles, CreatesFile
<1>2. \A n \in Own(p) \cap DOMAIN names : Writes(p, names[n])
  BY InodesNotZero DEF Base, TypeOK, Writes
<1>3. \A n \in Own(p) \cap DOMAIN names' : Writes(p, names'[n]) \/ names'[n] \notin DOMAIN data
  BY <1>1, <1>2
<1>4. \A i \in DOMAIN data : ~Writes(p, i) => data'[i] = data[i]
  BY <1>1, <1>3
<1> QED BY <1>1, <1>3, <1>4 DEF FilesOf

\* What the steps that write files do besides.
Writing(p) ==
  /\ UNCHANGED <<size, stem, dir, out, up, sent>>
  /\ \A q \in Requests \ {p} : /\ at'[q] = at[q] /\ in'[q] = in[q]
                               /\ source'[q] = source[q] /\ unlink'[q] = unlink[q]
                               /\ cut'[q] = cut[q] /\ unkept'[q] = unkept[q]
  /\ cut' \in [Requests -> BOOLEAN] /\ unkept' \in [Requests -> BOOLEAN]
  /\ at' \in [Requests -> Places] /\ in' \in [Requests -> [ino : Nat, pos : Nat]]
  /\ unlink' \in [Requests -> BOOLEAN] /\ DOMAIN source' = Requests
  /\ source'[p] \in Own(p) \cup {InMemory}
  /\ \/ in'[p].ino = in[p].ino
     \/ Temp(p) \in DOMAIN names' /\ in'[p].ino = names'[Temp(p)]

LEMMA WritingStep ==
  ASSUME Base, NEW p \in Requests, Writing(p), Files', FilesOf(p)
  PROVE  Base' /\ StepOf(p)
<1>1. DOMAIN data \subseteq DOMAIN data'
  BY DEF FilesOf
<1>2. Inside(in)' /\ Inside(out)'
  <2>1. \A r \in Requests : in'[r].ino \in DOMAIN data' \cup {0}
    BY <1>1 DEF Base, TypeOK, Inside, Writing, Files
  <2> QED BY <1>1, <2>1 DEF Base, TypeOK, Inside, Writing
<1>3. \A r \in Requests : source'[r] \in {InMemory, Temp(r)', Raw(r)'}
  <2>1. \A r \in Requests : source'[r] \in {InMemory, Temp(r), Raw(r)}
    BY DEF Base, TypeOK, Writing, Own
  <2> QED BY <2>1, SamePaths DEF Writing
<1>4. InMemory \notin DOMAIN names'
  BY BaseTypes, OwnNames DEF FilesOf, Base
<1>5. TypeOK'
  BY <1>1, <1>2, <1>3 DEF Base, TypeOK, Writing, Files
<1>6. Base'
  BY <1>4, <1>5 DEF Base, Files
<1>7. StepOf(p)
  BY DEF StepOf, Writing, Same
<1> QED BY <1>6, <1>7

LEMMA WritingKeeps ==
  ASSUME Inv, NEW p \in Requests, Writing(p), Files', FilesOf(p), Phases(p)', RawOf(p)',
         Private(p) => Content(p)',
         Temp(p) \in DOMAIN names' => Keeps(p)' \/ (Temp(p) \in DOMAIN names /\ ~Keeps(p))
  PROVE  Inv'
<1>1. Base' /\ StepOf(p)
  BY WritingStep DEF Inv
<1> QED BY <1>1, FrameKeeps DEF OwnPart

LEMMA SpillKeeps ==
  ASSUME Inv, NEW p \in Requests, Spill(p)
  PROVE  Inv'
<1>1. Base /\ TypeOK /\ Phases(p) /\ (Private(p) => Content(p)) /\ size[p] \in Nat
  BY SizesAreNumbers DEF Inv, Base, InPhase, Contents
<1>2. /\ UNCHANGED <<size, stem, dir, out, source, unlink, up, sent, cut, unkept>>
      /\ OverLimit(p) /\ at[p] = "reading" /\ at' = [at EXCEPT ![p] = "spilling"]
      /\ Creates(Temp(p), << >>)
      /\ in' = [in EXCEPT ![p] = [ino |-> names'[Temp(p)], pos |-> 0]]
  BY DEF plans, Spill, Goes
<1>3. Temp(p) \in Own(p)
  BY DEF Own
<1>4. Files' /\ FilesOf(p)
  BY <1>1, <1>2, <1>3, CreatesOwn
<1>5. Temp(p) \in DOMAIN names' /\ data'[names'[Temp(p)]] = << >>
  <2>1. Files
    BY <1>1, BaseFiles
  <2>2. PICK name : name = Temp(p)
    OBVIOUS
  <2>3. Creates(name, << >>)
    BY <1>2, <2>2 DEF Creates
  <2>4. name \in DOMAIN names' /\ data'[names'[name]] = << >>
    BY <2>1, <2>3, CreatesFile
  <2> QED BY <2>2, <2>4
<1>6. names'[Temp(p)] \in Nat \ {0}
  BY <1>4, <1>5 DEF Files, Inodes
<1>7. /\ in' \in [Requests -> [ino : Nat, pos : Nat]] /\ in'[p].ino = names'[Temp(p)]
      /\ in'[p].pos = 0
      /\ at'[p] = "spilling" /\ at' \in [Requests -> Places]
  <2>1. [ino |-> names'[Temp(p)], pos |-> 0] \in [ino : Nat, pos : Nat]
    BY <1>6
  <2> QED BY <1>1, <1>2, <2>1 DEF TypeOK, Places
<1>8. Writing(p)
  <2>1. \A q \in Requests \ {p} : in'[q] = in[q] /\ at'[q] = at[q]
    BY <1>1, <1>2 DEF TypeOK
  <2>2. source'[p] \in Own(p) \cup {InMemory} /\ DOMAIN source' = Requests
    BY <1>1, <1>2 DEF TypeOK, Own
  <2>3. unlink' \in [Requests -> BOOLEAN] /\ cut' \in [Requests -> BOOLEAN]
        /\ unkept' \in [Requests -> BOOLEAN]
    BY <1>1, <1>2 DEF TypeOK
  <2> QED BY <1>2, <1>5, <1>7, <2>1, <2>2, <2>3 DEF Writing
<1>9. /\ Temp(p)' = Temp(p) /\ OverLimit(p)' /\ \A n : Beginning(p, n)' = Beginning(p, n)
      /\ Missing(p)' = 0 /\ Rest(p)' = Rest(p)
  BY <1>1, <1>2, SamePaths DEF OverLimit, Beginning, Block, Phases, Missing, Rest
<1>10. Phases(p)'
  BY <1>1, <1>2, <1>6, <1>7, <1>9 DEF Phases, Reads, Uploading
<1>11. RawOf(p)' /\ Keeps(p)'
  BY <1>7, <1>9 DEF RawOf, Keeps
<1>12. ASSUME Private(p)
       PROVE  Content(p)'
  <2>1. << >> = Beginning(p, 0)
    BY DEF Beginning
  <2>2. Spilling(p)'
    <3>1. 0 \in 0 .. size[p] /\ 0 - 0 = 0
      BY <1>1
    <3> QED BY <1>2, <1>5, <1>7, <1>9, <2>1, <3>1 DEF Spilling
  <2>3. Moving(p)' /\ Forwards(p)'
    BY <1>7 DEF Moving, Forwards, Reads
  <2>4. Sending(p)' /\ Got(p)'
    <3>1. up[p] = "unpolled" /\ Got(p)
      BY <1>1, <1>2, <1>12 DEF Phases, Content, Reads
    <3> QED BY <1>2, <1>9, <3>1 DEF Sending, Got
  <2> QED BY <2>2, <2>3, <2>4 DEF Content
<1> QED BY <1>4, <1>8, <1>10, <1>11, <1>12, WritingKeeps

LEMMA SpillBlockKeeps ==
  ASSUME Inv, NEW p \in Requests, SpillBlock(p)
  PROVE  Inv'
<1>1. Base /\ TypeOK /\ Phases(p) /\ (Private(p) => Content(p)) /\ size[p] \in Nat
  BY SizesAreNumbers DEF Inv, Base, InPhase, Contents
<1> DEFINE ino == in[p].ino
           pos == in[p].pos
           content == IF cut'[p] THEN data[ino]
                                 ELSE Overwritten(data[ino], pos, Block(p, pos + 1))
<1>2. /\ UNCHANGED <<size, stem, dir, at, names, out, source, unlink, up, sent, unkept>>
      /\ at[p] = "spilling" /\ pos < size[p] /\ OverLimit(p) /\ up[p] = "unpolled"
      /\ ~cut[p]
      /\ \/ /\ data' = [data EXCEPT ![ino] = Overwritten(@, pos, Block(p, pos + 1))]
            /\ cut' = cut
         \/ data' = data /\ cut' = [cut EXCEPT ![p] = TRUE]
      /\ in' = [in EXCEPT ![p] = [ino |-> ino, pos |-> pos + 1]]
  BY <1>1 DEF plans, SpillBlock, Phases, Reads
<1>3. ino \in DOMAIN data /\ ino # 0 /\ ino \in Nat /\ pos \in Nat
  BY <1>1, <1>2 DEF Phases, TypeOK, Inside
<1>4. /\ DOMAIN data' = DOMAIN data /\ data'[ino] = content
      /\ \A i \in DOMAIN data : i # ino => data'[i] = data[i]
      /\ cut' \in [Requests -> BOOLEAN] /\ \A q \in Requests \ {p} : cut'[q] = cut[q]
  <2>1. CASE data' = [data EXCEPT ![ino] = Overwritten(@, pos, Block(p, pos + 1))]
             /\ cut' = cut
    <3>1. ~cut'[p] /\ cut' \in [Requests -> BOOLEAN]
      BY <1>1, <1>2, <2>1 DEF TypeOK
    <3> QED BY <1>3, <2>1, <3>1
  <2>2. CASE data' = data /\ cut' = [cut EXCEPT ![p] = TRUE]
    <3>1. cut'[p] /\ cut' \in [Requests -> BOOLEAN]
      BY <1>1, <2>2 DEF TypeOK
    <3> QED BY <2>2, <3>1
  <2> QED BY <1>2, <2>1, <2>2
<1> HIDE DEF content
<1>5. /\ in' \in [Requests -> [ino : Nat, pos : Nat]]
      /\ in'[p].ino = ino /\ in'[p].pos = pos + 1
      /\ \A q \in Requests \ {p} : in'[q] = in[q]
  <2>1. [ino |-> ino, pos |-> pos + 1] \in [ino : Nat, pos : Nat]
    BY <1>3
  <2> QED BY <1>1, <1>2, <2>1 DEF TypeOK
<1>6. Files'
  BY <1>1, <1>2, <1>4 DEF Base, TypeOK, Files, Inodes, Injective
<1>7. FilesOf(p)
  <2>1. \A n \in Own(p) \cap DOMAIN names' : Writes(p, names'[n])
    BY <1>1, <1>2, InodesNotZero DEF Base, TypeOK, Writes
  <2>2. Writes(p, ino)
    BY <1>3 DEF Writes
  <2> QED BY <1>2, <1>4, <2>1, <2>2 DEF FilesOf
<1>8. Writing(p)
  BY <1>1, <1>2, <1>4, <1>5 DEF Writing, TypeOK, Own
<1>9. /\ Temp(p)' = Temp(p) /\ OverLimit(p)' /\ (Keeps(p) => Keeps(p)')
      /\ \A n : Beginning(p, n)' = Beginning(p, n)
  BY <1>2, SamePaths DEF OverLimit, Beginning, Block, Keeps
<1>10. Phases(p)'
  BY <1>1, <1>2, <1>3, <1>5, <1>9 DEF Phases, Reads, Uploading
<1>11. RawOf(p)'
  BY <1>9 DEF RawOf
<1>12. ASSUME Private(p)
       PROVE  Content(p)'
  <2>1. data[ino] = Beginning(p, pos) /\ (Temp(p) \in DOMAIN names => names[Temp(p)] = ino)
    <3>1. Missing(p) = 0 /\ pos - 0 = pos
      BY <1>2, <1>3 DEF Missing
    <3> QED BY <1>1, <1>2, <1>12, <3>1 DEF Content, Spilling
  <2>2. Missing(p)' \in {0, 1} /\ content = Beginning(p, pos + 1 - Missing(p)')
    <3>1. CASE cut'[p]
      <4>1. Missing(p)' = 1 /\ pos + 1 - 1 = pos
        BY <1>3, <3>1 DEF Missing
      <4> QED BY <2>1, <3>1, <4>1 DEF content
    <3>2. CASE ~cut'[p]
      <4>1. Missing(p)' = 0 /\ pos + 1 - 0 = pos + 1
        BY <1>3, <3>2 DEF Missing
      <4> QED BY <1>3, <2>1, <3>2, <4>1, BeginningGrows DEF content
    <3> QED BY <3>1, <3>2
  <2>3. pos + 1 \in Missing(p)' .. size[p]
    BY <1>1, <1>2, <1>3, <2>2
  <2>4. Spilling(p)'
    <3>1. /\ in'[p].pos \in Missing(p)' .. size[p]
          /\ data'[in'[p].ino] = Beginning(p, in'[p].pos - Missing(p)')
      <4> DEFINE next == in'[p].pos
      <4>1. next = pos + 1 /\ in'[p].ino = ino
        BY <1>5
      <4> HIDE DEF next
      <4>2. next \in Missing(p)' .. size[p] /\ content = Beginning(p, next - Missing(p)')
        BY <1>1, <1>3, <2>2, <2>3, <4>1
      <4> QED BY <1>4, <4>1, <4>2 DEF next
    <3>2. Temp(p) \in DOMAIN names' => names'[Temp(p)] = in'[p].ino
      BY <1>2, <1>5, <2>1
    <3>3. size' = size
      BY <1>2
    <3> QED BY <1>9, <3>1, <3>2, <3>3 DEF Spilling
  <2>5. Moving(p)' /\ Forwards(p)' /\ Sending(p)'
    <3>1. at'[p] = "spilling" /\ up'[p] = "unpolled"
      BY <1>2
    <3> QED BY <3>1 DEF Moving, Forwards, Sending, Reads
  <2>6. Got(p)'
    <3>1. sent[p] = Beginning(p, 0)
      BY <1>1, <1>2, <1>12 DEF Content, Got
    <3> QED BY <1>1, <1>2, <1>9, <3>1 DEF Got
  <2> QED BY <2>4, <2>5, <2>6 DEF Content
<1>13. Temp(p) \in DOMAIN names' => Temp(p) \in DOMAIN names
  BY <1>2
<1> QED BY <1>6, <1>7, <1>8, <1>9, <1>10, <1>11, <1>12, <1>13, WritingKeeps

\* Either way of moving a file gives it its other name.
LEMMA MovedFile ==
  ASSUME Base, NEW p \in Requests, Temp(p) \in DOMAIN names, Renames(p) \/ Copies(p)
  PROVE  /\ Files' /\ FilesOf(p)
         /\ Temp(p) \notin DOMAIN names' /\ Raw(p) \in DOMAIN names'
         /\ data'[names'[Raw(p)]] = data[names[Temp(p)]]
<1>1. Temp(p) # Raw(p) /\ Temp(p) \in Own(p) /\ Raw(p) \in Own(p)
  BY BaseTypes, OwnNames DEF Own
<1>2. names[Temp(p)] \in DOMAIN data /\ names[Temp(p)] # 0
  BY InodesNotZero DEF Base, TypeOK
<1>3. \A n \in Own(p) \cap DOMAIN names : Writes(p, names[n])
  BY InodesNotZero DEF Base, TypeOK, Writes
<1>4. CASE Renames(p)
  <2>1. /\ DOMAIN names' = (DOMAIN names \ {Temp(p)}) \cup {Raw(p)}
        /\ names'[Raw(p)] = names[Temp(p)] /\ data' = data
        /\ \A n \in DOMAIN names' : n # Raw(p) => names'[n] = names[n]
    BY <1>4 DEF Renames, Renamed
  <2>2. Injective'
    BY <1>1, <2>1 DEF Base, Injective
  <2>3. Files'
    BY <1>2, <2>1, <2>2 DEF Base, TypeOK, Files, Inodes
  <2>4. FilesOf(p)
    <3>1. \A n \in Own(p) \cap DOMAIN names' : Writes(p, names'[n])
      BY <1>1, <1>3, <2>1
    <3> QED BY <1>1, <2>1, <3>1 DEF FilesOf
  <2> QED BY <1>1, <2>1, <2>3, <2>4
<1>5. CASE Copies(p)
  <2>1. FreshIno \notin DOMAIN data /\ \E k \in Nat : DOMAIN data \cup {FreshIno} = 1 .. k
    BY FreshInode DEF Base
  <2>2. /\ DOMAIN names' = (DOMAIN names \ {Temp(p)}) \cup {Raw(p)}
        /\ names'[Raw(p)] = FreshIno
        /\ \A n \in DOMAIN names' : n # Raw(p) => names'[n] = names[n]
        /\ DOMAIN data' = DOMAIN data \cup {FreshIno}
        /\ data'[FreshIno] = data[names[Temp(p)]]
        /\ \A i \in DOMAIN data : data'[i] = data[i]
    <3>1. /\ names' = [n \in (DOMAIN names \ {Temp(p)}) \cup {Raw(p)} |->
                        IF n = Raw(p) THEN FreshIno ELSE names[n]]
          /\ data' = [i \in DOMAIN data \cup {FreshIno} |->
                        IF i = FreshIno THEN data[names[Temp(p)]] ELSE data[i]]
      BY <1>5 DEF Copies
    <3> QED BY <2>1, <3>1
  <2>3. \A n \in DOMAIN names : names[n] \in DOMAIN data
    BY DEF Base, TypeOK
  <2>4. Injective'
    BY <2>1, <2>2, <2>3 DEF Base, Injective
  <2>5. Files'
    BY <2>1, <2>2, <2>3, <2>4 DEF Files, Inodes
  <2>6. FilesOf(p)
    <3>1. \A n \in Own(p) \cap DOMAIN names' :
            Writes(p, names'[n]) \/ names'[n] \notin DOMAIN data
      BY <1>3, <2>1, <2>2
    <3> QED BY <1>1, <2>2, <3>1 DEF FilesOf
  <2> QED BY <1>1, <2>2, <2>5, <2>6
<1> QED BY <1>4, <1>5

LEMMA MoveKeeps ==
  ASSUME Inv, NEW p \in Requests, Move(p)
  PROVE  Inv'
<1>1. Base /\ TypeOK /\ Phases(p) /\ (Private(p) => Content(p)) /\ size[p] \in Nat
  BY SizesAreNumbers DEF Inv, Base, InPhase, Contents
<1>2. /\ UNCHANGED <<size, stem, dir, in, out, unlink, up, sent, cut, unkept>>
      /\ at[p] = "moving" /\ at'[p] = "writing" /\ at' = [at EXCEPT ![p] = "writing"]
      /\ OverLimit(p) /\ up[p] = "unpolled"
      /\ source' = [source EXCEPT ![p] = Raw(p)] /\ source'[p] = Raw(p)
      /\ Temp(p) \in DOMAIN names /\ (Renames(p) \/ Copies(p))
  BY <1>1 DEF plans, Move, Goes, Phases, Reads, TypeOK
<1>3. /\ Files' /\ FilesOf(p)
      /\ Temp(p) \notin DOMAIN names' /\ Raw(p) \in DOMAIN names'
      /\ data'[names'[Raw(p)]] = data[names[Temp(p)]]
  BY <1>1, <1>2, MovedFile
<1>4. Writing(p)
  BY <1>1, <1>2 DEF Writing, TypeOK, Own, Places
<1>5. /\ Temp(p)' = Temp(p) /\ Raw(p)' = Raw(p) /\ Temp(p) # Raw(p) /\ OverLimit(p)'
      /\ Rest(p)' = Rest(p) /\ Rest(p) \in 0 .. size[p]
      /\ \A n : Beginning(p, n)' = Beginning(p, n)
  BY <1>1, <1>2, SamePaths, OwnNames, RestInBody DEF OverLimit, Beginning, Block, Rest, Missing
<1>6. Phases(p)'
  BY <1>1, <1>2, <1>5 DEF Phases, Reads, Uploading
<1>7. RawOf(p)'
  BY <1>5 DEF RawOf
<1>8. ASSUME Private(p)
      PROVE  Content(p)'
  <2>1. data'[names'[Raw(p)]] = Beginning(p, Rest(p))
    BY <1>1, <1>2, <1>3, <1>8 DEF Content, Moving
  <2>2. Forwards(p)'
    <3>1. names'[Raw(p)] \in DOMAIN data'
      BY <1>3 DEF Files
    <3> QED BY <1>1, <1>2, <1>5, <2>1, <3>1 DEF Forwards, Good
  <2>3. Spilling(p)' /\ Moving(p)' /\ Sending(p)'
    BY <1>2 DEF Spilling, Moving, Sending
  <2>4. Got(p)'
    BY <1>1, <1>2, <1>5, <1>8 DEF Content, Got
  <2> QED BY <2>2, <2>3, <2>4 DEF Content
<1> QED BY <1>3, <1>4, <1>6, <1>7, <1>8, WritingKeeps

\* Writing the raw artifact of p, or nothing, leaves its spill file alone.
WritesRaw(p) ==
  UNCHANGED <<names, data>> \/ \E content : Creates(Raw(p), content)

LEMMA RawWritten ==
  ASSUME Base, NEW p \in Requests, WritesRaw(p)
  PROVE  /\ Files' /\ FilesOf(p)
         /\ Temp(p) \in DOMAIN names' <=> Temp(p) \in DOMAIN names
         /\ Temp(p) \in DOMAIN names =>
              /\ names'[Temp(p)] = names[Temp(p)]
              /\ data'[names[Temp(p)]] = data[names[Temp(p)]]
<1>1. Temp(p) # Raw(p) /\ Raw(p) \in Own(p)
  BY BaseTypes, OwnNames DEF Own
<1>2. CASE UNCHANGED <<names, data>>
  <2>1. Files'
    BY <1>2, BaseFiles DEF Files, Inodes, Injective
  <2>2. FilesOf(p)
    BY <1>2, InodesNotZero DEF FilesOf, Base, TypeOK, Writes
  <2> QED BY <1>2, <2>1, <2>2
<1>3. CASE \E content : Creates(Raw(p), content)
  <2>1. PICK name, content : name = Raw(p) /\ Creates(name, content)
    BY <1>3 DEF Creates
  <2>2. Files' /\ FilesOf(p)
    BY <1>1, <2>1, CreatesOwn
  <2>3. /\ DOMAIN names' = DOMAIN names \cup {name}
        /\ \A n \in DOMAIN names : names'[n] = names[n]
        /\ \A i \in DOMAIN data : i # names'[name] => data'[i] = data[i]
    BY <2>1, BaseFiles, CreatesFile
  <2>4. Temp(p) \in DOMAIN names => names[Temp(p)] \in DOMAIN data
                                      /\ names'[Temp(p)] # names'[name]
    BY <1>1, <2>1, <2>2, <2>3 DEF Files, Injective, Base, TypeOK
  <2> QED BY <1>1, <2>1, <2>2, <2>3, <2>4
<1> QED BY <1>2, <1>3 DEF WritesRaw

LEMMA KeepSpillKeeps ==
  ASSUME Inv, NEW p \in Requests, KeepSpill(p)
  PROVE  Inv'
<1>1. Base /\ TypeOK /\ Phases(p) /\ (Private(p) => Content(p)) /\ size[p] \in Nat
  BY SizesAreNumbers DEF Inv, Base, InPhase, Contents
<1>2. /\ UNCHANGED <<size, stem, dir, in, out, up, sent, cut, unkept>>
      /\ at[p] = "moving" /\ at'[p] = "writing" /\ at' = [at EXCEPT ![p] = "writing"]
      /\ OverLimit(p) /\ up[p] = "unpolled"
      /\ source' = [source EXCEPT ![p] = Temp(p)] /\ source'[p] = Temp(p)
      /\ unlink' = [unlink EXCEPT ![p] = TRUE] /\ unlink'[p]
      /\ CopiesPart(p) \/ UNCHANGED <<names, data>>
  BY <1>1 DEF plans, KeepSpill, Goes, Phases, Reads, TypeOK
<1>3. WritesRaw(p)
  BY <1>2 DEF CopiesPart, WritesRaw
<1>4. /\ Files' /\ FilesOf(p)
      /\ Temp(p) \in DOMAIN names' <=> Temp(p) \in DOMAIN names
      /\ Temp(p) \in DOMAIN names =>
           /\ names'[Temp(p)] = names[Temp(p)]
           /\ data'[names[Temp(p)]] = data[names[Temp(p)]]
  BY <1>1, <1>3, RawWritten
<1>5. Writing(p)
  BY <1>1, <1>2 DEF Writing, TypeOK, Own, Places
<1>6. /\ Temp(p)' = Temp(p) /\ Raw(p)' = Raw(p) /\ OverLimit(p)'
      /\ Rest(p)' = Rest(p) /\ Rest(p) \in 0 .. size[p]
      /\ \A n : Beginning(p, n)' = Beginning(p, n)
  BY <1>1, <1>2, SamePaths, RestInBody DEF OverLimit, Beginning, Block, Rest, Missing
<1>7. Phases(p)'
  BY <1>1, <1>2, <1>6 DEF Phases, Reads, Uploading
<1>8. RawOf(p)' /\ Keeps(p)'
  BY <1>2, <1>6 DEF RawOf, Keeps
<1>9. ASSUME Private(p)
      PROVE  Content(p)'
  <2>1. Temp(p) \in DOMAIN names => data'[names'[Temp(p)]] = Beginning(p, Rest(p))
    BY <1>1, <1>2, <1>4, <1>9 DEF Content, Moving
  <2>2. Forwards(p)'
    <3>1. Temp(p) \in DOMAIN names' => names'[Temp(p)] \in DOMAIN data'
      BY <1>4 DEF Files
    <3> QED BY <1>1, <1>2, <1>4, <1>6, <2>1, <3>1 DEF Forwards, Good
  <2>3. Spilling(p)' /\ Moving(p)' /\ Sending(p)'
    BY <1>2 DEF Spilling, Moving, Sending
  <2>4. Got(p)'
    BY <1>1, <1>2, <1>6, <1>9 DEF Content, Got
  <2> QED BY <2>2, <2>3, <2>4 DEF Content
<1> QED BY <1>4, <1>5, <1>7, <1>8, <1>9, WritingKeeps

LEMMA WriteArtifactsKeeps ==
  ASSUME Inv, NEW p \in Requests, WriteArtifacts(p)
  PROVE  Inv'
<1>1. Base /\ TypeOK /\ Phases(p) /\ RawOf(p) /\ (Private(p) => Content(p)) /\ size[p] \in Nat
  BY SizesAreNumbers DEF Inv, Base, InPhase, Raws, Contents
<1>2. /\ UNCHANGED <<size, stem, dir, in, out, source, unlink, up, sent, cut>>
      /\ at[p] = "writing" /\ at'[p] = "forwarding" /\ at' = [at EXCEPT ![p] = "forwarding"]
      /\ up[p] = "unpolled"
  BY <1>1 DEF plans, WriteArtifacts, Goes, Phases, TypeOK
<1>3. PICK n \in 0 .. size[p] :
        /\ IF RecordRaw /\ p \in Compressed /\ ~unlink[p] /\ n \in 1 .. RawCap - 1
             THEN Artifact(p, Beginning(p, n)) ELSE UNCHANGED <<names, data, unkept>>
        /\ ~OverLimit(p) => n = size[p]
  <2>1. PICK bytes \in Buffered(p) :
          IF RecordRaw /\ p \in Compressed /\ ~unlink[p] /\ Len(bytes) \in 1 .. RawCap - 1
            THEN Artifact(p, bytes) ELSE UNCHANGED <<names, data, unkept>>
    BY DEF plans, WriteArtifacts
  <2>2. PICK n \in 0 .. size[p] :
          bytes = Beginning(p, n) /\ (~OverLimit(p) => n = size[p])
    <3>1. CASE ~OverLimit(p)
      BY <1>1, <3>1, BeginningOfBody DEF Buffered
    <3>2. CASE OverLimit(p)
      <4>1. PICK h \in 0 .. Lesser(Limit, HeadKeep) : bytes = First(BodyOf(p), h)
        BY <3>2 DEF Buffered
      <4>2. h \in 0 .. size[p]
        BY <1>1, <3>2 DEF OverLimit, Lesser, ExchangeAssumption
      <4> QED BY <1>1, <3>2, <4>1, <4>2, BeginningOfBody
    <3> QED BY <3>1, <3>2
  <2>3. Len(bytes) = n
    BY <1>1, <2>2, BeginningLength
  <2> QED BY <2>1, <2>2, <2>3
<1>4. \/ UNCHANGED <<names, data>>
      \/ /\ RecordRaw /\ p \in Compressed /\ ~unlink[p] /\ n \in 1 .. RawCap - 1
         /\ \E m \in 0 .. n : Creates(Raw(p), Beginning(p, m)) /\ (m = n \/ unkept'[p])
  <2>1. CASE ~(RecordRaw /\ p \in Compressed /\ ~unlink[p] /\ n \in 1 .. RawCap - 1)
    BY <1>3, <2>1
  <2>2. CASE Creates(Raw(p), Beginning(p, n))
             /\ RecordRaw /\ p \in Compressed /\ ~unlink[p] /\ n \in 1 .. RawCap - 1
    BY <2>2
  <2>3. CASE \E m \in 0 .. Len(Beginning(p, n)) - 1 :
               Creates(Raw(p), First(Beginning(p, n), m))
             /\ unkept' = [unkept EXCEPT ![p] = TRUE]
             /\ RecordRaw /\ p \in Compressed /\ ~unlink[p] /\ n \in 1 .. RawCap - 1
    <3>1. PICK m \in 0 .. Len(Beginning(p, n)) - 1 :
            Creates(Raw(p), First(Beginning(p, n), m))
      BY <2>3
    <3>2. m \in 0 .. n /\ First(Beginning(p, n), m) = Beginning(p, m)
      BY <1>1, <3>1, BeginningLength, BeginningOfBeginning
    <3>3. unkept'[p]
      BY <1>1, <2>3 DEF TypeOK
    <3> QED BY <2>3, <3>1, <3>2, <3>3
  <2>4. CASE UNCHANGED <<names, data>>
    BY <2>4
  <2> QED BY <1>3, <2>1, <2>2, <2>3, <2>4 DEF Artifact
<1>41. WritesRaw(p)
  BY <1>4 DEF WritesRaw
<1>42. /\ unkept' \in [Requests -> BOOLEAN]
       /\ \A q \in Requests \ {p} : unkept'[q] = unkept[q]
  BY <1>1, <1>3 DEF TypeOK, Artifact
<1>5. /\ Files' /\ FilesOf(p)
      /\ Temp(p) \in DOMAIN names' <=> Temp(p) \in DOMAIN names
      /\ Temp(p) \in DOMAIN names =>
           /\ names'[Temp(p)] = names[Temp(p)]
           /\ data'[names[Temp(p)]] = data[names[Temp(p)]]
  BY <1>1, <1>41, RawWritten
<1>6. Writing(p)
  BY <1>1, <1>2, <1>42 DEF Writing, TypeOK, Own, Places
<1>7. /\ Temp(p)' = Temp(p) /\ Raw(p)' = Raw(p) /\ (OverLimit(p)' <=> OverLimit(p))
      /\ BodyOf(p)' = BodyOf(p)
      /\ Rest(p)' = Rest(p)
      /\ \A m : Beginning(p, m)' = Beginning(p, m)
  BY <1>2, SamePaths DEF OverLimit, BodyOf, Beginning, Block, Rest, Missing
<1>8. Phases(p)'
  BY <1>1, <1>2, <1>7 DEF Phases, Reads, Uploading
<1>9. Keeps(p) => Keeps(p)'
  BY <1>2, <1>7 DEF Keeps
<1>10. ASSUME ~(names' = names /\ data' = data)
       PROVE  /\ RecordRaw /\ p \in Compressed /\ ~unlink[p] /\ n \in 1 .. RawCap - 1
              /\ Raw(p) \in DOMAIN names' /\ names'[Raw(p)] # 0
              /\ \E m \in 0 .. n :
                   data'[names'[Raw(p)]] = Beginning(p, m) /\ (m = n \/ unkept'[p])
              /\ \/ Raw(p) \in DOMAIN names /\ names'[Raw(p)] = names[Raw(p)]
                 \/ names'[Raw(p)] \notin DOMAIN data
  <2>1. PICK m \in 0 .. n : Creates(Raw(p), Beginning(p, m)) /\ (m = n \/ unkept'[p])
    BY <1>4, <1>10
  <2>2. PICK name, content : name = Raw(p) /\ content = Beginning(p, m)
                               /\ Creates(name, content)
    BY <2>1 DEF Creates
  <2>3. /\ DOMAIN names' = DOMAIN names \cup {name}
        /\ \A k \in DOMAIN names : names'[k] = names[k]
        /\ name \in DOMAIN names \/ names'[name] \notin DOMAIN data
        /\ data'[names'[name]] = content
    BY <1>1, <2>2, BaseFiles, CreatesFile
  <2>4. names'[name] # 0
    BY <1>5, <2>3 DEF Files, Inodes
  <2> QED BY <1>4, <1>10, <2>1, <2>2, <2>3, <2>4
<1>11. RawOf(p)'
  <2> SUFFICES ASSUME RecordRaw, p \in Compressed, ~OverLimit(p), Alone(p)
               PROVE  /\ Raw(p) \in DOMAIN names' =>
                           /\ \A q \in Requests : in[q].ino # names'[Raw(p)]
                           /\ Artful(p)
                           /\ \E m \in 0 .. size[p] : data'[names'[Raw(p)]] = Beginning(p, m)
                      /\ Artful(p) /\ ~unkept'[p] =>
                           Raw(p) \in DOMAIN names' /\ data'[names'[Raw(p)]] = BodyOf(p)
    BY <1>2, <1>7, SamePaths DEF RawOf, Artful
  <2>1. ~unlink[p] /\ n = size[p]
    BY <1>1, <1>3 DEF Phases
  <2>2. \A q \in Requests : in[q].ino \in DOMAIN data \cup {0}
    BY <1>1 DEF TypeOK, Inside
  <2>3. Raw(p) \in DOMAIN names =>
          /\ \A q \in Requests : in[q].ino # names[Raw(p)]
          /\ Artful(p)
          /\ \E m \in 0 .. size[p] : data[names[Raw(p)]] = Beginning(p, m)
    BY <1>1 DEF RawOf
  <2>4. Beginning(p, n) = BodyOf(p)
    BY <1>1, <2>1, BeginningOfBody
  <2>5. CASE UNCHANGED <<names, data>>
    <3>1. Artful(p) => Creates(Raw(p), BodyOf(p)) \/ unkept'[p]
      BY <1>1, <1>3, <2>1, <2>4 DEF Artful, Artifact, TypeOK
    <3>2. ASSUME Creates(Raw(p), BodyOf(p))
          PROVE  Raw(p) \in DOMAIN names' /\ data'[names'[Raw(p)]] = BodyOf(p)
      <4>1. PICK name, content : name = Raw(p) /\ content = BodyOf(p)
                                   /\ Creates(name, content)
        BY <3>2 DEF Creates
      <4>2. Files /\ Creates(name, content)
        BY <1>1, <4>1, BaseFiles
      <4>3. name \in DOMAIN names' /\ data'[names'[name]] = content
        BY <4>2, CreatesFile
      <4> QED BY <4>1, <4>3
    <3> QED BY <2>3, <2>5, <3>1, <3>2
  <2>6. CASE ~(names' = names /\ data' = data)
    <3>1. Artful(p) /\ Raw(p) \in DOMAIN names'
      BY <1>10, <2>1, <2>6 DEF Artful
    <3>2. \A q \in Requests : in[q].ino # names'[Raw(p)]
      BY <1>10, <2>2, <2>3, <2>6
    <3>3. PICK m \in 0 .. n : data'[names'[Raw(p)]] = Beginning(p, m) /\ (m = n \/ unkept'[p])
      BY <1>10, <2>6
    <3> QED BY <2>1, <2>4, <3>1, <3>2, <3>3
  <2> QED BY <2>5, <2>6
<1>12. ASSUME Private(p)
       PROVE  Content(p)'
  <2>1. Forwards(p)'
    <3> SUFFICES ASSUME source[p] \in DOMAIN names'
                 PROVE  /\ names'[source[p]] \in DOMAIN data'
                        /\ \E m \in 0 .. size[p] :
                             /\ data'[names'[source[p]]] = Beginning(p, m)
                             /\ source[p] = Temp(p) => m = Rest(p)
      BY <1>2, <1>7 DEF Forwards, Good
    <3>1. names'[source[p]] \in DOMAIN data'
      BY <1>5 DEF Files
    <3>2. source[p] \in {Temp(p), Raw(p)} /\ Temp(p) # Raw(p)
      BY <1>1, <1>5, OwnNames DEF Base, TypeOK, FilesOf
    <3>3. CASE UNCHANGED <<names, data>>
      BY <1>1, <1>2, <1>12, <3>3 DEF Content, Forwards, Good, Reads
    <3>4. CASE source[p] = Temp(p)
      <4>1. Temp(p) \in DOMAIN names /\ names'[Temp(p)] = names[Temp(p)]
            /\ data'[names[Temp(p)]] = data[names[Temp(p)]]
        BY <1>5, <3>4
      <4>2. PICK m \in 0 .. size[p] : data[names[Temp(p)]] = Beginning(p, m) /\ m = Rest(p)
        BY <1>1, <1>2, <1>12, <3>4, <4>1 DEF Content, Forwards, Good, Reads
      <4> QED BY <3>1, <3>4, <4>1, <4>2
    <3>5. CASE source[p] = Raw(p) /\ ~(names' = names /\ data' = data)
      <4>1. PICK m \in 0 .. n : data'[names'[Raw(p)]] = Beginning(p, m)
        BY <1>10, <3>5
      <4>2. m \in 0 .. size[p]
        BY <1>1
      <4> QED BY <3>1, <3>2, <3>5, <4>1, <4>2
    <3> QED BY <3>2, <3>3, <3>4, <3>5
  <2>2. Spilling(p)' /\ Moving(p)' /\ Sending(p)'
    BY <1>2 DEF Spilling, Moving, Sending
  <2>3. Got(p)'
    BY <1>1, <1>2, <1>7, <1>12 DEF Content, Got
  <2> QED BY <2>1, <2>2, <2>3 DEF Content
<1> QED BY <1>5, <1>6, <1>8, <1>9, <1>11, <1>12, WritingKeeps

-----------------------------------------------------------------------------
(* The theorems.                                                           *)

LEMMA InitInv == Init => Inv
<1> SUFFICES ASSUME Init
             PROVE  Inv
  OBVIOUS
<1>1. /\ DOMAIN names = {} /\ DOMAIN data = {}
      /\ \A r \in Requests : /\ at[r] = "reading" /\ up[r] = "unpolled" /\ ~unlink[r]
                             /\ source[r] = InMemory /\ sent[r] = << >>
                             /\ in[r] = Closed /\ out[r] = Closed
  BY DEF Init
<1>2. Closed \in [ino : Nat, pos : Nat] /\ Closed.ino = 0
  BY DEF Closed
<1>3. TypeOK
  BY <1>1, <1>2 DEF Init, TypeOK, Inside, Places, Uploads
<1>4. Base
  <2>1. DOMAIN data = 1 .. 0
    BY <1>1
  <2> QED BY <1>1, <1>3, <2>1 DEF Base, Inodes, Injective
<1>5. Apart /\ Spills
  BY <1>1 DEF Apart, Spills
<1>6. InPhase
  <2>1. \A r \in Requests : ~cut[r]
    BY DEF Init
  <2> QED BY <1>1, <2>1 DEF InPhase, Phases, Reads
<1>7. Contents
  <2> SUFFICES ASSUME NEW r \in Requests
               PROVE  Content(r)
    BY DEF Contents
  <2>1. << >> = Beginning(r, 0)
    BY DEF Beginning
  <2>2. size[r] \in Nat
    BY <1>3, SizesAreNumbers
  <2>3. Got(r)
    BY <1>1, <2>1, <2>2 DEF Got
  <2> QED BY <1>1, <2>3 DEF Content, Spilling, Moving, Forwards, Sending, Reads
<1>8. Raws
  BY <1>1 DEF Raws, RawOf, Uploading
<1> QED BY <1>4, <1>5, <1>6, <1>7, <1>8 DEF Inv

LEMMA StutterKeeps ==
  ASSUME Inv, UNCHANGED vars
  PROVE  Inv'
<1>1. /\ \A r : Temp(r)' = Temp(r) /\ Raw(r)' = Raw(r) /\ Own(r)' = Own(r)
      /\ \A r : BodyOf(r)' = BodyOf(r) /\ (OverLimit(r)' <=> OverLimit(r))
      /\ \A r, n : Beginning(r, n)' = Beginning(r, n)
      /\ \A r : (Private(r)' <=> Private(r)) /\ (Alone(r)' <=> Alone(r))
      /\ \A r : Missing(r)' = Missing(r) /\ Rest(r)' = Rest(r)
  BY SamePaths DEF plans, vars, BodyOf, OverLimit, Beginning, Block, Missing, Rest
<1>2. Base'
  BY <1>1 DEF plans, vars, Inv, Base, TypeOK, Inside, Inodes, Injective
<1>3. Apart'
  BY <1>1 DEF plans, vars, Inv, Apart, Mine, Writes
<1>4. InPhase'
  BY <1>1 DEF plans, vars, Inv, InPhase, Phases, Uploading
<1>5. Contents'
  <2>1. \A r \in Requests : Content(r) => Content(r)'
    BY <1>1 DEF plans, vars, Content, Spilling, Moving, Forwards, Sending, Got, Good
  <2> QED BY <1>1, <2>1 DEF Inv, Contents
<1>6. Spills' /\ Raws'
  BY <1>1 DEF plans, vars, Inv, Spills, Keeps, Raws, RawOf, Artful, Uploading
<1> QED BY <1>2, <1>3, <1>4, <1>5, <1>6 DEF Inv

LEMMA StepKeeps == Inv /\ [Next]_vars => Inv'
<1> SUFFICES ASSUME Inv, [Next]_vars
             PROVE  Inv'
  OBVIOUS
<1>1. CASE UNCHANGED vars
  BY <1>1, StutterKeeps
<1>2. CASE Next
  <2> PICK p \in Requests :
        \/ ReadInMemory(p) \/ Spill(p) \/ SpillBlock(p) \/ Spilled(p) \/ Refuse(p)
        \/ Move(p) \/ KeepSpill(p) \/ WriteArtifacts(p)
        \/ OpenBody(p) \/ SendBlock(p) \/ SentAll(p) \/ SendFails(p)
        \/ Respond(p) \/ PassOn(p) \/ AnswerCatalog(p) \/ Finish(p) \/ Gone(p)
    BY <1>2 DEF Next
  <2>1. CASE ReadInMemory(p) \/ Spill(p) \/ SpillBlock(p) \/ Spilled(p) \/ Refuse(p)
    BY <2>1, ReadInMemoryKeeps, SpillKeeps, SpillBlockKeeps, SpilledKeeps, RefuseKeeps
  <2>2. CASE Move(p) \/ KeepSpill(p) \/ WriteArtifacts(p)
    BY <2>2, MoveKeeps, KeepSpillKeeps, WriteArtifactsKeeps
  <2>3. CASE OpenBody(p) \/ SendBlock(p) \/ SentAll(p) \/ SendFails(p)
    BY <2>3, OpenBodyKeeps, SendBlockKeeps, SentAllKeeps, SendFailsKeeps
  <2>4. CASE Respond(p) \/ PassOn(p) \/ AnswerCatalog(p) \/ Finish(p) \/ Gone(p)
    BY <2>4, RespondKeeps, PassOnKeeps, AnswerCatalogKeeps, FinishKeeps, GoneKeeps
  <2> QED BY <2>1, <2>2, <2>3, <2>4
<1> QED BY <1>1, <1>2

\* The inductive invariant holds of every reachable state of main.rs:478-818.
THEOREM Invariance == Spec => []Inv
BY InitInv, StepKeeps, PTL DEF Spec

\* Every descriptor and name of the handlers denotes a file (main.rs:478-618).
THEOREM TypeCorrect == Spec => []TypeOK
<1>1. Inv => TypeOK
  BY DEF Inv, Base
<1> QED BY <1>1, Invariance, PTL

\* A request whose stem is its own has its own body sent, from the start and
\* without a gap, and all of it but for the block whose write to the spill file
\* failed last, unless that file became the recording (main.rs:478-618).
THEOREM BodySentIsOwn == Spec => []OwnBodySent
<1>1. Inv => OwnBodySent
  <2> SUFFICES ASSUME Inv, NEW r \in Requests, Private(r)
               PROVE  /\ sent[r] = First(BodyOf(r), Len(sent[r]))
                      /\ SentWhole(r) /\ source[r] # Raw(r) => Len(sent[r]) >= Rest(r)
    BY DEF OwnBodySent, Rest
  <2>1. TypeOK /\ size[r] \in Nat /\ Sending(r) /\ Got(r)
    BY SizesAreNumbers DEF Inv, Base, Contents, Content
  <2>2. PICK n \in 0 .. size[r] :
          sent[r] = Beginning(r, n) /\ (SentWhole(r) /\ source[r] # Raw(r) => n >= Rest(r))
    <3>1. CASE up[r] # "sending"
      BY <2>1, <3>1 DEF Got, SentWhole
    <3>2. CASE up[r] = "sending"
      <4>1. PICK m \in 0 .. size[r] : data[out[r].ino] = Beginning(r, m)
        BY <2>1, <3>2 DEF Sending, Good
      <4>2. out[r].pos \in 0 .. m /\ sent[r] = Beginning(r, out[r].pos)
        BY <2>1, <3>2, <4>1, BeginningLength DEF Sending
      <4> QED BY <2>1, <3>2, <4>2 DEF SentWhole
    <3> QED BY <3>1, <3>2
  <2>3. Len(sent[r]) = n
    BY <2>2, BeginningLength
  <2> QED BY <2>1, <2>2, <2>3, BeginningOfBody
<1> QED BY <1>1, Invariance, PTL

\* What is recorded of a body that stayed in memory is the whole body unless its
\* write failed, and a part of it or nothing then, whatever the other requests
\* write meanwhile (main.rs:137-150, 624-627).
THEOREM RawIsRecorded == Spec => []RawRecorded
<1>1. Inv => RawRecorded
  <2> SUFFICES ASSUME Inv, NEW r \in Requests, RecordRaw, r \in Compressed, Alone(r),
                      SentWhole(r), ~OverLimit(r)
               PROVE  /\ Artful(r) /\ ~unkept[r]
                           => Raw(r) \in DOMAIN names /\ data[names[Raw(r)]] = BodyOf(r)
                      /\ Raw(r) \in DOMAIN names =>
                           /\ Artful(r)
                           /\ \E n \in 0 .. size[r] :
                                data[names[Raw(r)]] = First(BodyOf(r), n)
    BY DEF RawRecorded, Artful
  <2>1. TypeOK /\ Uploading(r) /\ RawOf(r)
    BY DEF Inv, Base, InPhase, Phases, Raws, SentWhole
  <2>2. \A n \in 0 .. size[r] : First(BodyOf(r), n) = Beginning(r, n)
    BY <2>1, BeginningOfBody
  <2> QED BY <2>1, <2>2 DEF RawOf
<1> QED BY <1>1, Invariance, PTL

\* A spill file that nobody will come back for is that of a request that was
\* refused or abandoned, or whose answer was a catalog (main.rs:487-818).
THEOREM LeftSpillsAreExplained == Spec => []LeftSpillsExplained
<1>1. Inv => LeftSpillsExplained
  BY DEF Inv, Spills, Keeps, Over, LeftSpillsExplained
<1> QED BY <1>1, Invariance, PTL
=============================================================================
