---------------------------- MODULE ReadsProofs ----------------------------
(***************************************************************************)
(* What holds of the reads: of a conversation's context, for any number of *)
(* callers, changes, reads and faults; and of the company's objects        *)
(* through its resolvers, for any number of claims, requests and types,    *)
(* any leases, rates and budgets.                                          *)
(***************************************************************************)
EXTENDS ContextReads, Resolvers, TLAPS

(***************************************************************************)
(*                       The reads of the context                          *)
(***************************************************************************)

Levels == {NoPack, Poor} \cup Keys
Stages == {"idle", "queued", "asked", "answered", "proving", "proved"}
Reads   == [key : Keys, delta : BOOLEAN, known : {NoPack} \cup Keys, epoch : Nat, acked : BOOLEAN]
Answers == [kind : {"none", "pack", "same", "degraded"}, level : Levels, deltas : SUBSET Changes]

(* TypeOK by the four groups of variables. *)

ServerOK ==
  /\ written \in 0..MaxChanges /\ proven \in Keys /\ mark \in 0..MaxChanges /\ raising \in BOOLEAN
  /\ pins \in [Keys \X Keys -> {NoPack} \cup 0..MaxChanges] /\ told \subseteq Changes

EntriesOK == Held \subseteq Keys /\ \A k \in Held : entries[k] \in Entry
CacheOK   == EntriesOK /\ epoch \in Nat /\ refreshing \subseteq Keys /\ forgone \subseteq Changes

CallsOK ==
  /\ stage \in [Readers -> Stages] /\ read \in [Readers -> Reads] /\ answer \in [Readers -> Answers]
  /\ reads \in Nat

SessionOK ==
  /\ asks \in Keys /\ etag \in Keys \X Levels /\ deltas \subseteq Changes
  /\ ended \in BOOLEAN /\ acked \in BOOLEAN /\ created \in Keys
  /\ handed \in [Changes -> Nat]
  /\ result \in [Callers -> [level : Levels, acked : BOOLEAN]]

LEMMA TypeParts ==
  /\ TypeOK <=> ServerOK /\ CacheOK /\ CallsOK /\ SessionOK /\ faults \in Nat
  /\ TypeOK' <=> ServerOK' /\ CacheOK' /\ CallsOK' /\ SessionOK' /\ faults' \in Nat
BY DEF TypeOK, ServerOK, EntriesOK, CacheOK, CallsOK, SessionOK, Levels, Stages, Reads, Answers

\* A reader has an answer while it stands at "answered" and at no other time; a key that is not
\* being refreshed has no call under way.
Rounds ==
  /\ \A r \in Readers :
       /\ stage[r] # "answered" => answer[r] = NoAnswer
       /\ stage[r] = "answered" =>
            /\ answer[r].kind # "none"
            /\ answer[r].kind # "degraded" => answer[r].level \in Keys
            /\ answer[r].kind = "degraded" => answer[r].deltas = {}
  /\ \A k \in Keys \ refreshing : stage[k] = "idle"

Base == TypeOK /\ Rounds

LEMMA Apart == /\ Callers \subseteq Readers /\ Keys \subseteq Readers
               /\ \A c \in Callers, k \in Keys : c # k
BY ConstantsAssumption DEF Readers, Keys
-----------------------------------------------------------------------------
(* The steps the actions share. *)

\* An entry stored is held, and the others are as they were.
LEMMA PutEffect ==
  ASSUME EntriesOK, NEW k \in Keys, NEW e \in Entry, entries' = Put(k, e)
  PROVE  /\ EntriesOK' /\ Held' = Held \cup {k} /\ entries'[k] = e
         /\ \A x \in Held : x # k => entries'[x] = entries[x]
BY DEF EntriesOK, Put, Held

\* hand_out() empties the deltas of one entry and nothing else.
LEMMA HandOutEffect ==
  ASSUME EntriesOK, NEW k \in Held, entries' = HandOut(k)
  PROVE  /\ EntriesOK' /\ Held' = Held /\ entries'[k].deltas = {}
         /\ entries'[k].level = entries[k].level /\ entries'[k].since = entries[k].since
         /\ entries'[k].background = entries[k].background
         /\ \A x \in Held : x # k => entries'[x] = entries[x]
BY DEF EntriesOK, HandOut, Held, Entry

\* Dropping packs leaves the others as they were.
LEMMA DropEffect ==
  ASSUME EntriesOK, NEW K \in SUBSET Keys, entries' = [k \in Held \ K |-> entries[k]]
  PROVE  /\ EntriesOK' /\ Held' = Held \ K
         /\ \A x \in Held' : entries'[x] = entries[x]
BY DEF EntriesOK, Held

\* The deltas that wait are changes.
LEMMA PendingChanges ==
  ASSUME EntriesOK, NEW K \in SUBSET Keys
  PROVE  Pending(K) \subseteq Changes
BY DEF EntriesOK, Pending, Held, Entry

LEMMA DropOK ==
  ASSUME CacheOK, NEW K \in SUBSET Keys, Drop(K)
  PROVE  EntriesOK' /\ forgone' \subseteq Changes
BY DropEffect, PendingChanges DEF CacheOK, Drop

\* A call that ends leaves its reader idle, without a request and without an answer.
LEMMA FinishEffect ==
  ASSUME CallsOK, NEW r \in Readers, Finish(r)
  PROVE  /\ CallsOK' /\ stage'[r] = "idle" /\ read'[r] = NoRead /\ answer'[r] = NoAnswer
         /\ \A q \in Readers : q # r => /\ stage'[q] = stage[q] /\ read'[q] = read[q]
                                        /\ answer'[q] = answer[q]
<1>1. NoRead \in Reads /\ NoAnswer \in Answers /\ "idle" \in Stages
  BY DEF NoRead, NoAnswer, Reads, Answers, Stages, Levels, Keys
<1> QED BY <1>1 DEF Finish, CallsOK

LEMMA ReceiveOK ==
  ASSUME SessionOK, NEW c \in Callers, NEW k \in Keys, NEW level \in Levels, NEW ds,
         NEW seen \in BOOLEAN, Receive(c, k, level, ds, seen), ds \subseteq Changes
  PROVE  SessionOK'
<1>1. etag' = <<k, level>> /\ deltas' \in {deltas \cup ds, {}}
  BY DEF Receive, Keep
<1>2. handed' \in [Changes -> Nat]
  BY DEF Receive, SessionOK
<1>3. result' \in [Callers -> [level : Levels, acked : BOOLEAN]]
  BY DEF Receive, Served, SessionOK
<1> QED BY <1>1, <1>2, <1>3 DEF Receive, SessionOK

LEMMA ReceiveEmptyOK ==
  ASSUME SessionOK, NEW c \in Callers, NEW seen \in BOOLEAN, ReceiveEmpty(c, seen)
  PROVE  SessionOK'
<1>1. result' \in [Callers -> [level : Levels, acked : BOOLEAN]]
  BY DEF ReceiveEmpty, Served, SessionOK, Levels
<1> QED BY <1>1 DEF ReceiveEmpty, SessionOK, Levels, Keys

\* What absorb() stores is an entry, if the answer is of a level the API serves.
LEMMA StoredOK ==
  ASSUME EntriesOK, NEW k \in Keys, NEW a \in Answers, NEW r \in Readers, NEW deliver \in BOOLEAN,
         a.level \in Keys, read[r] \in Reads
  PROVE  /\ Stored(k, a, r, deliver) \in Entry
         /\ Replaced(k, a) \subseteq Changes /\ HandedOut(k, a) \subseteq Changes
<1>1. k \in Held => entries[k] \in Entry
  BY DEF EntriesOK
<1>2. a.deltas \subseteq Changes /\ read[r].epoch \in Nat /\ (r \in Keys) \in BOOLEAN
  BY DEF Answers, Reads
<1> DEFINE kept == (IF k \in Held /\ (a.kind = "same" \/ entries[k].level = a.level) THEN entries[k].deltas ELSE {})
                   \cup a.deltas
<1>3. kept \subseteq Changes
  BY <1>1, <1>2 DEF Entry
<1> HIDE DEF kept
<1>4. ASSUME k \in Held /\ a.kind = "same" PROVE Stored(k, a, r, deliver) \in Entry
  <2>1. Stored(k, a, r, deliver) = [entries[k] EXCEPT !.age = "fresh", !.deltas = IF deliver THEN {} ELSE kept]
    BY <1>4 DEF Stored, kept
  <2> QED BY <1>1, <1>3, <1>4, <2>1 DEF Entry
<1>5. ASSUME ~(k \in Held /\ a.kind = "same") PROVE Stored(k, a, r, deliver) \in Entry
  <2>1. Stored(k, a, r, deliver) = [level |-> a.level, age |-> "fresh", deltas |-> IF deliver THEN {} ELSE kept,
                                    since |-> read[r].epoch, background |-> r \in Keys]
    BY <1>5 DEF Stored, kept
  <2> QED BY <1>2, <1>3, <2>1 DEF Entry
<1>6. Replaced(k, a) \subseteq Changes /\ HandedOut(k, a) \subseteq Changes
  BY <1>1, <1>2 DEF Replaced, HandedOut, Entry
<1> QED BY <1>4, <1>5, <1>6

LEMMA RoundsFinish ==
  ASSUME CallsOK, Rounds, NEW r \in Readers, Finish(r), refreshing' \in {refreshing, refreshing \ {r}}
  PROVE  Rounds'
<1>1. /\ stage'[r] = "idle" /\ answer'[r] = NoAnswer
      /\ \A q \in Readers : q # r => stage'[q] = stage[q] /\ answer'[q] = answer[q]
  BY FinishEffect
<1>2. \A k \in Keys \ refreshing' : k = r \/ k \in Keys \ refreshing
  OBVIOUS
<1>3. Keys \subseteq Readers
  BY Apart
<1> QED BY <1>1, <1>2, <1>3 DEF Rounds

LEMMA RoundsMove ==
  ASSUME CallsOK, Rounds, NEW r \in Readers, NEW l \in Stages, stage' = [stage EXCEPT ![r] = l],
         l # "answered", stage[r] # "answered", UNCHANGED answer, refreshing \subseteq refreshing',
         r \in Keys => r \in refreshing'
  PROVE  Rounds'
<1>1. stage'[r] = l /\ \A q \in Readers : q # r => stage'[q] = stage[q]
  BY DEF CallsOK
<1>2. Keys \subseteq Readers
  BY Apart
<1> QED BY <1>1, <1>2 DEF Rounds

LEMMA RoundsRest ==
  ASSUME Rounds, UNCHANGED <<stage, answer, refreshing>>
  PROVE  Rounds'
BY DEF Rounds

\* A caller's read that ends with what the cache held, or with nothing.
LEMMA CallEndsOK ==
  ASSUME Base, NEW c \in Callers, NEW k \in Keys, NEW level \in Levels, NEW ds, NEW seen \in BOOLEAN,
         ds \subseteq Changes, Receive(c, k, level, ds, seen), Finish(c),
         UNCHANGED server, EntriesOK', forgone' \subseteq Changes, UNCHANGED <<epoch, refreshing>>, faults' \in Nat
  PROVE  TypeOK' /\ Rounds'
<1>1. ServerOK /\ CacheOK /\ CallsOK /\ SessionOK /\ Rounds /\ c \in Readers
  BY TypeParts, Apart DEF Base
<1>2. CallsOK' /\ Rounds'
  BY <1>1, FinishEffect, RoundsFinish
<1>3. SessionOK'
  BY <1>1, ReceiveOK
<1>4. ServerOK' /\ CacheOK'
  BY <1>1 DEF ServerOK, CacheOK, server
<1> QED BY <1>2, <1>3, <1>4, TypeParts

LEMMA CallEndsEmptyOK ==
  ASSUME Base, NEW c \in Callers, NEW seen \in BOOLEAN, ReceiveEmpty(c, seen), Finish(c),
         UNCHANGED server, EntriesOK', forgone' \subseteq Changes, UNCHANGED <<epoch, refreshing>>, faults' \in Nat
  PROVE  TypeOK' /\ Rounds'
<1>1. ServerOK /\ CacheOK /\ CallsOK /\ SessionOK /\ Rounds /\ c \in Readers
  BY TypeParts, Apart DEF Base
<1>2. CallsOK' /\ Rounds'
  BY <1>1, FinishEffect, RoundsFinish
<1>3. SessionOK'
  BY <1>1, ReceiveEmptyOK
<1>4. ServerOK' /\ CacheOK'
  BY <1>1 DEF ServerOK, CacheOK, server
<1> QED BY <1>2, <1>3, <1>4, TypeParts

\* A background refresh that ends.
LEMMA RefreshEndsOK ==
  ASSUME Base, NEW k \in Keys, EndRefresh(k), Finish(k), UNCHANGED <<epoch, session, server>>,
         EntriesOK', forgone' \subseteq Changes, faults' \in Nat
  PROVE  TypeOK' /\ Rounds'
<1>1. ServerOK /\ CacheOK /\ CallsOK /\ SessionOK /\ Rounds /\ k \in Readers
  BY TypeParts, Apart DEF Base
<1>2. CallsOK' /\ Rounds'
  BY <1>1, FinishEffect, RoundsFinish DEF EndRefresh
<1>3. ServerOK' /\ CacheOK' /\ SessionOK'
  BY <1>1 DEF ServerOK, CacheOK, SessionOK, server, session, EndRefresh
<1> QED BY <1>2, <1>3, TypeParts

\* What a reader that was answered read and got.
LEMMA AnsweredOK ==
  ASSUME Base, NEW r \in Readers
  PROVE  /\ read[r] \in Reads /\ answer[r] \in Answers /\ read[r].key \in Keys /\ read[r].acked \in BOOLEAN
         /\ answer[r].deltas \subseteq Changes /\ answer[r].level \in Levels
         /\ stage[r] = "answered" /\ answer[r].kind # "degraded" => answer[r].level \in Keys
BY TypeParts DEF Base, CallsOK, Rounds, Reads, Answers

LEMMA BaseCaller ==
  ASSUME Base, NEW c \in Callers, CallerStep(c)
  PROVE  TypeOK' /\ Rounds'
<1>0. /\ ServerOK /\ CacheOK /\ EntriesOK /\ CallsOK /\ SessionOK /\ Rounds /\ faults \in Nat
      /\ c \in Readers /\ c \notin Keys /\ Keys \subseteq Readers /\ asks \in Keys /\ acked \in BOOLEAN
      /\ stage[c] \in Stages
  BY TypeParts, Apart DEF Base, CacheOK, SessionOK, CallsOK
<1>10. PICK k \in Keys, a \in Answers :
         /\ k = read[c].key /\ a = answer[c] /\ read[c] \in Reads /\ read[c].acked \in BOOLEAN
         /\ a.deltas \subseteq Changes /\ a.level \in Levels
         /\ stage[c] = "answered" /\ a.kind # "degraded" => a.level \in Keys
  BY <1>0, AnsweredOK
<1>11. \A x \in Keys : x \in Held => entries[x].level \in Levels /\ entries[x].deltas \subseteq Changes
                                    /\ Etag(x) \in {NoPack} \cup Keys
  BY <1>0 DEF EntriesOK, Entry, Levels, Etag
<1>12. \A x \in Keys, n \in {NoPack} \cup Keys : Request(x, n) \in Reads
  BY <1>0 DEF Request, Reads, CacheOK
<1>1. CASE FromCache(c)
  <2>1. asks \in Held /\ entries' = HandOut(asks) /\ Receive(c, asks, entries[asks].level, entries[asks].deltas, acked)
    BY <1>1 DEF FromCache, Live
  <2>2. SessionOK' /\ EntriesOK'
    BY <1>0, <1>11, <2>1, ReceiveOK, HandOutEffect
  <2>3. UNCHANGED <<answer, epoch, forgone, server, faults>> /\ reads' = reads + 1
    BY <1>1 DEF FromCache
  <2>4. CASE UNCHANGED <<refreshing, stage, read>>
    <3>1. Rounds'
      BY <1>0, <2>3, <2>4, RoundsRest
    <3>2. ServerOK' /\ CacheOK' /\ CallsOK' /\ faults' \in Nat
      BY <1>0, <2>2, <2>3, <2>4 DEF ServerOK, CacheOK, CallsOK, server
    <3> QED BY <2>2, <3>1, <3>2, TypeParts
  <2>5. CASE /\ asks \notin refreshing /\ refreshing' = refreshing \cup {asks}
             /\ stage' = [stage EXCEPT ![asks] = "queued"]
             /\ read' = [read EXCEPT ![asks] = Request(asks, NoPack)]
    <3>1. asks \in Readers /\ "queued" \in Stages /\ stage[asks] = "idle"
      BY <1>0, <2>5 DEF Stages, Rounds
    <3>2. Rounds'
      BY <1>0, <2>3, <2>5, <3>1, RoundsMove
    <3>3. CallsOK'
      BY <1>0, <1>12, <2>3, <2>5, <3>1 DEF CallsOK
    <3>4. ServerOK' /\ CacheOK' /\ faults' \in Nat
      BY <1>0, <2>2, <2>3, <2>5 DEF ServerOK, CacheOK, server
    <3> QED BY <2>2, <3>2, <3>3, <3>4, TypeParts
  <2> QED BY <1>1, <2>4, <2>5 DEF FromCache
<1>2. CASE AskPinned(c) \/ AskTurn(c)
  <2>1. /\ stage[c] = "idle" /\ stage' = [stage EXCEPT ![c] = "asked"] /\ reads' = reads + 1
        /\ UNCHANGED <<answer, epoch, refreshing, session, server, faults>>
    BY <1>2 DEF AskPinned, AskTurn, Free, cache
  <2>2. "asked" \in Stages
    BY DEF Stages
  <2>3. Rounds'
    BY <1>0, <2>1, <2>2, RoundsMove
  <2>4. PICK q \in Reads : read' = [read EXCEPT ![c] = q]
    BY <1>0, <1>2, <1>11, <1>12 DEF AskPinned, AskTurn, Etag, Live
  <2>5. CallsOK'
    BY <1>0, <2>1, <2>2, <2>4 DEF CallsOK
  <2>6. EntriesOK' /\ forgone' \subseteq Changes
    <3>1. CASE AskPinned(c)
      <4>1. {asks} \ {x \in Keys : Live(x)} \in SUBSET Keys
        BY <1>0
      <4> QED BY <1>0, <3>1, <4>1, DropOK DEF AskPinned
    <3>2. CASE AskTurn(c)
      BY <1>0, <3>2 DEF AskTurn, cache, CacheOK, EntriesOK, Held
    <3> QED BY <1>2, <3>1, <3>2
  <2>7. ServerOK' /\ CacheOK' /\ SessionOK' /\ faults' \in Nat
    BY <1>0, <2>1, <2>6 DEF ServerOK, CacheOK, SessionOK, server, session
  <2> QED BY <2>3, <2>5, <2>7, TypeParts
<1>3. CASE Absorbs(c)
  <2>1. /\ stage[c] = "answered" /\ a.kind # "degraded"
        /\ entries' = Put(k, Stored(k, a, c, TRUE)) /\ forgone' = forgone \cup Replaced(k, a)
        /\ Receive(c, k, IF a.kind = "same" THEN entries[k].level ELSE a.level, HandedOut(k, a), read[c].acked)
        /\ Finish(c) /\ UNCHANGED <<epoch, refreshing, server, faults>> /\ (a.kind = "pack" \/ k \in Held)
    BY <1>10, <1>3 DEF Absorbs
  <2>2. a.level \in Keys
    BY <1>10, <2>1
  <2>3. Stored(k, a, c, TRUE) \in Entry /\ Replaced(k, a) \subseteq Changes /\ HandedOut(k, a) \subseteq Changes
    BY <1>0, <1>10, <2>2, StoredOK
  <2>4. EntriesOK' /\ forgone' \subseteq Changes
    BY <1>0, <1>10, <2>1, <2>3, PutEffect DEF CacheOK
  <2>5. (IF a.kind = "same" THEN entries[k].level ELSE a.level) \in Levels
    BY <1>10, <1>11, <2>1 DEF Answers
  <2> QED BY <1>0, <1>10, <2>1, <2>3, <2>4, <2>5, CallEndsOK
<1>4. CASE TakesLastGood(c)
  <2>1. /\ k \in Held /\ entries' = HandOut(k) /\ Finish(c) /\ UNCHANGED <<epoch, refreshing, forgone, server, faults>>
        /\ Receive(c, k, entries[k].level, entries[k].deltas, read[c].acked)
    BY <1>10, <1>4 DEF TakesLastGood
  <2>2. EntriesOK' /\ forgone' \subseteq Changes
    BY <1>0, <2>1, HandOutEffect DEF CacheOK
  <2> QED BY <1>0, <1>10, <1>11, <2>1, <2>2, CallEndsOK
<1>5. CASE TakesAsItIs(c)
  <2>1. Finish(c) /\ UNCHANGED <<cache, server, faults>> /\ Receive(c, k, a.level, a.deltas, read[c].acked)
    BY <1>10, <1>5 DEF TakesAsItIs
  <2>2. EntriesOK' /\ forgone' \subseteq Changes
    BY <1>0, <2>1 DEF CacheOK, cache, EntriesOK, Held
  <2> QED BY <1>0, <1>10, <2>1, <2>2, CallEndsOK DEF cache
<1>6. CASE Fails(c)
  <2>1. Finish(c) /\ UNCHANGED <<epoch, refreshing, server>> /\ faults' = faults + 1
    BY <1>10, <1>6 DEF Fails
  <2>2. CASE Live(k)
    <3>1. /\ k \in Held /\ entries' = HandOut(k) /\ forgone' = forgone \cup a.deltas
          /\ Receive(c, k, entries[k].level, entries[k].deltas, read[c].acked)
      BY <1>10, <1>6, <2>2 DEF Fails, Live
    <3>2. EntriesOK' /\ forgone' \subseteq Changes
      BY <1>0, <1>10, <3>1, HandOutEffect DEF CacheOK
    <3> QED BY <1>0, <1>10, <1>11, <2>1, <3>1, <3>2, CallEndsOK
  <2>3. CASE ~Live(k)
    <3>1. /\ entries' = [x \in Held \ {k} |-> entries[x]]
          /\ forgone' = forgone \cup Pending({k}) \cup a.deltas /\ ReceiveEmpty(c, read[c].acked)
      BY <1>10, <1>6, <2>3 DEF Fails
    <3>2. {k} \in SUBSET Keys
      BY <1>10
    <3>3. EntriesOK' /\ forgone' \subseteq Changes
      BY <1>0, <1>10, <3>1, <3>2, DropEffect, PendingChanges DEF CacheOK
    <3>4. faults' \in Nat
      BY <1>0, <2>1
    <3> QED BY <1>10, <2>1, <3>1, <3>3, <3>4, CallEndsEmptyOK
  <2> QED BY <2>2, <2>3
<1>7. CASE Denied(c)
  <2>1. /\ Finish(c) /\ UNCHANGED <<epoch, refreshing, server>> /\ faults' = faults + 1
        /\ ReceiveEmpty(c, read[c].acked) /\ \E K \in {{k}, Keys} : Drop(K)
    BY <1>10, <1>7 DEF Denied
  <2>2. EntriesOK' /\ forgone' \subseteq Changes
    BY <1>0, <1>10, <2>1, DropOK
  <2>3. faults' \in Nat
    BY <1>0, <2>1
  <2> QED BY <1>10, <2>1, <2>2, <2>3, CallEndsEmptyOK
\* verify() and end(): no read, so only the caller's stage moves.
<1>8. CASE Verify(c) \/ Prove(c) \/ Verified(c) \/ VerifyFails(c)
  <2>1. PICK l \in {"idle", "proving", "proved"} : stage' = [stage EXCEPT ![c] = l]
    BY <1>8 DEF Verify, Prove, Verified, VerifyFails
  <2>2. /\ stage[c] \in {"idle", "proving", "proved"} /\ UNCHANGED <<read, answer, reads, refreshing>>
    BY <1>8 DEF Verify, Prove, Verified, VerifyFails, Free, Purge, cache, calls
  <2>3. l \in Stages
    BY DEF Stages
  <2>4. Rounds'
    BY <1>0, <2>1, <2>2, <2>3, RoundsMove
  <2>5. CallsOK'
    BY <1>0, <2>1, <2>2, <2>3 DEF CallsOK
  <2>6. CacheOK'
    <3>1. CASE Verify(c)
      <4>1. EntriesOK' /\ forgone' \subseteq Changes
        BY <1>0, <3>1, DropOK DEF Verify, Purge
      <4> QED BY <1>0, <3>1, <4>1 DEF Verify, Purge, CacheOK
    <3>2. CASE ~Verify(c)
      BY <1>0, <1>8, <3>2 DEF Prove, Verified, VerifyFails, CacheOK, EntriesOK, Held, cache
    <3> QED BY <3>1, <3>2
  <2>7. ServerOK' /\ SessionOK' /\ faults' \in Nat
    <3>1. CASE Verify(c)
      BY <1>0, <3>1 DEF Verify, ServerOK, SessionOK, server, session
    <3>2. CASE Prove(c)
      BY <1>0, <3>2 DEF Prove, ServerOK, SessionOK, session, Keys
    <3>3. CASE Verified(c)
      <4>1. /\ acked' = TRUE /\ asks' = 1 /\ etag' = <<0, NoPack>> /\ deltas' = {}
            /\ UNCHANGED <<handed, created, result, ended, server, faults>>
        BY <3>3 DEF Verified
      <4>2. etag' \in Keys \X Levels /\ asks' \in Keys
        BY <4>1 DEF Keys, Levels
      <4> QED BY <1>0, <4>1, <4>2 DEF ServerOK, SessionOK, server
    <3>4. CASE VerifyFails(c)
      BY <1>0, <3>4 DEF VerifyFails, ServerOK, SessionOK, session
    <3> QED BY <1>8, <3>1, <3>2, <3>3, <3>4
  <2> QED BY <2>4, <2>5, <2>6, <2>7, TypeParts
<1>9. CASE End(c)
  <2>1. Purge /\ ended' = TRUE /\ UNCHANGED <<asks, etag, deltas, handed, acked, created, result, calls, server, faults>>
    BY <1>9 DEF End
  <2>2. EntriesOK' /\ forgone' \subseteq Changes
    BY <1>0, <2>1, DropOK DEF Purge
  <2>3. Rounds'
    BY <1>0, <2>1, RoundsRest DEF Purge, calls
  <2>4. ServerOK' /\ CacheOK' /\ CallsOK' /\ SessionOK'
    BY <1>0, <2>1, <2>2 DEF ServerOK, CacheOK, CallsOK, SessionOK, server, calls, Purge
  <2> QED BY <1>0, <2>1, <2>3, <2>4, TypeParts
<1> QED BY <1>1, <1>2, <1>3, <1>4, <1>5, <1>6, <1>7, <1>8, <1>9 DEF CallerStep

LEMMA BaseRefresh ==
  ASSUME Base, NEW k \in Keys, RefreshStep(k)
  PROVE  TypeOK' /\ Rounds'
<1>0. /\ ServerOK /\ CacheOK /\ EntriesOK /\ CallsOK /\ SessionOK /\ Rounds /\ faults \in Nat /\ k \in Readers
  BY TypeParts, Apart DEF Base, CacheOK
<1>5. PICK a \in Answers : /\ a = answer[k] /\ read[k] \in Reads /\ a.deltas \subseteq Changes
                           /\ stage[k] = "answered" /\ a.kind # "degraded" => a.level \in Keys
  BY <1>0, AnsweredOK
<1>1. CASE StartRefresh(k)
  <2>1. /\ stage[k] = "queued" /\ stage' = [stage EXCEPT ![k] = "asked"]
        /\ read' = [read EXCEPT ![k].known = Etag(k), ![k].epoch = epoch]
        /\ UNCHANGED <<answer, reads, cache, session, server, faults>>
    BY <1>1 DEF StartRefresh
  <2>2. "asked" \in Stages /\ k \in refreshing
    BY <1>0, <2>1 DEF Stages, Rounds
  <2>3. Rounds'
    BY <1>0, <2>1, <2>2, RoundsMove DEF cache
  <2>4. Etag(k) \in {NoPack} \cup Keys /\ epoch \in Nat
    BY <1>0 DEF Etag, EntriesOK, Entry, CacheOK
  <2>5. read' \in [Readers -> Reads]
    BY <1>0, <2>1, <2>4 DEF CallsOK, Reads
  <2>6. CallsOK'
    BY <1>0, <2>1, <2>2, <2>5 DEF CallsOK
  <2>7. ServerOK' /\ CacheOK' /\ SessionOK'
    BY <1>0, <2>1 DEF ServerOK, CacheOK, EntriesOK, Held, SessionOK, server, session, cache
  <2> QED BY <1>0, <2>1, <2>3, <2>6, <2>7, TypeParts
<1>2. CASE Refreshed(k)
  <2>1. /\ stage[k] = "answered" /\ a.kind # "degraded" /\ EndRefresh(k) /\ Finish(k)
        /\ entries' = Put(k, Stored(k, a, k, FALSE)) /\ forgone' = forgone \cup Replaced(k, a)
        /\ UNCHANGED <<epoch, session, server, faults>>
    BY <1>2, <1>5 DEF Refreshed
  <2>2. Stored(k, a, k, FALSE) \in Entry /\ Replaced(k, a) \subseteq Changes
    BY <1>0, <1>5, <2>1, StoredOK
  <2>3. EntriesOK' /\ forgone' \subseteq Changes
    BY <1>0, <2>1, <2>2, PutEffect DEF CacheOK
  <2> QED BY <1>0, <2>1, <2>3, RefreshEndsOK
<1>3. CASE RefreshIgnored(k)
  <2>1. /\ forgone' = forgone \cup a.deltas /\ EndRefresh(k) /\ Finish(k)
        /\ UNCHANGED <<entries, epoch, session, server, faults>>
    BY <1>3, <1>5 DEF RefreshIgnored
  <2>2. EntriesOK' /\ forgone' \subseteq Changes
    BY <1>0, <1>5, <2>1 DEF CacheOK, EntriesOK, Held
  <2> QED BY <1>0, <2>1, <2>2, RefreshEndsOK
<1>4. CASE RefreshFails(k)
  <2>1. faults' = faults + 1 /\ EndRefresh(k) /\ Finish(k) /\ UNCHANGED <<epoch, session, server>>
    BY <1>4 DEF RefreshFails
  <2>2. EntriesOK' /\ forgone' \subseteq Changes
    <3>1. CASE UNCHANGED entries /\ forgone' = forgone \cup a.deltas
      BY <1>0, <1>5, <3>1 DEF CacheOK, EntriesOK, Held
    <3>2. CASE \E K \in {{k}, Keys} : Drop(K)
      BY <1>0, <3>2, DropOK
    <3> QED BY <1>4, <1>5, <3>1, <3>2 DEF RefreshFails
  <2>3. faults' \in Nat
    BY <1>0, <2>1
  <2> QED BY <2>1, <2>2, <2>3, RefreshEndsOK
<1> QED BY <1>1, <1>2, <1>3, <1>4 DEF RefreshStep

\* The level at which the API answers, and the watermark it answers from.
AnswersAt(r) == <<read[r].key, Min2(read[r].key, proven)>>
UpTo(r)      == IF pins[AnswersAt(r)] = NoPack THEN written ELSE pins[AnswersAt(r)]
News(r)      == IF read[r].delta THEN (Max2(mark, UpTo(r)) + 1)..written ELSE {}

\* What the API does to the server and to the answer, with its LET taken apart.
LEMMA AnswerEffect ==
  ASSUME Base, NEW r \in Readers, Answer(r)
  PROVE  /\ stage[r] = "asked" /\ stage' = [stage EXCEPT ![r] = "answered"]
         /\ pins' = [pins EXCEPT ![AnswersAt(r)] = UpTo(r)]
         /\ mark' = (IF read[r].delta THEN written ELSE Max2(mark, UpTo(r)))
         /\ told' = told \cup News(r) /\ News(r) \subseteq Changes
         /\ AnswersAt(r) \in Keys \X Keys /\ UpTo(r) \in 0..MaxChanges
         /\ \E a \in Answers : /\ answer' = [answer EXCEPT ![r] = a]
                               /\ a.kind \in {"same", "pack"} /\ a.level = Min2(read[r].key, proven)
                               /\ a.level \in Keys /\ a.deltas = News(r)
         /\ UNCHANGED <<written, proven, raising, read, reads, cache, session, faults>>
<1>1. ServerOK /\ CallsOK /\ read[r] \in Reads /\ read[r].key \in Keys
  BY TypeParts, AnsweredOK DEF Base
<1>2. /\ Min2(read[r].key, proven) \in Keys /\ AnswersAt(r) \in Keys \X Keys
      /\ Min2(read[r].key, proven) = AnswersAt(r)[2]
  BY <1>1 DEF AnswersAt, Min2, ServerOK, Keys
<1>3. UpTo(r) \in 0..MaxChanges
  <2>1. pins[AnswersAt(r)] \in {NoPack} \cup 0..MaxChanges /\ written \in 0..MaxChanges
    BY <1>1, <1>2 DEF ServerOK
  <2> QED BY <2>1 DEF UpTo
<1>4. News(r) \subseteq Changes
  <2>1. mark \in Nat /\ written \in Nat /\ written <= MaxChanges /\ UpTo(r) \in Nat /\ MaxChanges \in Nat
    BY <1>1, <1>3, ConstantsAssumption DEF ServerOK
  <2> QED BY <2>1 DEF News, Changes, Max2
<1>5. /\ stage[r] = "asked" /\ stage' = [stage EXCEPT ![r] = "answered"]
      /\ pins' = [pins EXCEPT ![AnswersAt(r)] = UpTo(r)]
      /\ mark' = (IF read[r].delta THEN written ELSE Max2(mark, UpTo(r)))
      /\ told' = told \cup News(r)
      /\ answer' = [answer EXCEPT ![r] =
           [kind |-> IF read[r].known = AnswersAt(r)[2] THEN "same" ELSE "pack", level |-> AnswersAt(r)[2],
            deltas |-> News(r)]]
      /\ UNCHANGED <<written, proven, raising, read, reads, cache, session, faults>>
  BY DEF Answer, AnswersAt, UpTo, News
<1> DEFINE b == [kind |-> IF read[r].known = AnswersAt(r)[2] THEN "same" ELSE "pack", level |-> AnswersAt(r)[2],
                 deltas |-> News(r)]
<1>6. b \in Answers /\ b.kind \in {"same", "pack"} /\ b.level = Min2(read[r].key, proven) /\ b.level \in Keys /\ b.deltas = News(r)
  BY <1>2, <1>4 DEF Answers, Levels
<1>7. answer' = [answer EXCEPT ![r] = b]
  BY <1>5
<1> HIDE DEF b
<1> QED BY <1>2, <1>3, <1>4, <1>5, <1>6, <1>7

LEMMA RoundsAnswer ==
  ASSUME CallsOK, Rounds, NEW r \in Readers, NEW a \in Answers, stage[r] = "asked",
         stage' = [stage EXCEPT ![r] = "answered"], answer' = [answer EXCEPT ![r] = a],
         a.kind # "none", a.kind # "degraded" => a.level \in Keys, a.kind = "degraded" => a.deltas = {},
         UNCHANGED <<read, reads, refreshing>>
  PROVE  CallsOK' /\ Rounds'
<1>1. CallsOK'
  BY DEF CallsOK, Stages
<1>2. /\ stage'[r] = "answered" /\ answer'[r] = a
      /\ \A q \in Readers : q # r => stage'[q] = stage[q] /\ answer'[q] = answer[q]
  BY DEF CallsOK
<1>3. Keys \subseteq Readers
  BY Apart
<1>4. \A k \in Keys \ refreshing' : k # r
  BY DEF Rounds
<1> QED BY <1>1, <1>2, <1>3, <1>4 DEF Rounds

LEMMA BaseAnswer ==
  ASSUME Base, NEW r \in Readers, Answer(r) \/ AnswerDegraded(r)
  PROVE  TypeOK' /\ Rounds'
<1>0. ServerOK /\ CacheOK /\ CallsOK /\ SessionOK /\ Rounds /\ faults \in Nat
  BY TypeParts DEF Base
<1>1. CASE Answer(r)
  <2>1. PICK a \in Answers :
          /\ stage[r] = "asked" /\ stage' = [stage EXCEPT ![r] = "answered"]
          /\ pins' = [pins EXCEPT ![AnswersAt(r)] = UpTo(r)]
          /\ mark' = (IF read[r].delta THEN written ELSE Max2(mark, UpTo(r)))
          /\ told' = told \cup News(r) /\ News(r) \subseteq Changes
          /\ AnswersAt(r) \in Keys \X Keys /\ UpTo(r) \in 0..MaxChanges
          /\ answer' = [answer EXCEPT ![r] = a] /\ a.kind \in {"same", "pack"} /\ a.level \in Keys
          /\ UNCHANGED <<written, proven, raising, read, reads, cache, session, faults>>
    BY <1>1, AnswerEffect
  <2>2. CallsOK' /\ Rounds'
    BY <1>0, <2>1, RoundsAnswer DEF cache
  <2>3. mark' \in 0..MaxChanges
    BY <1>0, <2>1 DEF ServerOK, Max2
  <2>4. pins' \in [Keys \X Keys -> {NoPack} \cup 0..MaxChanges]
    BY <1>0, <2>1 DEF ServerOK
  <2>5. ServerOK'
    BY <1>0, <2>1, <2>3, <2>4 DEF ServerOK
  <2>6. CacheOK' /\ SessionOK'
    BY <1>0, <2>1 DEF CacheOK, EntriesOK, Held, SessionOK, session, cache
  <2> QED BY <1>0, <2>1, <2>2, <2>5, <2>6, TypeParts
<1>2. CASE AnswerDegraded(r)
  <2> DEFINE a == [kind |-> "degraded", level |-> Poor, deltas |-> {}]
  <2>1. a \in Answers /\ a.kind = "degraded" /\ a.deltas = {}
    BY DEF Answers, Levels
  <2>2. /\ stage[r] = "asked" /\ stage' = [stage EXCEPT ![r] = "answered"] /\ faults' = faults + 1
        /\ answer' = [answer EXCEPT ![r] = a] /\ UNCHANGED <<read, reads, cache, session, server>>
    BY <1>2 DEF AnswerDegraded
  <2> HIDE DEF a
  <2>3. CallsOK' /\ Rounds'
    BY <1>0, <2>1, <2>2, RoundsAnswer DEF cache
  <2>4. ServerOK' /\ CacheOK' /\ SessionOK' /\ faults' \in Nat
    BY <1>0, <2>2 DEF ServerOK, CacheOK, EntriesOK, Held, SessionOK, session, cache, server
  <2> QED BY <2>3, <2>4, TypeParts
<1> QED BY <1>1, <1>2

\* Time passes for one pack: its age changes and nothing else does.
LEMMA AgeEffect ==
  ASSUME EntriesOK, NEW k \in Keys, Age(k)
  PROVE  /\ EntriesOK' /\ Held' = Held
         /\ \A x \in Held : /\ entries'[x].level = entries[x].level /\ entries'[x].deltas = entries[x].deltas
                            /\ entries'[x].since = entries[x].since /\ entries'[x].background = entries[x].background
<1>1. /\ k \in Held /\ entries' = [entries EXCEPT ![k].age =
         CASE @ = "fresh" -> "stale" [] @ = "stale" -> "expired" [] OTHER -> "dead"]
  BY DEF Age
<1>2. PICK g \in {"stale", "expired", "dead"} : entries' = [entries EXCEPT ![k].age = g]
  <2>1. (CASE entries[k].age = "fresh" -> "stale" [] entries[k].age = "stale" -> "expired" [] OTHER -> "dead")
        \in {"stale", "expired", "dead"}
    OBVIOUS
  <2> QED BY <1>1, <2>1
<1> QED BY <1>1, <1>2 DEF EntriesOK, Held, Entry

LEMMA BaseInit == Init => Base
<1> SUFFICES ASSUME Init PROVE Base
  OBVIOUS
<1>0. /\ MaxChanges \in Nat /\ NoRead \in Reads /\ NoAnswer \in Answers
      /\ [level |-> NoPack, acked |-> FALSE] \in [level : Levels, acked : BOOLEAN]
  BY ConstantsAssumption DEF NoRead, NoAnswer, Reads, Answers, Levels, Keys
<1>1. Keys \subseteq Readers
  BY Apart
<1>2. ServerOK
  <2>1. 0 \in 0..MaxChanges /\ 0 \in Keys
    BY <1>0 DEF Keys
  <2>2. pins \in [Keys \X Keys -> {NoPack} \cup 0..MaxChanges]
    BY DEF Init
  <2> QED BY <2>1, <2>2 DEF Init, ServerOK
<1>3. Held = {}
  BY DEF Init, Held
<1>4. CacheOK
  BY <1>3 DEF Init, CacheOK, EntriesOK
<1>5. CallsOK
  BY <1>0 DEF Init, CallsOK, Stages
<1>6. SessionOK
  <2>1. etag \in Keys \X Levels
    BY DEF Init, Keys, Levels
  <2> QED BY <1>0, <2>1, ConstantsAssumption DEF Init, SessionOK
<1>7. Rounds
  BY <1>1 DEF Init, Rounds, NoAnswer
<1>8. faults \in Nat
  BY DEF Init
<1> QED BY <1>2, <1>4, <1>5, <1>6, <1>7, <1>8, TypeParts DEF Base

LEMMA BaseStep == Base /\ [Next]_vars => Base'
<1> SUFFICES ASSUME Base, [Next]_vars PROVE TypeOK' /\ Rounds'
  BY DEF Base
<1>0. /\ ServerOK /\ CacheOK /\ EntriesOK /\ CallsOK /\ SessionOK /\ Rounds /\ faults \in Nat
  BY TypeParts DEF Base, CacheOK
<1>1. CASE Change \/ ProveLater
  <2>1. UNCHANGED <<cache, calls, session, faults>> /\ ServerOK'
    BY <1>0, <1>1, ConstantsAssumption DEF Change, ProveLater, ServerOK, Keys
  <2>2. Rounds'
    BY <1>0, <2>1, RoundsRest DEF calls, cache
  <2>3. CacheOK' /\ CallsOK' /\ SessionOK' /\ faults' \in Nat
    BY <1>0, <2>1 DEF CacheOK, EntriesOK, Held, CallsOK, SessionOK, cache, calls, session
  <2> QED BY <2>1, <2>2, <2>3, TypeParts
<1>2. ASSUME NEW k \in Keys, Age(k) \/ Evict(k) PROVE TypeOK' /\ Rounds'
  <2>1. /\ UNCHANGED <<epoch, refreshing, server, calls, session>> /\ faults' \in {faults, faults + 1}
    BY <1>2 DEF Age, Evict
  <2>2. EntriesOK' /\ forgone' \subseteq Changes
    <3>1. CASE Age(k)
      BY <1>0, <3>1, AgeEffect DEF Age, CacheOK
    <3>2. CASE Evict(k)
      BY <1>0, <3>2, DropOK DEF Evict
    <3> QED BY <1>2, <3>1, <3>2
  <2>3. Rounds'
    BY <1>0, <2>1, RoundsRest DEF calls
  <2>4. ServerOK' /\ CacheOK' /\ CallsOK' /\ SessionOK' /\ faults' \in Nat
    BY <1>0, <2>1, <2>2 DEF ServerOK, CacheOK, CallsOK, SessionOK, server, calls, session
  <2> QED BY <2>3, <2>4, TypeParts
<1>3. CASE UNCHANGED vars
  <2>1. UNCHANGED <<server, cache, calls, session, faults>>
    BY <1>3 DEF vars
  <2>2. Rounds'
    BY <1>0, <2>1, RoundsRest DEF calls, cache
  <2>3. ServerOK' /\ CacheOK' /\ CallsOK' /\ SessionOK' /\ faults' \in Nat
    BY <1>0, <2>1 DEF ServerOK, CacheOK, EntriesOK, Held, CallsOK, SessionOK, server, cache, calls, session
  <2> QED BY <2>2, <2>3, TypeParts
<1> QED BY <1>1, <1>2, <1>3, BaseCaller, BaseRefresh, BaseAnswer DEF Next

\* Every read, answer, entry and counter of the conversation keeps its type, for any number of
\* callers, changes, reads and faults (ContextCache, Conversation).
THEOREM TypeCorrect == Spec => []TypeOK
<1>1. Base => TypeOK
  BY DEF Base
<1> QED BY <1>1, BaseInit, BaseStep, PTL DEF Spec

LEMMA AlwaysBase == Spec => []Base
BY BaseInit, BaseStep, PTL DEF Spec
-----------------------------------------------------------------------------
(* A purge holds against the refreshes under way. *)

\* What a step may put in the place of an entry: the same pack, one a caller asked for, or one
\* asked for after the last purge.
LEMMA PurgeHonoured ==
  ASSUME RefreshHonoursPurge,
         \A k \in Held' : \/ /\ k \in Held /\ entries'[k].since = entries[k].since
                             /\ entries'[k].background = entries[k].background /\ epoch' = epoch
                          \/ entries'[k].background = FALSE
                          \/ entries'[k].since = epoch'
  PROVE  RefreshHonoursPurge'
BY DEF RefreshHonoursPurge

\* absorb() leaves an entry its origin when the pack is the same, and writes it otherwise.
LEMMA StoredOrigin ==
  ASSUME EntriesOK, NEW k \in Keys, NEW a \in Answers, NEW r \in Readers, NEW deliver \in BOOLEAN
  PROVE  \/ /\ k \in Held /\ Stored(k, a, r, deliver).since = entries[k].since
            /\ Stored(k, a, r, deliver).background = entries[k].background
         \/ Stored(k, a, r, deliver).since = read[r].epoch /\ Stored(k, a, r, deliver).background = (r \in Keys)
<1> DEFINE ds == IF deliver THEN {}
                 ELSE (IF k \in Held /\ (a.kind = "same" \/ entries[k].level = a.level) THEN entries[k].deltas ELSE {})
                      \cup a.deltas
<1>1. CASE k \in Held /\ a.kind = "same"
  <2>1. Stored(k, a, r, deliver) = [entries[k] EXCEPT !.age = "fresh", !.deltas = ds]
    BY <1>1 DEF Stored
  <2>2. entries[k] \in Entry
    BY <1>1 DEF EntriesOK
  <2> HIDE DEF ds
  <2>3. Stored(k, a, r, deliver).since = entries[k].since /\ Stored(k, a, r, deliver).background = entries[k].background
    BY <2>1, <2>2 DEF Entry
  <2> QED BY <1>1, <2>3
<1>2. CASE ~(k \in Held /\ a.kind = "same")
  <2>1. Stored(k, a, r, deliver) = [level |-> a.level, age |-> "fresh", deltas |-> ds,
                                    since |-> read[r].epoch, background |-> r \in Keys]
    BY <1>2 DEF Stored
  <2> QED BY <2>1
<1> QED BY <1>1, <1>2

LEMMA PurgeStep ==
  ASSUME Base, RefreshHonoursPurge, [Next]_vars
  PROVE  RefreshHonoursPurge'
<1>0. EntriesOK /\ CacheOK /\ CallsOK /\ SessionOK /\ asks \in Keys
  BY TypeParts DEF Base, CacheOK, SessionOK
\* Packs that stay as they are, or go.
<1>1. ASSUME NEW K \in SUBSET Keys, entries' = [k \in Held \ K |-> entries[k]], epoch' = epoch \/ K = Keys
      PROVE RefreshHonoursPurge'
  <2>1. Held' = Held \ K /\ \A x \in Held' : entries'[x] = entries[x]
    BY <1>0, <1>1, DropEffect
  <2>2. K = Keys => Held' = {}
    BY <1>0, <2>1 DEF EntriesOK
  <2> QED BY <1>1, <2>1, <2>2, PurgeHonoured
<1>2. ASSUME NEW k \in Held, entries' = HandOut(k), UNCHANGED epoch
      PROVE RefreshHonoursPurge'
  BY <1>0, <1>2, HandOutEffect, PurgeHonoured
<1>3. ASSUME UNCHANGED <<entries, epoch>>
      PROVE RefreshHonoursPurge'
  BY <1>3 DEF RefreshHonoursPurge, Held
<1>4. ASSUME NEW k \in Keys, NEW r \in Readers, NEW deliver \in BOOLEAN, stage[r] = "answered",
             answer[r].kind # "degraded", entries' = Put(k, Stored(k, answer[r], r, deliver)),
             UNCHANGED epoch, r \notin Keys \/ read[r].epoch = epoch
      PROVE RefreshHonoursPurge'
  <2>1. answer[r] \in Answers /\ answer[r].level \in Keys /\ read[r] \in Reads
    BY <1>4, AnsweredOK
  <2> DEFINE e == Stored(k, answer[r], r, deliver)
  <2>2. e \in Entry
    BY <1>0, <2>1, StoredOK
  <2>3. \/ k \in Held /\ e.since = entries[k].since /\ e.background = entries[k].background
        \/ e.since = read[r].epoch /\ e.background = (r \in Keys)
    BY <1>0, <2>1, StoredOrigin
  <2> HIDE DEF e
  <2>4. entries' = Put(k, e)
    BY <1>4 DEF e
  <2>5. Held' = Held \cup {k} /\ entries'[k] = e /\ \A x \in Held : x # k => entries'[x] = entries[x]
    BY <1>0, <2>2, <2>4, PutEffect
  <2>6. \/ e.background = FALSE
        \/ e.since = epoch'
        \/ k \in Held /\ e.since = entries[k].since /\ e.background = entries[k].background
    BY <1>4, <2>2, <2>3 DEF Entry
  <2>7. \A x \in Held' : \/ /\ x \in Held /\ entries'[x].since = entries[x].since
                            /\ entries'[x].background = entries[x].background /\ epoch' = epoch
                         \/ entries'[x].background = FALSE
                         \/ entries'[x].since = epoch'
    <3> TAKE x \in Held'
    <3>1. CASE x = k
      BY <1>4, <2>5, <2>6, <3>1
    <3>2. CASE x # k
      BY <1>4, <2>5, <3>2
    <3> QED BY <3>1, <3>2
  <2> QED BY <2>7, PurgeHonoured
<1>5. ASSUME NEW c \in Callers, CallerStep(c)
      PROVE RefreshHonoursPurge'
  <2>0. c \in Readers /\ c \notin Keys /\ read[c].key \in Keys
    BY Apart, AnsweredOK
  <2>1. CASE FromCache(c)
    BY <1>2, <2>1 DEF FromCache, Live
  <2>2. CASE AskPinned(c)
    <3>1. {asks} \ {k \in Keys : Live(k)} \in SUBSET Keys
      BY <1>0
    <3> QED BY <1>1, <2>2, <3>1 DEF AskPinned, Drop
  <2>3. CASE Absorbs(c)
    <3>1. /\ stage[c] = "answered" /\ answer[c].kind # "degraded"
          /\ entries' = Put(read[c].key, Stored(read[c].key, answer[c], c, TRUE)) /\ UNCHANGED epoch
      BY <2>3 DEF Absorbs
    <3> QED BY <1>4, <2>0, <3>1
  <2>4. CASE TakesLastGood(c)
    BY <1>2, <2>4 DEF TakesLastGood
  <2>5. CASE Fails(c)
    <3>1. CASE Live(read[c].key)
      BY <1>2, <2>5, <3>1 DEF Fails, Live
    <3>2. CASE ~Live(read[c].key)
      <4>1. entries' = [x \in Held \ {read[c].key} |-> entries[x]] /\ UNCHANGED epoch /\ {read[c].key} \in SUBSET Keys
        BY <2>0, <2>5, <3>2 DEF Fails
      <4> QED BY <1>1, <4>1
    <3> QED BY <3>1, <3>2
  <2>6. CASE Denied(c)
    <3>1. PICK K \in SUBSET Keys : entries' = [k \in Held \ K |-> entries[k]] /\ UNCHANGED epoch
      BY <2>0, <2>6 DEF Denied, Drop
    <3> QED BY <1>1, <3>1
  <2>7. CASE Verify(c) \/ End(c)
    <3>1. entries' = [k \in Held \ Keys |-> entries[k]]
      BY <2>7 DEF Verify, End, Purge, Drop
    <3> QED BY <1>1, <3>1
  <2>8. CASE AskTurn(c) \/ TakesAsItIs(c) \/ Prove(c) \/ Verified(c) \/ VerifyFails(c)
    BY <1>3, <2>8 DEF AskTurn, TakesAsItIs, Prove, Verified, VerifyFails, cache
  <2> QED BY <1>5, <2>1, <2>2, <2>3, <2>4, <2>5, <2>6, <2>7, <2>8 DEF CallerStep
<1>6. ASSUME NEW k \in Keys, RefreshStep(k)
      PROVE RefreshHonoursPurge'
  <2>1. CASE Refreshed(k)
    <3>1. /\ stage[k] = "answered" /\ answer[k].kind # "degraded" /\ read[k].epoch = epoch
          /\ entries' = Put(k, Stored(k, answer[k], k, FALSE)) /\ UNCHANGED epoch
      BY <2>1 DEF Refreshed
    <3>2. k \in Readers /\ FALSE \in BOOLEAN
      BY Apart
    <3> QED BY <1>4, <3>1, <3>2, Zenon
  <2>2. CASE RefreshFails(k)
    <3>1. CASE UNCHANGED entries
      BY <1>3, <2>2, <3>1 DEF RefreshFails
    <3>2. CASE \E K \in {{k}, Keys} : Drop(K)
      <4>1. PICK K \in SUBSET Keys : entries' = [x \in Held \ K |-> entries[x]] /\ UNCHANGED epoch
        BY <2>2, <3>2 DEF RefreshFails, Drop
      <4> QED BY <1>1, <4>1
    <3> QED BY <2>2, <3>1, <3>2 DEF RefreshFails
  <2>3. CASE StartRefresh(k) \/ RefreshIgnored(k)
    BY <1>3, <2>3 DEF StartRefresh, RefreshIgnored, cache
  <2> QED BY <1>6, <2>1, <2>2, <2>3 DEF RefreshStep
<1>7. ASSUME NEW k \in Keys, Age(k)
      PROVE RefreshHonoursPurge'
  BY <1>0, <1>7, AgeEffect, PurgeHonoured DEF Age
<1>8. ASSUME NEW k \in Keys, Evict(k)
      PROVE RefreshHonoursPurge'
  <2>1. entries' = [x \in Held \ {k} |-> entries[x]] /\ UNCHANGED epoch /\ {k} \in SUBSET Keys
    BY <1>8 DEF Evict, Drop
  <2> QED BY <1>1, <2>1
<1>9. CASE Change \/ ProveLater \/ (\E r \in Readers : Answer(r) \/ AnswerDegraded(r)) \/ UNCHANGED vars
  BY <1>3, <1>9 DEF Change, ProveLater, Answer, AnswerDegraded, cache, vars
<1> QED BY <1>5, <1>6, <1>7, <1>8, <1>9 DEF Next

\* A background refresh that started before verify() or end() purged the conversation never puts
\* its pack back, however its answer crosses the purge (ContextCache.put_refreshed with the epoch).
THEOREM PurgeStands == Spec => []RefreshHonoursPurge
<1>1. Init => RefreshHonoursPurge
  BY DEF Init, RefreshHonoursPurge, Held
<1>2. Base /\ RefreshHonoursPurge /\ [Next]_vars => RefreshHonoursPurge'
  BY PurgeStep
<1> QED BY <1>1, <1>2, AlwaysBase, PTL DEF Spec
-----------------------------------------------------------------------------
(* Where a delta is: in the entry of a pack, or in an answer on its way, and in one place only. *)

Waits(k)    == IF k \in Held THEN entries[k].deltas ELSE {}
Afloat(x)   == (\E k \in Keys : x \in Waits(k)) \/ (\E r \in Readers : x \in answer[r].deltas)

OnePlace ==
  \A x \in Changes :
    /\ \A k, l \in Keys : x \in Waits(k) /\ x \in Waits(l) => k = l
    /\ \A r, q \in Readers : x \in answer[r].deltas /\ x \in answer[q].deltas => r = q
    /\ \A k \in Keys, r \in Readers : ~(x \in Waits(k) /\ x \in answer[r].deltas)
    /\ handed[x] > 0 => ~Afloat(x)

\* The API has sent nothing beyond the mark.
BeyondMark == \A x \in Changes : x > mark => handed[x] = 0 /\ x \notin told /\ ~Afloat(x)

\* What it has sent is handed out, given up or still afloat.
Followed == \A x \in told : handed[x] > 0 \/ x \in forgone \/ Afloat(x)

Watermarks == mark <= written /\ \A p \in Keys \X Keys : pins[p] <= written

Track == Base /\ OnePlace /\ BeyondMark /\ Followed /\ DeltaOnce /\ Watermarks

\* The packs of K lose their deltas and the readers R their answers: ds of them is handed out,
\* and the rest is given up.
Settles(K, R, ds) ==
  /\ \A k \in Keys : Waits(k)' = IF k \in K THEN {} ELSE Waits(k)
  /\ \A r \in Readers : answer'[r].deltas = IF r \in R THEN {} ELSE answer[r].deltas
  /\ \A x \in Changes :
       LET taken == (\E k \in K : x \in Waits(k)) \/ (\E r \in R : x \in answer[r].deltas)
       IN /\ x \in ds => taken
          /\ taken => x \in ds \/ x \in forgone'
          /\ handed'[x] = IF x \in ds THEN handed[x] + 1 ELSE handed[x]
  /\ forgone \subseteq forgone' /\ told' = told /\ mark' = mark

\* What is settled keeps every delta in one place at most, handed out once at most and never lost.
LEMMA SettleTrack ==
  ASSUME Track, NEW K \in SUBSET Keys, NEW R \in SUBSET Readers, NEW ds, Settles(K, R, ds)
  PROVE  OnePlace' /\ BeyondMark' /\ Followed' /\ DeltaOnce'
<1>0. handed \in [Changes -> Nat] /\ told \subseteq Changes
  BY TypeParts DEF Track, Base, SessionOK, ServerOK
<1>1. ASSUME NEW x \in Changes
      PROVE  /\ \A k \in Keys : x \in Waits(k)' => x \in Waits(k)
             /\ \A r \in Readers : x \in answer'[r].deltas => x \in answer[r].deltas
             /\ \/ handed'[x] = handed[x] /\ (Afloat(x) => Afloat(x)' \/ x \in forgone')
                \/ handed'[x] = handed[x] + 1 /\ Afloat(x) /\ ~Afloat(x)'
  <2>1. /\ \A k \in Keys : x \in Waits(k)' => x \in Waits(k) /\ k \notin K
        /\ \A r \in Readers : x \in answer'[r].deltas => x \in answer[r].deltas /\ r \notin R
    BY DEF Settles
  <2>2. CASE x \in ds
    <3>1. handed'[x] = handed[x] + 1
      BY <2>2 DEF Settles
    <3>2. CASE \E k \in K : x \in Waits(k)
      <4>1. PICK k \in K : x \in Waits(k)
        BY <3>2
      <4>2. Afloat(x)
        BY <4>1 DEF Afloat
      <4>3. /\ \A l \in Keys : x \in Waits(l) => l = k
            /\ \A r \in Readers : x \notin answer[r].deltas
        BY <4>1 DEF Track, OnePlace
      <4>4. ~Afloat(x)'
        BY <2>1, <4>1, <4>3 DEF Afloat
      <4> QED BY <2>1, <3>1, <4>2, <4>4
    <3>3. CASE \E r \in R : x \in answer[r].deltas
      <4>1. PICK r \in R : x \in answer[r].deltas
        BY <3>3
      <4>2. Afloat(x)
        BY <4>1 DEF Afloat
      <4>3. /\ \A l \in Keys : x \notin Waits(l)
            /\ \A q \in Readers : x \in answer[q].deltas => q = r
        BY <4>1 DEF Track, OnePlace
      <4>4. ~Afloat(x)'
        BY <2>1, <4>1, <4>3 DEF Afloat
      <4> QED BY <2>1, <3>1, <4>2, <4>4
    <3> QED BY <2>2, <3>2, <3>3 DEF Settles
  <2>3. CASE x \notin ds
    <3>1. handed'[x] = handed[x]
      BY <2>3 DEF Settles
    <3>2. ASSUME Afloat(x), x \notin forgone' PROVE Afloat(x)'
      <4>1. /\ \A k \in K : x \notin Waits(k)
            /\ \A r \in R : x \notin answer[r].deltas
        BY <2>3, <3>2 DEF Settles
      <4>2. CASE \E k \in Keys : x \in Waits(k)
        <5>1. PICK k \in Keys : x \in Waits(k)
          BY <4>2
        <5>2. x \in Waits(k)'
          BY <4>1, <5>1 DEF Settles
        <5> QED BY <5>2 DEF Afloat
      <4>3. CASE \E r \in Readers : x \in answer[r].deltas
        <5>1. PICK r \in Readers : x \in answer[r].deltas
          BY <4>3
        <5>2. x \in answer'[r].deltas
          BY <4>1, <5>1 DEF Settles
        <5> QED BY <5>2 DEF Afloat
      <4> QED BY <3>2, <4>2, <4>3 DEF Afloat
    <3> QED BY <2>1, <3>1, <3>2
  <2> QED BY <2>2, <2>3
<1>2. \A x \in Changes : Afloat(x)' => Afloat(x)
  BY <1>1 DEF Afloat
<1>3. UNCHANGED <<told, mark>> /\ forgone \subseteq forgone'
  BY DEF Settles
<1>4. OnePlace'
  <2> SUFFICES ASSUME NEW x \in Changes
               PROVE  /\ \A k, l \in Keys : x \in Waits(k)' /\ x \in Waits(l)' => k = l
                      /\ \A r, q \in Readers : x \in answer'[r].deltas /\ x \in answer'[q].deltas => r = q
                      /\ \A k \in Keys, r \in Readers : ~(x \in Waits(k)' /\ x \in answer'[r].deltas)
                      /\ handed'[x] > 0 => ~Afloat(x)'
    BY DEF OnePlace
  <2>1. handed'[x] > 0 => ~Afloat(x)'
    BY <1>1, <1>2 DEF Track, OnePlace
  <2> QED BY <1>1, <2>1 DEF Track, OnePlace
<1>5. DeltaOnce'
  <2> SUFFICES ASSUME NEW x \in Changes PROVE handed'[x] <= 1
    BY DEF DeltaOnce
  <2>1. handed[x] \in Nat /\ handed[x] <= 1 /\ (Afloat(x) => ~(handed[x] > 0))
    BY <1>0 DEF Track, OnePlace, DeltaOnce
  <2> QED BY <1>1, <2>1
<1>6. BeyondMark'
  <2> SUFFICES ASSUME NEW x \in Changes, x > mark' PROVE handed'[x] = 0 /\ x \notin told' /\ ~Afloat(x)'
    BY DEF BeyondMark
  <2>1. handed[x] = 0 /\ x \notin told /\ ~Afloat(x)
    BY <1>3 DEF Track, BeyondMark
  <2> QED BY <1>1, <1>2, <1>3, <2>1
<1>7. Followed'
  <2> SUFFICES ASSUME NEW x \in told' PROVE handed'[x] > 0 \/ x \in forgone' \/ Afloat(x)'
    BY DEF Followed
  <2>1. x \in Changes /\ (handed[x] > 0 \/ x \in forgone \/ Afloat(x)) /\ handed[x] \in Nat
    BY <1>0, <1>3 DEF Track, Followed
  <2> QED BY <1>1, <1>3, <2>1
<1> QED BY <1>4, <1>5, <1>6, <1>7

LEMMA WaitsPut ==
  ASSUME EntriesOK, NEW k \in Keys, NEW e \in Entry, entries' = Put(k, e)
  PROVE  Waits(k)' = e.deltas /\ \A j \in Keys : j # k => Waits(j)' = Waits(j)
BY PutEffect DEF Waits

LEMMA WaitsHandOut ==
  ASSUME EntriesOK, NEW k \in Held, entries' = HandOut(k)
  PROVE  \A j \in Keys : Waits(j)' = IF j \in {k} THEN {} ELSE Waits(j)
BY HandOutEffect DEF Waits

LEMMA WaitsDrop ==
  ASSUME EntriesOK, NEW K \in SUBSET Keys, entries' = [k \in Held \ K |-> entries[k]]
  PROVE  \A j \in Keys : Waits(j)' = IF j \in K THEN {} ELSE Waits(j)
BY DropEffect DEF Waits

LEMMA WaitsPending ==
  ASSUME EntriesOK, NEW K \in SUBSET Keys
  PROVE  \A k \in K : Waits(k) \subseteq Pending(K)
BY DEF Waits, Pending

LEMMA WaitsRest ==
  ASSUME UNCHANGED entries
  PROVE  \A j \in Keys : Waits(j)' = Waits(j)
BY DEF Waits, Held

\* A call that ends takes its answer with it, and no other.
LEMMA AnswerGone ==
  ASSUME CallsOK, NEW r \in Readers, Finish(r)
  PROVE  \A q \in Readers : answer'[q].deltas = IF q \in {r} THEN {} ELSE answer[q].deltas
BY FinishEffect DEF NoAnswer

\* Packs go while the calls stand: nothing is handed out.
LEMMA DropSettles ==
  ASSUME Base, NEW K \in SUBSET Keys, Drop(K), UNCHANGED <<answer, handed, told, mark>>
  PROVE  Settles(K, {}, {})
<1>1. EntriesOK /\ entries' = [k \in Held \ K |-> entries[k]] /\ forgone' = forgone \cup Pending(K)
  BY TypeParts DEF Base, CacheOK, Drop
<1>2. \A k \in K : Waits(k) \subseteq Pending(K)
  BY <1>1, WaitsPending
<1>3. \A j \in Keys : Waits(j)' = IF j \in K THEN {} ELSE Waits(j)
  BY <1>1, WaitsDrop
<1> QED BY <1>1, <1>2, <1>3 DEF Settles

\* A call ends with packs dropped: nothing is handed out.
LEMMA DropEndSettles ==
  ASSUME Base, NEW K \in SUBSET Keys, NEW r \in Readers, Finish(r), UNCHANGED <<handed, told, mark>>,
         entries' = [k \in Held \ K |-> entries[k]], forgone \cup Pending(K) \cup answer[r].deltas \subseteq forgone'
  PROVE  Settles(K, {r}, {})
<1>1. EntriesOK /\ CallsOK
  BY TypeParts DEF Base, CacheOK
<1>2. \A k \in K : Waits(k) \subseteq Pending(K)
  BY <1>1, WaitsPending
<1>3. \A j \in Keys : Waits(j)' = IF j \in K THEN {} ELSE Waits(j)
  BY <1>1, WaitsDrop
<1>4. \A q \in Readers : answer'[q].deltas = IF q \in {r} THEN {} ELSE answer[q].deltas
  BY <1>1, AnswerGone
<1> QED BY <1>1, <1>2, <1>3, <1>4 DEF Settles

\* A call ends and leaves the cache as it was.
LEMMA EndSettles ==
  ASSUME Base, NEW r \in Readers, Finish(r), UNCHANGED <<entries, told, mark>>, forgone \subseteq forgone',
         NEW ds, ds \subseteq answer[r].deltas, answer[r].deltas \subseteq ds \cup forgone',
         \A x \in Changes : handed'[x] = IF x \in ds THEN handed[x] + 1 ELSE handed[x]
  PROVE  Settles({}, {r}, ds)
<1>1. \A j \in Keys : Waits(j)' = Waits(j)
  BY WaitsRest
<1>2. \A q \in Readers : answer'[q].deltas = IF q \in {r} THEN {} ELSE answer[q].deltas
  BY AnswerGone, TypeParts DEF Base
<1> QED BY <1>1, <1>2 DEF Settles

\* The deltas that wait in one entry are handed out; a call that ends there gives up its answer.
LEMMA HandOutSettles ==
  ASSUME Base, NEW k \in Held, entries' = HandOut(k), UNCHANGED <<told, mark>>, forgone \subseteq forgone',
         NEW R \in SUBSET Readers,
         \A q \in Readers : answer'[q].deltas = IF q \in R THEN {} ELSE answer[q].deltas,
         \A q \in R : answer[q].deltas \subseteq forgone',
         \A x \in Changes : handed'[x] = IF x \in entries[k].deltas THEN handed[x] + 1 ELSE handed[x]
  PROVE  Settles({k}, R, entries[k].deltas)
<1>1. EntriesOK /\ k \in Keys /\ Waits(k) = entries[k].deltas
  BY TypeParts DEF Base, CacheOK, EntriesOK, Waits
<1>2. \A j \in Keys : Waits(j)' = IF j \in {k} THEN {} ELSE Waits(j)
  BY <1>1, WaitsHandOut
<1> QED BY <1>1, <1>2 DEF Settles

\* absorb() for a caller: what waited and what came are handed out, or go with the pack replaced.
LEMMA AbsorbSettles ==
  ASSUME Base, NEW k \in Keys, NEW c \in Readers, NEW a \in Answers, a = answer[c], stage[c] = "answered",
         a.kind # "degraded", entries' = Put(k, Stored(k, a, c, TRUE)), a.kind = "pack" \/ k \in Held,
         forgone' = forgone \cup Replaced(k, a), Finish(c), UNCHANGED <<told, mark>>,
         \A x \in Changes : handed'[x] = IF x \in HandedOut(k, a) THEN handed[x] + 1 ELSE handed[x]
  PROVE  Settles({k}, {c}, HandedOut(k, a))
<1>1. EntriesOK /\ CallsOK /\ a.level \in Keys /\ read[c] \in Reads /\ a.kind \in {"pack", "same"}
  BY TypeParts, AnsweredOK DEF Base, CacheOK, Rounds, Answers
<1>2. Stored(k, a, c, TRUE) \in Entry
  BY <1>1, StoredOK
<1>3. Stored(k, a, c, TRUE).deltas = {}
  <2>1. CASE k \in Held /\ a.kind = "same"
    <3>1. Stored(k, a, c, TRUE) = [entries[k] EXCEPT !.age = "fresh", !.deltas = {}] /\ entries[k] \in Entry
      BY <1>1, <2>1 DEF Stored, EntriesOK
    <3> QED BY <3>1 DEF Entry
  <2>2. CASE ~(k \in Held /\ a.kind = "same")
    BY <2>2 DEF Stored
  <2> QED BY <2>1, <2>2
<1>4. \A j \in Keys : Waits(j)' = IF j \in {k} THEN {} ELSE Waits(j)
  BY <1>1, <1>2, <1>3, WaitsPut
<1>5. \A q \in Readers : answer'[q].deltas = IF q \in {c} THEN {} ELSE answer[q].deltas
  BY <1>1, AnswerGone
<1>6. HandedOut(k, a) \subseteq Waits(k) \cup a.deltas /\ a.deltas \subseteq HandedOut(k, a)
  BY DEF HandedOut, Waits
<1>7. Waits(k) \subseteq HandedOut(k, a) \cup forgone'
  BY <1>1 DEF HandedOut, Waits, Replaced
<1> QED BY <1>4, <1>5, <1>6, <1>7 DEF Settles

LEMMA DeltaCaller ==
  ASSUME Track, NEW c \in Callers, CallerStep(c)
  PROVE  \E K \in SUBSET Keys, R \in SUBSET Readers : \E ds : Settles(K, R, ds)
<1>0. /\ Base /\ EntriesOK /\ CallsOK /\ SessionOK /\ Rounds /\ handed \in [Changes -> Nat]
      /\ c \in Readers /\ Keys \subseteq Readers
  BY TypeParts, Apart DEF Track, Base, CacheOK, SessionOK
<1>10. PICK k \in Keys, a \in Answers : k = read[c].key /\ a = answer[c] /\ {k} \in SUBSET Keys
  BY <1>0, AnsweredOK
<1>11. {} \in SUBSET Keys /\ {} \in SUBSET Readers /\ {c} \in SUBSET Readers
  BY <1>0
<1>1. CASE FromCache(c)
  <2>1. /\ asks \in Held /\ entries' = HandOut(asks) /\ UNCHANGED <<answer, forgone, told, mark>>
        /\ handed' = [x \in Changes |-> IF x \in entries[asks].deltas THEN handed[x] + 1 ELSE handed[x]]
    BY <1>1 DEF FromCache, Live, Receive, server
  <2>2. asks \in Keys /\ {asks} \in SUBSET Keys
    BY <1>0 DEF SessionOK
  <2>3. \A x \in Changes : handed'[x] = IF x \in entries[asks].deltas THEN handed[x] + 1 ELSE handed[x]
    BY <2>1
  <2>4. \A q \in Readers : answer'[q].deltas = IF q \in {} THEN {} ELSE answer[q].deltas
    BY <2>1
  <2>5. Settles({asks}, {}, entries[asks].deltas)
    BY <1>0, <1>11, <2>1, <2>3, <2>4, HandOutSettles
  <2> QED BY <1>11, <2>2, <2>5
<1>2. CASE AskPinned(c)
  <2>1. {asks} \ {j \in Keys : Live(j)} \in SUBSET Keys
    BY <1>0 DEF SessionOK
  <2>2. Drop({asks} \ {j \in Keys : Live(j)}) /\ UNCHANGED <<answer, handed, told, mark>>
    BY <1>2 DEF AskPinned, session, server
  <2>3. Settles({asks} \ {j \in Keys : Live(j)}, {}, {})
    BY <1>0, <2>1, <2>2, DropSettles
  <2> QED BY <1>11, <2>1, <2>3
<1>3. CASE Absorbs(c)
  <2>1. /\ stage[c] = "answered" /\ a.kind # "degraded" /\ (a.kind = "pack" \/ k \in Held)
        /\ entries' = Put(k, Stored(k, a, c, TRUE)) /\ forgone' = forgone \cup Replaced(k, a)
        /\ handed' = [x \in Changes |-> IF x \in HandedOut(k, a) THEN handed[x] + 1 ELSE handed[x]]
        /\ Finish(c) /\ UNCHANGED <<told, mark>>
    BY <1>10, <1>3 DEF Absorbs, Receive, server
  <2>2. \A x \in Changes : handed'[x] = IF x \in HandedOut(k, a) THEN handed[x] + 1 ELSE handed[x]
    BY <2>1
  <2>3. Settles({k}, {c}, HandedOut(k, a))
    BY <1>0, <1>10, <2>1, <2>2, AbsorbSettles
  <2> QED BY <1>10, <1>11, <2>3
<1>4. CASE TakesLastGood(c) \/ (Fails(c) /\ Live(k))
  <2>1. /\ k \in Held /\ entries' = HandOut(k) /\ Finish(c) /\ UNCHANGED <<told, mark>>
        /\ handed' = [x \in Changes |-> IF x \in entries[k].deltas THEN handed[x] + 1 ELSE handed[x]]
        /\ forgone \subseteq forgone'
    BY <1>10, <1>4 DEF TakesLastGood, Fails, Live, Receive, server
  <2>2. \A q \in {c} : answer[q].deltas \subseteq forgone'
    <3>1. CASE TakesLastGood(c)
      BY <1>0, <3>1 DEF TakesLastGood, Rounds
    <3>2. CASE Fails(c) /\ Live(k)
      BY <1>10, <3>2 DEF Fails
    <3> QED BY <1>4, <3>1, <3>2
  <2>3. \A x \in Changes : handed'[x] = IF x \in entries[k].deltas THEN handed[x] + 1 ELSE handed[x]
    BY <2>1
  <2>4. \A q \in Readers : answer'[q].deltas = IF q \in {c} THEN {} ELSE answer[q].deltas
    BY <1>0, <2>1, AnswerGone
  <2>5. Settles({k}, {c}, entries[k].deltas)
    BY <1>0, <1>11, <2>1, <2>2, <2>3, <2>4, HandOutSettles
  <2> QED BY <1>10, <1>11, <2>5
<1>5. CASE TakesAsItIs(c)
  <2>1. /\ Finish(c) /\ UNCHANGED <<entries, forgone, told, mark>>
        /\ handed' = [x \in Changes |-> IF x \in answer[c].deltas THEN handed[x] + 1 ELSE handed[x]]
    BY <1>5 DEF TakesAsItIs, Receive, cache, server
  <2>2. \A x \in Changes : handed'[x] = IF x \in answer[c].deltas THEN handed[x] + 1 ELSE handed[x]
    BY <2>1
  <2>3. Settles({}, {c}, answer[c].deltas)
    BY <1>0, <2>1, <2>2, EndSettles
  <2> QED BY <1>11, <2>3
<1>6. CASE Fails(c) /\ ~Live(k)
  <2>1. /\ entries' = [x \in Held \ {k} |-> entries[x]] /\ forgone' = forgone \cup Pending({k}) \cup answer[c].deltas
        /\ Finish(c) /\ UNCHANGED <<handed, told, mark>>
    BY <1>10, <1>6 DEF Fails, ReceiveEmpty, server
  <2>2. Settles({k}, {c}, {})
    BY <1>0, <1>10, <2>1, DropEndSettles
  <2> QED BY <1>10, <1>11, <2>2
<1>7. CASE Denied(c)
  <2>1. PICK K \in SUBSET Keys : Drop(K)
    BY <1>10, <1>7 DEF Denied
  <2>2. Finish(c) /\ UNCHANGED <<handed, told, mark>> /\ answer[c].deltas = {}
    BY <1>0, <1>7 DEF Denied, ReceiveEmpty, server, Rounds, NoAnswer
  <2>3. Settles(K, {c}, {})
    BY <1>0, <2>1, <2>2, DropEndSettles DEF Drop
  <2> QED BY <1>11, <2>3
<1>8. CASE Verify(c) \/ End(c)
  <2>1. Drop(Keys) /\ UNCHANGED <<answer, handed, told, mark>>
    BY <1>8 DEF Verify, End, Purge, session, server, calls
  <2>2. Settles(Keys, {}, {})
    BY <1>0, <2>1, DropSettles
  <2> QED BY <1>11, <2>2
<1>9. CASE AskTurn(c) \/ Prove(c) \/ Verified(c) \/ VerifyFails(c)
  <2>1. UNCHANGED <<entries, forgone, answer, handed, told, mark>>
    <3>1. CASE AskTurn(c)
      BY <3>1 DEF AskTurn, cache, session, server
    <3>2. CASE Prove(c)
      BY <3>2 DEF Prove, cache, session
    <3>3. CASE Verified(c)
      BY <3>3 DEF Verified, cache, server
    <3>4. CASE VerifyFails(c)
      BY <3>4 DEF VerifyFails, cache, session
    <3> QED BY <1>9, <3>1, <3>2, <3>3, <3>4
  <2>2. Settles({}, {}, {})
    BY <2>1, WaitsRest DEF Settles
  <2> QED BY <1>11, <2>2
<1> QED BY <1>1, <1>2, <1>3, <1>4, <1>5, <1>6, <1>7, <1>8, <1>9 DEF CallerStep

\* A refresh that stores its answer moves the deltas from the answer to the entry.
LEMMA RefreshedTrack ==
  ASSUME Track, NEW k \in Keys, Refreshed(k)
  PROVE  OnePlace' /\ BeyondMark' /\ Followed' /\ DeltaOnce'
<1>0. /\ Base /\ EntriesOK /\ CallsOK /\ Rounds /\ k \in Readers /\ Keys \subseteq Readers /\ told \subseteq Changes
  BY TypeParts, Apart DEF Track, Base, CacheOK, ServerOK
<1>1. /\ stage[k] = "answered" /\ answer[k].kind # "degraded" /\ (answer[k].kind = "pack" \/ k \in Held)
      /\ entries' = Put(k, Stored(k, answer[k], k, FALSE)) /\ forgone' = forgone \cup Replaced(k, answer[k])
      /\ Finish(k) /\ UNCHANGED <<told, mark, handed>>
  BY DEF Refreshed, session, server
<1>2. PICK a \in Answers : a = answer[k] /\ a.level \in Keys /\ a.kind \in {"pack", "same"} /\ read[k] \in Reads
  BY <1>0, <1>1, AnsweredOK DEF Answers, Rounds
<1> DEFINE e == Stored(k, a, k, FALSE)
           same == k \in Held /\ (a.kind = "same" \/ entries[k].level = a.level)
<1>3. e \in Entry
  BY <1>0, <1>2, StoredOK
<1>4. e.deltas = (IF same THEN entries[k].deltas ELSE {}) \cup a.deltas
  <2>1. CASE k \in Held /\ a.kind = "same"
    <3>1. entries[k] \in Entry /\ e = [entries[k] EXCEPT !.age = "fresh",
                                        !.deltas = (IF same THEN entries[k].deltas ELSE {}) \cup a.deltas]
      BY <1>0, <2>1 DEF Stored, EntriesOK
    <3> QED BY <3>1 DEF Entry
  <2>2. CASE ~(k \in Held /\ a.kind = "same")
    BY <2>2 DEF Stored
  <2> QED BY <2>1, <2>2
<1>5. entries' = Put(k, e)
  BY <1>1, <1>2
<1> HIDE DEF e
<1>6. Waits(k)' = (IF same THEN entries[k].deltas ELSE {}) \cup a.deltas /\ \A j \in Keys : j # k => Waits(j)' = Waits(j)
  BY <1>0, <1>3, <1>4, <1>5, WaitsPut
<1>7. \A q \in Readers : answer'[q].deltas = IF q \in {k} THEN {} ELSE answer[q].deltas
  BY <1>0, <1>1, AnswerGone
<1>8. /\ Waits(k)' \subseteq Waits(k) \cup a.deltas /\ a.deltas \subseteq Waits(k)'
      /\ Waits(k) \subseteq Waits(k)' \cup forgone'
  <2>1. same => Waits(k) = entries[k].deltas
    BY DEF Waits
  <2>2. ~same => Waits(k) \subseteq forgone'
    BY <1>1, <1>2 DEF Waits, Replaced
  <2> QED BY <1>6, <2>1, <2>2
<1> HIDE DEF same
<1>9. ASSUME NEW x \in Changes
      PROVE  /\ Afloat(x)' => Afloat(x)
             /\ Afloat(x) => Afloat(x)' \/ x \in forgone'
  <2>1. Afloat(x)' => Afloat(x)
    BY <1>0, <1>2, <1>6, <1>7, <1>8 DEF Afloat
  <2>2. ASSUME Afloat(x), x \notin forgone' PROVE Afloat(x)'
    <3>1. CASE \E j \in Keys : x \in Waits(j)
      <4>1. \E j \in Keys : x \in Waits(j)'
        BY <1>6, <1>8, <2>2, <3>1
      <4> QED BY <4>1 DEF Afloat
    <3>2. CASE \E r \in Readers : x \in answer[r].deltas
      <4>1. PICK r \in Readers : x \in answer[r].deltas
        BY <3>2
      <4>2. CASE r = k
        BY <1>2, <1>8, <4>1, <4>2 DEF Afloat
      <4>3. CASE r # k
        BY <1>7, <4>1, <4>3 DEF Afloat
      <4> QED BY <4>2, <4>3
    <3> QED BY <2>2, <3>1, <3>2 DEF Afloat
  <2> QED BY <2>1, <2>2
<1>10. OnePlace'
  <2> SUFFICES ASSUME NEW x \in Changes
               PROVE  /\ \A j, l \in Keys : x \in Waits(j)' /\ x \in Waits(l)' => j = l
                      /\ \A r, q \in Readers : x \in answer'[r].deltas /\ x \in answer'[q].deltas => r = q
                      /\ \A j \in Keys, r \in Readers : ~(x \in Waits(j)' /\ x \in answer'[r].deltas)
                      /\ handed'[x] > 0 => ~Afloat(x)'
    BY DEF OnePlace
  <2>1. /\ \A j, l \in Keys : x \in Waits(j) /\ x \in Waits(l) => j = l
        /\ \A r, q \in Readers : x \in answer[r].deltas /\ x \in answer[q].deltas => r = q
        /\ \A j \in Keys, r \in Readers : ~(x \in Waits(j) /\ x \in answer[r].deltas)
        /\ handed[x] > 0 => ~Afloat(x)
    BY DEF Track, OnePlace
  <2>2. \A j \in Keys : x \in Waits(j)' => x \in Waits(j) \/ (j = k /\ x \in answer[k].deltas)
    BY <1>2, <1>6, <1>8
  <2>3. \A r \in Readers : x \in answer'[r].deltas => x \in answer[r].deltas /\ r # k
    BY <1>7
  <2>4. handed'[x] > 0 => ~Afloat(x)'
    BY <1>1, <1>9, <2>1
  <2> QED BY <1>0, <2>1, <2>2, <2>3, <2>4
<1>11. BeyondMark' /\ DeltaOnce'
  BY <1>1, <1>9 DEF Track, BeyondMark, DeltaOnce
<1>12. Followed'
  BY <1>0, <1>1, <1>9 DEF Track, Followed
<1> QED BY <1>10, <1>11, <1>12

\* The API's answer: it is told changes beyond the mark, and the mark goes past them.
LEMMA AnswerTrack ==
  ASSUME Track, NEW r \in Readers, Answer(r)
  PROVE  OnePlace' /\ BeyondMark' /\ Followed' /\ DeltaOnce' /\ Watermarks'
<1>0. /\ Base /\ ServerOK /\ CallsOK /\ Rounds /\ Watermarks
      /\ mark \in Nat /\ written \in Nat /\ mark <= written /\ told \subseteq Changes
  BY TypeParts DEF Track, Base, ServerOK, Watermarks
<1>1. PICK a \in Answers :
        /\ stage[r] = "asked"
        /\ pins' = [pins EXCEPT ![AnswersAt(r)] = UpTo(r)]
        /\ mark' = (IF read[r].delta THEN written ELSE Max2(mark, UpTo(r)))
        /\ told' = told \cup News(r) /\ News(r) \subseteq Changes
        /\ AnswersAt(r) \in Keys \X Keys /\ UpTo(r) \in 0..MaxChanges
        /\ answer' = [answer EXCEPT ![r] = a] /\ a.deltas = News(r)
        /\ UNCHANGED <<written, cache, session>>
  BY <1>0, AnswerEffect
<1>2. UpTo(r) \in Nat /\ UpTo(r) <= written
  BY <1>0, <1>1 DEF UpTo, Watermarks
<1>3. mark <= mark' /\ mark' <= written /\ mark' \in Nat
  BY <1>0, <1>1, <1>2 DEF Max2
<1>4. \A x \in News(r) : x \in Changes /\ x > mark /\ ~(x > mark')
  <2> SUFFICES ASSUME NEW x \in News(r) PROVE x > mark /\ ~(x > mark')
    BY <1>1
  <2>1. read[r].delta /\ x \in (Max2(mark, UpTo(r)) + 1)..written
    BY DEF News
  <2> QED BY <1>0, <1>1, <1>2, <2>1 DEF Max2
<1>5. UNCHANGED <<entries, forgone, handed>> /\ \A k \in Keys : Waits(k)' = Waits(k)
  BY <1>1, WaitsRest DEF cache, session
<1>6. \A q \in Readers : answer'[q].deltas = IF q = r THEN News(r) ELSE answer[q].deltas
  BY <1>0, <1>1 DEF CallsOK
<1>7. answer[r].deltas = {}
  BY <1>0, <1>1 DEF Rounds, NoAnswer
<1>8. ASSUME NEW x \in Changes
      PROVE  /\ x \in News(r) => Afloat(x)' /\ ~Afloat(x) /\ handed[x] = 0 /\ x \notin told
             /\ x \notin News(r) => (Afloat(x)' <=> Afloat(x))
  <2>1. CASE x \in News(r)
    <3>1. ~Afloat(x) /\ handed[x] = 0 /\ x \notin told
      BY <1>4, <2>1 DEF Track, BeyondMark
    <3>2. Afloat(x)'
      BY <1>6, <2>1 DEF Afloat
    <3> QED BY <2>1, <3>1, <3>2
  <2>2. CASE x \notin News(r)
    <3>1. \A q \in Readers : x \in answer'[q].deltas <=> x \in answer[q].deltas
      BY <1>6, <1>7, <2>2
    <3> QED BY <1>5, <2>2, <3>1 DEF Afloat
  <2> QED BY <2>1, <2>2
<1>9. OnePlace'
  <2> SUFFICES ASSUME NEW x \in Changes
               PROVE  /\ \A j, l \in Keys : x \in Waits(j)' /\ x \in Waits(l)' => j = l
                      /\ \A p, q \in Readers : x \in answer'[p].deltas /\ x \in answer'[q].deltas => p = q
                      /\ \A j \in Keys, q \in Readers : ~(x \in Waits(j)' /\ x \in answer'[q].deltas)
                      /\ handed'[x] > 0 => ~Afloat(x)'
    BY DEF OnePlace
  <2>1. /\ \A j, l \in Keys : x \in Waits(j) /\ x \in Waits(l) => j = l
        /\ \A p, q \in Readers : x \in answer[p].deltas /\ x \in answer[q].deltas => p = q
        /\ \A j \in Keys, q \in Readers : ~(x \in Waits(j) /\ x \in answer[q].deltas)
        /\ handed[x] > 0 => ~Afloat(x)
    BY DEF Track, OnePlace
  <2>2. CASE x \in News(r)
    <3>1. (\A j \in Keys : x \notin Waits(j)) /\ (\A q \in Readers : x \notin answer[q].deltas) /\ handed[x] = 0
      BY <1>8, <2>2 DEF Afloat
    <3> QED BY <1>5, <1>6, <3>1
  <2>3. CASE x \notin News(r)
    <3>1. \A q \in Readers : x \in answer'[q].deltas => x \in answer[q].deltas
      BY <1>6, <2>3
    <3> QED BY <1>5, <1>8, <2>1, <2>3, <3>1
  <2> QED BY <2>2, <2>3
<1>10. BeyondMark'
  <2> SUFFICES ASSUME NEW x \in Changes, x > mark' PROVE handed'[x] = 0 /\ x \notin told' /\ ~Afloat(x)'
    BY DEF BeyondMark
  <2>1. x > mark /\ x \notin News(r)
    BY <1>0, <1>3, <1>4 DEF Changes
  <2>2. handed[x] = 0 /\ x \notin told /\ ~Afloat(x)
    BY <2>1 DEF Track, BeyondMark
  <2> QED BY <1>1, <1>5, <1>8, <2>1, <2>2
<1>11. Followed'
  <2> SUFFICES ASSUME NEW x \in told' PROVE handed'[x] > 0 \/ x \in forgone' \/ Afloat(x)'
    BY DEF Followed
  <2>1. x \in Changes /\ (x \in News(r) \/ x \in told)
    BY <1>0, <1>1
  <2> QED BY <1>5, <1>8, <2>1 DEF Track, Followed
<1>12. DeltaOnce'
  BY <1>5 DEF Track, DeltaOnce
<1>13. Watermarks'
  <2>1. \A p \in Keys \X Keys : pins'[p] = IF p = AnswersAt(r) THEN UpTo(r) ELSE pins[p]
    BY <1>0, <1>1 DEF ServerOK
  <2> QED BY <1>0, <1>1, <1>2, <1>3, <2>1 DEF Watermarks
<1> QED BY <1>9, <1>10, <1>11, <1>12, <1>13

LEMMA DeltaRefresh ==
  ASSUME Track, NEW k \in Keys, RefreshStep(k)
  PROVE  OnePlace' /\ BeyondMark' /\ Followed' /\ DeltaOnce'
<1>0. /\ Base /\ EntriesOK /\ CallsOK /\ Rounds /\ k \in Readers /\ {k} \in SUBSET Keys /\ {k} \in SUBSET Readers
      /\ {} \in SUBSET Keys /\ {} \in SUBSET Readers
  BY TypeParts, Apart DEF Track, Base, CacheOK
<1>1. CASE StartRefresh(k)
  <2>1. UNCHANGED <<entries, forgone, answer, handed, told, mark>>
    BY <1>1 DEF StartRefresh, cache, session, server
  <2>2. Settles({}, {}, {})
    BY <2>1, WaitsRest DEF Settles
  <2> QED BY <1>0, <2>2, SettleTrack
<1>2. CASE Refreshed(k)
  BY <1>2, RefreshedTrack
<1>3. CASE RefreshIgnored(k)
  <2>1. /\ forgone' = forgone \cup answer[k].deltas /\ Finish(k) /\ UNCHANGED <<entries, told, mark, handed>>
    BY <1>3 DEF RefreshIgnored, session, server
  <2>2. Settles({}, {k}, {})
    BY <1>0, <2>1, EndSettles
  <2> QED BY <1>0, <2>2, SettleTrack
<1>4. CASE RefreshFails(k)
  <2>1. Finish(k) /\ UNCHANGED <<told, mark, handed>>
    BY <1>4 DEF RefreshFails, session, server
  <2>2. CASE UNCHANGED entries /\ forgone' = forgone \cup answer[k].deltas
    <3>1. Settles({}, {k}, {})
      BY <1>0, <2>1, <2>2, EndSettles
    <3> QED BY <1>0, <3>1, SettleTrack
  <2>3. CASE stage[k] = "asked" /\ \E K \in {{k}, Keys} : Drop(K)
    <3>1. PICK K \in SUBSET Keys : Drop(K)
      BY <2>3
    <3>2. answer[k].deltas = {}
      BY <1>0, <2>3 DEF Rounds, NoAnswer
    <3>3. Settles(K, {k}, {})
      BY <1>0, <2>1, <3>1, <3>2, DropEndSettles DEF Drop
    <3> QED BY <1>0, <3>3, SettleTrack
  <2> QED BY <1>4, <2>2, <2>3 DEF RefreshFails
<1> QED BY <1>1, <1>2, <1>3, <1>4 DEF RefreshStep

LEMMA DeltaStep == Track /\ [Next]_vars => Track'
<1> SUFFICES ASSUME Track, [Next]_vars PROVE Track'
  OBVIOUS
<1>0. /\ Base /\ Base' /\ EntriesOK /\ CallsOK /\ ServerOK
      /\ {} \in SUBSET Keys /\ {} \in SUBSET Readers /\ Rounds
  BY TypeParts, BaseStep DEF Track, Base, CacheOK
<1>1. ASSUME UNCHANGED <<mark, written, pins>> PROVE Watermarks'
  BY <1>1 DEF Track, Watermarks
<1>2. ASSUME NEW c \in Callers, CallerStep(c) PROVE Track'
  <2>1. OnePlace' /\ BeyondMark' /\ Followed' /\ DeltaOnce'
    BY <1>2, DeltaCaller, SettleTrack
  <2>2. UNCHANGED <<mark, written, pins>>
    <3>1. CASE Prove(c) \/ VerifyFails(c)
      BY <3>1 DEF Prove, VerifyFails
    <3>2. CASE ~(Prove(c) \/ VerifyFails(c))
      BY <1>2, <3>2 DEF CallerStep, FromCache, AskPinned, AskTurn, Absorbs, TakesLastGood, TakesAsItIs, Fails,
                        Denied, Verify, Verified, End, server
    <3> QED BY <3>1, <3>2
  <2> QED BY <1>0, <1>1, <2>1, <2>2 DEF Track
<1>3. ASSUME NEW k \in Keys, RefreshStep(k) PROVE Track'
  <2>1. UNCHANGED <<mark, written, pins>>
    BY <1>3 DEF RefreshStep, StartRefresh, Refreshed, RefreshIgnored, RefreshFails, server
  <2> QED BY <1>0, <1>1, <1>3, <2>1, DeltaRefresh DEF Track
<1>4. ASSUME NEW r \in Readers, Answer(r) PROVE Track'
  BY <1>0, <1>4, AnswerTrack DEF Track
\* A step that leaves the deltas where they are.
<1>5. ASSUME \A k \in Keys : Waits(k)' = Waits(k), \A r \in Readers : answer'[r].deltas = answer[r].deltas,
             UNCHANGED <<forgone, handed, told, mark>>
      PROVE  OnePlace' /\ BeyondMark' /\ Followed' /\ DeltaOnce'
  <2>1. Settles({}, {}, {})
    BY <1>5 DEF Settles
  <2> QED BY <1>0, <2>1, SettleTrack
<1>6. ASSUME NEW r \in Readers, AnswerDegraded(r) PROVE Track'
  <2>1. stage[r] = "asked" /\ UNCHANGED <<entries, forgone, handed, told, mark, written, pins>>
    BY <1>6 DEF AnswerDegraded, cache, session, server
  <2>2. answer' = [answer EXCEPT ![r] = [kind |-> "degraded", level |-> Poor, deltas |-> {}]] /\ answer[r].deltas = {}
    BY <1>0, <1>6, <2>1 DEF AnswerDegraded, Rounds, NoAnswer
  <2>3. \A q \in Readers : answer'[q].deltas = answer[q].deltas
    BY <1>0, <2>2 DEF CallsOK
  <2> QED BY <1>0, <1>1, <1>5, <2>1, <2>3, WaitsRest DEF Track
<1>7. ASSUME NEW k \in Keys, Age(k) PROVE Track'
  <2>1. UNCHANGED <<answer, forgone, handed, told, mark, written, pins>>
    BY <1>7 DEF Age, calls, session, server
  <2>2. \A j \in Keys : Waits(j)' = Waits(j)
    BY <1>0, <1>7, AgeEffect DEF Waits
  <2> QED BY <1>0, <1>1, <1>5, <2>1, <2>2 DEF Track
<1>8. ASSUME NEW k \in Keys, Evict(k) PROVE Track'
  <2>1. Drop({k}) /\ UNCHANGED <<answer, handed, told, mark, written, pins>> /\ {k} \in SUBSET Keys
    BY <1>8 DEF Evict, calls, session, server
  <2>2. Settles({k}, {}, {})
    BY <1>0, <2>1, DropSettles
  <2> QED BY <1>0, <1>1, <2>1, <2>2, SettleTrack DEF Track
<1>9. CASE Change \/ ProveLater \/ UNCHANGED vars
  <2>1. UNCHANGED <<entries, answer, forgone, handed, told, mark, pins>> /\ written' \in {written, written + 1}
    BY <1>9 DEF Change, ProveLater, cache, calls, session, vars, server
  <2>2. Watermarks'
    <3>1. mark \in Nat /\ written \in Nat /\ mark <= written
      BY <1>0 DEF Track, Watermarks, ServerOK
    <3>2. \A p \in Keys \X Keys : pins[p] \in Int /\ pins[p] <= written
      BY <1>0 DEF Track, Watermarks, ServerOK, NoPack
    <3> QED BY <2>1, <3>1, <3>2 DEF Watermarks
  <2> QED BY <1>0, <1>5, <2>1, <2>2, WaitsRest DEF Track
<1> QED BY <1>2, <1>3, <1>4, <1>6, <1>7, <1>8, <1>9 DEF Next

LEMMA DeltaInit == Init => Track
<1> SUFFICES ASSUME Init PROVE Track
  OBVIOUS
<1>1. \A k \in Keys : Waits(k) = {}
  BY DEF Init, Waits, Held
<1>2. \A r \in Readers : answer[r].deltas = {}
  BY DEF Init, NoAnswer
<1>3. \A x \in Changes : ~Afloat(x) /\ handed[x] = 0
  BY <1>1, <1>2 DEF Afloat, Init
<1>4. OnePlace /\ BeyondMark /\ Followed /\ DeltaOnce
  BY <1>1, <1>2, <1>3 DEF Init, OnePlace, BeyondMark, Followed, DeltaOnce
<1>5. Watermarks
  <2>1. \A p \in Keys \X Keys : pins[p] = NoPack
    BY DEF Init
  <2> QED BY <2>1 DEF Init, Watermarks, NoPack
<1> QED BY <1>4, <1>5, BaseInit DEF Track

LEMMA TrackKept == Track => DeltaKept
<1> SUFFICES ASSUME Track, NEW x \in told
             PROVE  \/ handed[x] > 0 \/ x \in forgone \cup Pending(Keys)
                    \/ \E r \in Readers : x \in answer[r].deltas
  BY DEF DeltaKept
<1>1. EntriesOK
  BY TypeParts DEF Track, Base, CacheOK
<1>2. \A k \in Keys : x \in Waits(k) => x \in Pending(Keys)
  BY <1>1, WaitsPending
<1> QED BY <1>2 DEF Track, Followed, Afloat

\* An agent is told of a change at most once, whichever of a call and a refresh got its delta and
\* however their answers cross with purges, failures and evictions (ContextCache.absorb, hand_out).
THEOREM DeltasOnce == Spec => []DeltaOnce
<1>1. Track => DeltaOnce
  BY DEF Track
<1> QED BY <1>1, DeltaInit, DeltaStep, PTL DEF Spec

\* A delta the API has sent, and will not send again, is in one place until it is handed out or
\* goes with its pack or a call that failed (ContextCache.put_refreshed, absorb).
THEOREM DeltasKept == Spec => []DeltaKept
BY TrackKept, DeltaInit, DeltaStep, PTL DEF Spec
-----------------------------------------------------------------------------
(* A verification acknowledged is seen by every read called after it. *)

\* What holds of a conversation created at level 0. Its cache key becomes 1 only when the level
\* is proved, so nothing asked for under key 1 was answered or stored at level 0.
Raised ==
  /\ \A c \in Callers : stage[c] = "proved" => proven = 1
  /\ \A k \in Keys : stage[k] # "idle" => read[k].key = k
  /\ created = 0 =>
       /\ acked => asks = 1
       /\ asks = 1 => proven = 1
       /\ 1 \in Held => entries[1].level # 0
       /\ \A r \in Readers :
            /\ read[r].acked => read[r].key = 1
            /\ read[r].key = 1 => proven = 1 /\ answer[r].level # 0
       /\ SeesLevel

\* What a step does to the call of a reader: it moves on, ends or begins.
MovesOn(r) ==
  /\ read'[r].key = read[r].key /\ read'[r].acked = read[r].acked
  /\ answer'[r].level \in {answer[r].level, Poor, Min2(read[r].key, proven)}
  /\ r \in Keys /\ stage'[r] # "idle" => stage[r] # "idle"
Ends(r)   == read'[r] = NoRead /\ answer'[r] = NoAnswer /\ stage'[r] = "idle"
Begins(r) == /\ read'[r].key = asks /\ read'[r].acked = acked /\ answer'[r].level = NoPack
             /\ r \in Keys => r = asks

LEMMA RaisedStep ==
  ASSUME Base, Raised, created' = created, proven = 1 => proven' = 1,
         UNCHANGED <<asks, acked>> \/ (asks' = 1 /\ acked' = TRUE /\ proven = 1),
         \A c \in Callers : stage'[c] = "proved" => stage[c] = "proved" \/ proven' = 1,
         \A r \in Readers : MovesOn(r) \/ Ends(r) \/ Begins(r),
         created = 0 /\ 1 \in Held' => entries'[1].level # 0,
         created = 0 => \A c \in Callers : result'[c] = result[c] \/ (result'[c].acked => result'[c].level # 0)
  PROVE  Raised'
<1>0. Keys \subseteq Readers
  BY Apart
<1>1. \A c \in Callers : stage'[c] = "proved" => proven' = 1
  BY DEF Raised
<1>2. \A k \in Keys : stage'[k] # "idle" => read'[k].key = k
  BY <1>0 DEF Raised, MovesOn, Ends, Begins
<1>3. ASSUME created' = 0
      PROVE  /\ acked' => asks' = 1
             /\ asks' = 1 => proven' = 1
             /\ 1 \in Held' => entries'[1].level # 0
             /\ \A r \in Readers : /\ read'[r].acked => read'[r].key = 1
                                   /\ read'[r].key = 1 => proven' = 1 /\ answer'[r].level # 0
             /\ SeesLevel'
  <2>1. (acked' => asks' = 1) /\ (asks' = 1 => proven' = 1)
    BY <1>3 DEF Raised
  <2>2. ASSUME NEW r \in Readers
        PROVE  /\ read'[r].acked => read'[r].key = 1
               /\ read'[r].key = 1 => proven' = 1 /\ answer'[r].level # 0
    <3>1. /\ read[r].acked => read[r].key = 1
          /\ read[r].key = 1 => proven = 1 /\ answer[r].level # 0
          /\ (acked => asks = 1) /\ (asks = 1 => proven = 1)
      BY <1>3 DEF Raised
    <3>2. CASE MovesOn(r)
      BY <3>1, <3>2 DEF MovesOn, Poor, Min2
    <3>3. CASE Ends(r)
      BY <3>3 DEF Ends, NoRead
    <3>4. CASE Begins(r)
      BY <3>1, <3>4 DEF Begins, NoPack
    <3> QED BY <3>2, <3>3, <3>4
  <2>3. SeesLevel'
    BY <1>3 DEF Raised, SeesLevel
  <2> QED BY <1>3, <2>1, <2>2, <2>3
<1> QED BY <1>1, <1>2, <1>3 DEF Raised

LEMMA RaisedInit == Init => Raised
<1> SUFFICES ASSUME Init PROVE Raised
  OBVIOUS
<1>1. \A k \in Readers : stage[k] = "idle" /\ read[k] = NoRead /\ answer[k] = NoAnswer
  BY DEF Init
<1>2. Held = {}
  BY DEF Init, Held
<1>3. SeesLevel
  BY DEF Init, SeesLevel
<1> QED BY <1>1, <1>2, <1>3, Apart DEF Init, Raised, NoRead

\* A call that ends while the others stand.
LEMMA EndMoves ==
  ASSUME CallsOK, NEW r \in Readers, Finish(r)
  PROVE  /\ \A q \in Readers : MovesOn(q) \/ Ends(q)
         /\ \A c \in Callers : stage'[c] = "proved" => stage[c] = "proved"
<1>1. /\ stage'[r] = "idle" /\ read'[r] = NoRead /\ answer'[r] = NoAnswer
      /\ \A q \in Readers : q # r => stage'[q] = stage[q] /\ read'[q] = read[q] /\ answer'[q] = answer[q]
  BY FinishEffect
<1>2. Callers \subseteq Readers
  BY Apart
<1> QED BY <1>1, <1>2 DEF MovesOn, Ends

\* A step of one reader that leaves the requests and the answers.
LEMMA StageMoves ==
  ASSUME CallsOK, NEW r \in Readers, NEW l \in Stages, stage' = [stage EXCEPT ![r] = l],
         r \in Keys => stage[r] # "idle",
         \A q \in Readers : read'[q].key = read[q].key /\ read'[q].acked = read[q].acked, UNCHANGED answer
  PROVE  /\ \A q \in Readers : MovesOn(q)
         /\ \A c \in Callers : stage'[c] = "proved" => stage[c] = "proved" \/ l = "proved"
<1>1. stage'[r] = l /\ \A q \in Readers : q # r => stage'[q] = stage[q]
  BY DEF CallsOK
<1>2. Callers \subseteq Readers
  BY Apart
<1> QED BY <1>1, <1>2 DEF MovesOn

LEMMA RestMoves ==
  ASSUME UNCHANGED <<stage, read, answer>>
  PROVE  (\A q \in Readers : MovesOn(q)) /\ \A c \in Callers : stage'[c] = stage[c]
BY DEF MovesOn

\* What a caller is served by a call that knew of the verification is of the level it asked for.
LEMMA ServedSees ==
  ASSUME SessionOK, NEW c \in Callers, NEW level, NEW seen, Served(c, level, seen), seen => level # 0
  PROVE  \A d \in Callers : result'[d] = result[d] \/ (result'[d].acked => result'[d].level # 0)
BY DEF Served, SessionOK

\* Packs that stay as they are, or go, are of the level they were of.
LEMMA LevelRests ==
  ASSUME Base, Raised, \A k \in Held' : k \in Held /\ entries'[k].level = entries[k].level
  PROVE  created = 0 /\ 1 \in Held' => entries'[1].level # 0
BY DEF Raised

LEMMA LevelDrop ==
  ASSUME Base, Raised, NEW K \in SUBSET Keys, entries' = [k \in Held \ K |-> entries[k]]
  PROVE  created = 0 /\ 1 \in Held' => entries'[1].level # 0
<1>1. Held' = Held \ K /\ \A x \in Held' : entries'[x] = entries[x]
  BY DropEffect, TypeParts DEF Base, CacheOK
<1> QED BY <1>1, LevelRests

LEMMA LevelHandOut ==
  ASSUME Base, Raised, NEW k \in Held, entries' = HandOut(k)
  PROVE  created = 0 /\ 1 \in Held' => entries'[1].level # 0
<1>1. /\ Held' = Held /\ entries'[k].level = entries[k].level
      /\ \A x \in Held : x # k => entries'[x] = entries[x]
  BY HandOutEffect, TypeParts DEF Base, CacheOK
<1> QED BY <1>1, LevelRests

LEMMA LevelRest ==
  ASSUME Base, Raised, UNCHANGED entries
  PROVE  created = 0 /\ 1 \in Held' => entries'[1].level # 0
BY DEF Raised, Held

\* absorb() of an answer for key 1 stores a pack of level 1, or keeps the one there.
LEMMA LevelPut ==
  ASSUME Base, Raised, NEW k \in Keys, NEW r \in Readers, NEW deliver \in BOOLEAN, NEW a \in Answers,
         stage[r] = "answered", a = answer[r], a.kind # "degraded", read[r].key = k,
         entries' = Put(k, Stored(k, a, r, deliver))
  PROVE  created = 0 /\ 1 \in Held' => entries'[1].level # 0
<1>0. EntriesOK /\ a.level \in Keys /\ read[r] \in Reads
  BY TypeParts, AnsweredOK DEF Base, CacheOK
<1> DEFINE e  == Stored(k, a, r, deliver)
           ds == IF deliver THEN {}
                 ELSE (IF k \in Held /\ (a.kind = "same" \/ entries[k].level = a.level) THEN entries[k].deltas ELSE {})
                      \cup a.deltas
<1>1. e \in Entry
  BY <1>0, StoredOK
<1>2. e.level = (IF k \in Held /\ a.kind = "same" THEN entries[k].level ELSE a.level)
  <2>1. CASE k \in Held /\ a.kind = "same"
    <3>1. e = [entries[k] EXCEPT !.age = "fresh", !.deltas = ds] /\ entries[k] \in Entry
      BY <1>0, <2>1 DEF Stored, EntriesOK
    <3> HIDE DEF e, ds
    <3> QED BY <2>1, <3>1 DEF Entry
  <2>2. CASE ~(k \in Held /\ a.kind = "same")
    BY <2>2 DEF Stored
  <2> QED BY <2>1, <2>2
<1>3. entries' = Put(k, e)
  OBVIOUS
<1> HIDE DEF e, ds
<1>4. /\ Held' = Held \cup {k} /\ entries'[k] = e
      /\ \A x \in Held : x # k => entries'[x] = entries[x]
  BY <1>0, <1>1, <1>3, PutEffect
<1>5. SUFFICES ASSUME created = 0, 1 \in Held' PROVE entries'[1].level # 0
  OBVIOUS
<1>6. CASE k = 1
  <2>1. a.level # 0
    BY <1>5, <1>6 DEF Raised
  <2>2. k \in Held => entries[k].level # 0
    BY <1>5, <1>6 DEF Raised
  <2> QED BY <1>2, <1>4, <1>6, <2>1, <2>2
<1>7. CASE k # 1
  BY <1>4, <1>5, <1>7 DEF Raised
<1> QED BY <1>6, <1>7

LEMMA RaisedCaller ==
  ASSUME Base, Raised, NEW c \in Callers, CallerStep(c)
  PROVE  Raised'
<1>0. /\ EntriesOK /\ CallsOK /\ SessionOK /\ Rounds /\ c \in Readers /\ c \notin Keys /\ Keys \subseteq Readers
      /\ asks \in Keys
  BY TypeParts, Apart DEF Base, CacheOK, SessionOK
<1>10. PICK k \in Keys, a \in Answers : k = read[c].key /\ a = answer[c] /\ {k} \in SUBSET Keys
  BY <1>0, AnsweredOK
\* What the request of the caller knew.
<1>11. created = 0 => /\ acked => asks = 1
                      /\ read[c].acked => k = 1
                      /\ k = 1 => a.level # 0
                      /\ 1 \in Held => entries[1].level # 0
  BY <1>0, <1>10 DEF Raised
<1>1. CASE FromCache(c)
  <2>1. /\ asks \in Held /\ entries' = HandOut(asks) /\ UNCHANGED <<answer, asks, acked, created, proven>>
        /\ Served(c, entries[asks].level, acked)
    BY <1>1 DEF FromCache, Live, Receive, server
  <2>2. created = 0 => \A d \in Callers : result'[d] = result[d] \/ (result'[d].acked => result'[d].level # 0)
    BY <1>0, <1>11, <2>1, ServedSees
  <2>3. created = 0 /\ 1 \in Held' => entries'[1].level # 0
    BY <2>1, LevelHandOut
  <2>4. CASE UNCHANGED <<stage, read>>
    BY <2>1, <2>2, <2>3, <2>4, RestMoves, RaisedStep
  <2>5. CASE /\ asks \notin refreshing /\ stage' = [stage EXCEPT ![asks] = "queued"]
             /\ read' = [read EXCEPT ![asks] = Request(asks, NoPack)]
    <3>1. stage[asks] = "idle" /\ answer[asks] = NoAnswer
      BY <1>0, <2>5 DEF Rounds
    <3>2. read'[asks] = Request(asks, NoPack) /\ \A q \in Readers : q # asks => read'[q] = read[q] /\ stage'[q] = stage[q]
      BY <1>0, <2>5 DEF CallsOK
    <3>3. Begins(asks) /\ \A q \in Readers : q # asks => MovesOn(q)
      BY <2>1, <3>1, <3>2 DEF Begins, MovesOn, Request, NoAnswer
    <3>4. \A d \in Callers : stage'[d] = stage[d]
      BY <1>0, <3>2, Apart
    <3> QED BY <2>1, <2>2, <2>3, <3>3, <3>4, RaisedStep
  <2> QED BY <1>1, <2>4, <2>5 DEF FromCache
<1>2. CASE AskPinned(c) \/ AskTurn(c)
  <2>1. /\ stage[c] = "idle" /\ stage' = [stage EXCEPT ![c] = "asked"]
        /\ UNCHANGED <<answer, asks, acked, created, proven, result>>
    BY <1>2 DEF AskPinned, AskTurn, Free, session, server
  <2>2. PICK n : read' = [read EXCEPT ![c] = Request(asks, n)]
    BY <1>2 DEF AskPinned, AskTurn
  <2>3. answer[c] = NoAnswer
    BY <1>0, <2>1 DEF Rounds
  <2>4. /\ read'[c] = Request(asks, n) /\ stage'[c] = "asked"
        /\ \A q \in Readers : q # c => read'[q] = read[q] /\ stage'[q] = stage[q]
    BY <1>0, <2>1, <2>2 DEF CallsOK
  <2>5. Begins(c) /\ \A q \in Readers : q # c => MovesOn(q)
    BY <1>0, <2>1, <2>3, <2>4 DEF Begins, MovesOn, Request, NoAnswer
  <2>6. \A d \in Callers : stage'[d] = "proved" => stage[d] = "proved"
    BY <2>4, Apart
  <2>7. created = 0 /\ 1 \in Held' => entries'[1].level # 0
    <3>1. CASE AskPinned(c)
      <4>1. {asks} \ {x \in Keys : Live(x)} \in SUBSET Keys
        BY <1>0
      <4> QED BY <3>1, <4>1, LevelDrop DEF AskPinned, Drop
    <3>2. CASE AskTurn(c)
      BY <3>2, LevelRest DEF AskTurn, cache
    <3> QED BY <1>2, <3>1, <3>2
  <2> QED BY <2>1, <2>5, <2>6, <2>7, RaisedStep
\* A read ends: what it serves is of its key.
<1>3. ASSUME Finish(c), UNCHANGED <<asks, acked, created, proven>>,
             NEW level, Served(c, level, read[c].acked), created = 0 /\ k = 1 => level # 0,
             created = 0 /\ 1 \in Held' => entries'[1].level # 0
      PROVE  Raised'
  <2>1. created = 0 => \A d \in Callers : result'[d] = result[d] \/ (result'[d].acked => result'[d].level # 0)
    BY <1>0, <1>3, <1>11, ServedSees
  <2> QED BY <1>0, <1>3, <2>1, EndMoves, RaisedStep
<1>4. CASE Absorbs(c)
  <2>1. /\ stage[c] = "answered" /\ a.kind # "degraded" /\ (a.kind = "pack" \/ k \in Held)
        /\ entries' = Put(k, Stored(k, a, c, TRUE)) /\ Finish(c) /\ UNCHANGED <<asks, acked, created, proven>>
        /\ Served(c, IF a.kind = "same" THEN entries[k].level ELSE a.level, read[c].acked)
    BY <1>10, <1>4 DEF Absorbs, Receive, server
  <2>2. a.kind = "same" => k \in Held
    BY <2>1
  <2>3. created = 0 /\ k = 1 => (IF a.kind = "same" THEN entries[k].level ELSE a.level) # 0
    BY <1>11, <2>2
  <2>4. created = 0 /\ 1 \in Held' => entries'[1].level # 0
    BY <1>0, <1>10, <2>1, LevelPut
  <2> QED BY <1>3, <2>1, <2>3, <2>4
<1>5. CASE TakesLastGood(c) \/ (Fails(c) /\ Live(k))
  <2>1. /\ k \in Held /\ entries' = HandOut(k) /\ Finish(c) /\ UNCHANGED <<asks, acked, created, proven>>
        /\ Served(c, entries[k].level, read[c].acked)
    BY <1>10, <1>5 DEF TakesLastGood, Fails, Live, Receive, server
  <2>2. created = 0 /\ 1 \in Held' => entries'[1].level # 0
    BY <2>1, LevelHandOut
  <2> QED BY <1>3, <1>11, <2>1, <2>2
<1>6. CASE TakesAsItIs(c)
  <2>1. /\ UNCHANGED entries /\ Finish(c) /\ UNCHANGED <<asks, acked, created, proven>>
        /\ Served(c, a.level, read[c].acked)
    BY <1>10, <1>6 DEF TakesAsItIs, Receive, server, cache
  <2> QED BY <1>3, <1>11, <2>1, LevelRest
<1>7. CASE (Fails(c) /\ ~Live(k)) \/ Denied(c)
  <2>1. Finish(c) /\ UNCHANGED <<asks, acked, created, proven>> /\ Served(c, NoPack, read[c].acked)
    BY <1>10, <1>7 DEF Fails, Denied, ReceiveEmpty, server
  <2>2. PICK K \in SUBSET Keys : entries' = [x \in Held \ K |-> entries[x]]
    BY <1>10, <1>7 DEF Fails, Denied, Drop
  <2>3. created = 0 /\ 1 \in Held' => entries'[1].level # 0
    BY <2>2, LevelDrop
  <2>4. NoPack # 0
    BY DEF NoPack
  <2> QED BY <1>3, <2>1, <2>3, <2>4
<1>8. CASE Verify(c)
  <2>1. /\ stage' = [stage EXCEPT ![c] = "proving"] /\ UNCHANGED <<read, answer, asks, acked, created, proven, result>>
        /\ entries' = [x \in Held \ Keys |-> entries[x]] /\ "proving" \in Stages
    BY <1>8 DEF Verify, Purge, Drop, session, server, Stages
  <2>2. created = 0 /\ 1 \in Held' => entries'[1].level # 0
    BY <2>1, LevelDrop
  <2> QED BY <1>0, <2>1, <2>2, StageMoves, RaisedStep
<1>9. CASE Prove(c)
  <2>1. /\ stage' = [stage EXCEPT ![c] = "proved"] /\ UNCHANGED <<read, answer, asks, acked, created, result, entries>>
        /\ proven' = 1 /\ "proved" \in Stages
    BY <1>9 DEF Prove, session, cache, Stages
  <2> QED BY <1>0, <2>1, LevelRest, StageMoves, RaisedStep
<1>12. CASE Verified(c)
  <2>1. /\ stage[c] = "proved" /\ stage' = [stage EXCEPT ![c] = "idle"] /\ asks' = 1 /\ acked' = TRUE
        /\ UNCHANGED <<read, answer, created, result, entries, proven>> /\ "idle" \in Stages
    BY <1>12 DEF Verified, cache, server, Stages
  <2>2. proven = 1
    BY <2>1 DEF Raised
  <2> QED BY <1>0, <2>1, <2>2, LevelRest, StageMoves, RaisedStep
<1>13. CASE VerifyFails(c)
  <2>1. /\ stage' = [stage EXCEPT ![c] = "idle"] /\ "idle" \in Stages
        /\ UNCHANGED <<read, answer, asks, acked, created, result, entries, proven>>
    BY <1>13 DEF VerifyFails, session, cache, Stages
  <2> QED BY <1>0, <2>1, LevelRest, StageMoves, RaisedStep
<1>14. CASE End(c)
  <2>1. /\ UNCHANGED <<stage, read, answer, asks, acked, created, proven, result>>
        /\ entries' = [x \in Held \ Keys |-> entries[x]]
    BY <1>14 DEF End, Purge, Drop, calls, server
  <2>2. created = 0 /\ 1 \in Held' => entries'[1].level # 0
    BY <2>1, LevelDrop
  <2> QED BY <2>1, <2>2, RestMoves, RaisedStep
<1> QED BY <1>1, <1>2, <1>4, <1>5, <1>6, <1>7, <1>8, <1>9, <1>12, <1>13, <1>14 DEF CallerStep

LEMMA RaisedRefresh ==
  ASSUME Base, Raised, NEW k \in Keys, RefreshStep(k)
  PROVE  Raised'
<1>0. EntriesOK /\ CallsOK /\ SessionOK /\ Rounds /\ k \in Readers
  BY TypeParts, Apart DEF Base, CacheOK
<1>1. UNCHANGED <<asks, acked, created, proven, result>>
  BY DEF RefreshStep, StartRefresh, Refreshed, RefreshIgnored, RefreshFails, session, server
<1>2. CASE StartRefresh(k)
  <2>1. /\ stage[k] = "queued" /\ stage' = [stage EXCEPT ![k] = "asked"] /\ UNCHANGED <<answer, entries>>
        /\ read' = [read EXCEPT ![k].known = Etag(k), ![k].epoch = epoch] /\ "asked" \in Stages
    BY <1>2 DEF StartRefresh, cache, Stages
  <2>2. \A q \in Readers : read'[q].key = read[q].key /\ read'[q].acked = read[q].acked
    BY <1>0, <2>1 DEF CallsOK, Reads
  <2> QED BY <1>0, <1>1, <2>1, <2>2, LevelRest, StageMoves, RaisedStep
<1>3. CASE Refreshed(k)
  <2>1. /\ stage[k] = "answered" /\ answer[k].kind # "degraded" /\ Finish(k)
        /\ entries' = Put(k, Stored(k, answer[k], k, FALSE)) /\ answer[k] \in Answers
    BY <1>0, <1>3, AnsweredOK DEF Refreshed
  <2>2. read[k].key = k
    BY <2>1 DEF Raised
  <2>3. created = 0 /\ 1 \in Held' => entries'[1].level # 0
    BY <1>0, <2>1, <2>2, LevelPut
  <2> QED BY <1>0, <1>1, <2>1, <2>3, EndMoves, RaisedStep
<1>4. CASE RefreshIgnored(k) \/ RefreshFails(k)
  <2>1. Finish(k)
    BY <1>4 DEF RefreshIgnored, RefreshFails
  <2>2. created = 0 /\ 1 \in Held' => entries'[1].level # 0
    <3>1. CASE UNCHANGED entries
      BY <3>1, LevelRest
    <3>2. CASE \E K \in {{k}, Keys} : Drop(K)
      <4>1. PICK K \in SUBSET Keys : entries' = [x \in Held \ K |-> entries[x]]
        BY <3>2 DEF Drop
      <4> QED BY <4>1, LevelDrop
    <3> QED BY <1>4, <3>1, <3>2 DEF RefreshIgnored, RefreshFails
  <2> QED BY <1>0, <1>1, <2>1, <2>2, EndMoves, RaisedStep
<1> QED BY <1>2, <1>3, <1>4 DEF RefreshStep

LEMMA RaisedAnswer ==
  ASSUME Base, Raised, NEW r \in Readers, Answer(r) \/ AnswerDegraded(r)
  PROVE  Raised'
<1>0. CallsOK /\ Rounds
  BY TypeParts DEF Base
<1>1. PICK a \in Answers :
        /\ a.level \in {Poor, Min2(read[r].key, proven)} /\ answer' = [answer EXCEPT ![r] = a] /\ stage[r] = "asked"
        /\ stage' = [stage EXCEPT ![r] = "answered"]
        /\ UNCHANGED <<read, asks, acked, created, proven, result, entries>>
  <2>1. CASE Answer(r)
    BY <2>1, AnswerEffect DEF session, cache
  <2>2. CASE AnswerDegraded(r)
    <3>1. [kind |-> "degraded", level |-> Poor, deltas |-> {}] \in Answers
      BY DEF Answers, Levels
    <3> QED BY <2>2, <3>1 DEF AnswerDegraded, session, cache, server
  <2> QED BY <2>1, <2>2
<1>2. /\ answer'[r] = a /\ stage'[r] = "answered"
      /\ \A q \in Readers : q # r => answer'[q] = answer[q] /\ stage'[q] = stage[q]
  BY <1>0, <1>1 DEF CallsOK
<1>3. \A q \in Readers : MovesOn(q)
  BY <1>1, <1>2 DEF MovesOn
<1>4. \A c \in Callers : stage'[c] = "proved" => stage[c] = "proved"
  BY <1>2, Apart
<1> QED BY <1>1, <1>3, <1>4, LevelRest, RaisedStep

LEMMA RaisedNext == Base /\ Raised /\ [Next]_vars => Raised'
<1> SUFFICES ASSUME Base, Raised, [Next]_vars PROVE Raised'
  OBVIOUS
<1>0. EntriesOK
  BY TypeParts DEF Base, CacheOK
<1>1. CASE Change \/ ProveLater \/ UNCHANGED vars
  <2>1. UNCHANGED <<stage, read, answer, asks, acked, created, result, entries>> /\ (proven = 1 => proven' = 1)
    BY <1>1 DEF Change, ProveLater, vars, cache, calls, session, server
  <2> QED BY <2>1, LevelRest, RestMoves, RaisedStep
<1>2. ASSUME NEW k \in Keys, Age(k) \/ Evict(k) PROVE Raised'
  <2>1. UNCHANGED <<stage, read, answer, asks, acked, created, result, proven>>
    BY <1>2 DEF Age, Evict, calls, session, server
  <2>2. created = 0 /\ 1 \in Held' => entries'[1].level # 0
    <3>1. CASE Age(k)
      BY <1>0, <3>1, AgeEffect, LevelRests
    <3>2. CASE Evict(k)
      <4>1. {k} \in SUBSET Keys /\ entries' = [x \in Held \ {k} |-> entries[x]]
        BY <3>2 DEF Evict, Drop
      <4> QED BY <4>1, LevelDrop
    <3> QED BY <1>2, <3>1, <3>2
  <2> QED BY <2>1, <2>2, RestMoves, RaisedStep
<1> QED BY <1>1, <1>2, RaisedCaller, RaisedRefresh, RaisedAnswer DEF Next

\* A conversation created at level 0 never gets, from a context() called after verify() was
\* acknowledged, a pack of the level before: none asked for or stored under the key of the new
\* level was made before it was proved (Conversation.verify, ContextCache.purge_scope).
THEOREM VerificationIsSeen == Spec => []VerifyIsSeen
<1>1. Base /\ Raised => VerifyIsSeen
  BY DEF Raised, VerifyIsSeen
<1> QED BY <1>1, RaisedInit, RaisedNext, AlwaysBase, PTL DEF Spec
-----------------------------------------------------------------------------
(***************************************************************************)
(*                    The reads through the resolvers                      *)
(***************************************************************************)

(* Calls and claims *)

Calls == [stage : {"none", "queued", "running"}, type : Types \cup {"none"}, left : Nat]

ClaimsOK ==
  /\ claim \in [Claimants -> {"none", "asking", "reading", "done"}] /\ took \in [Claimants -> Nat]
  /\ DOMAIN call = Users /\ \A c \in Claimants : call[c] \in Calls

\* What a claim took and what its read may still take are within the budget; only the request to Niadra
\* may take an allowance more, and then there is no read.
ClaimBounded(c) ==
  /\ claim[c] = "none" => took[c] = 0
  /\ claim[c] = "reading" => call[c].stage # "none" /\ took[c] + call[c].left <= ClaimBudget
  /\ took[c] <= ClaimBudget + Allowance

ClaimsInv == ClaimsOK /\ \A c \in Claimants : ClaimBounded(c)

LEMMA Budgets == ClaimBudget \in Nat /\ Allowance \in Nat /\ Worker \notin Claimants /\ Claimants \subseteq Users
BY ResolversAssumption DEF Users

LEMMA DownIs == \A n \in Nat : Down(n) \in Nat /\ (n > 0 => Down(n) = n - 1)
<1> SUFFICES ASSUME NEW n \in Nat PROVE Down(n) \in Nat /\ (n > 0 => Down(n) = n - 1)
  OBVIOUS
<1>1. Down(n) = IF n > 0 THEN n - 1 ELSE 0
  BY DEF Down, Max
<1> QED BY <1>1

LEMMA ClaimsInit == ResolversInit => ClaimsInv
BY Budgets DEF ResolversInit, ClaimsInv, ClaimsOK, ClaimBounded, Calls, NoCall

\* A step that leaves a claim, its time and the call of its caller as they are.
LEMMA ClaimsAlike ==
  ASSUME ClaimsInv, UNCHANGED claims, DOMAIN call' = Users, \A c \in Claimants : call'[c] = call[c]
  PROVE  ClaimsInv'
<1>1. claim' = claim /\ took' = took
  BY DEF claims
<1>2. ClaimsOK'
  BY <1>1 DEF ClaimsInv, ClaimsOK
<1>3. \A c \in Claimants : ClaimBounded(c)'
  BY <1>1 DEF ClaimsInv, ClaimBounded
<1> QED BY <1>2, <1>3 DEF ClaimsInv

\* The worker's steps and the list of Niadra's.
LEMMA WorkerLeavesClaims ==
  ASSUME ClaimsInv,
         \/ WorkerStep \/ LeaseFails \/ PushFails \/ Stop \/ Unstuck
         \/ \E r \in Requests : Ask(r) \/ OtherLeases(r)
  PROVE  ClaimsInv'
<1>1. UNCHANGED claims
  BY DEF WorkerStep, LeasePage, Skip, TakeSlot, Fetch, FetchOpen, Fetched, Release, Push, EndPage, LeaseFails,
         PushFails, Stop, Unstuck, Ask, OtherLeases
<1>2. UNCHANGED call \/ \E new : call' = [call EXCEPT ![Worker] = new]
  <2>1. CASE Fetch
    BY <2>1 DEF Fetch, Submit
  <2>2. CASE Fetched
    BY <2>2 DEF Fetched, Replies, TimesOut
  <2> QED BY <2>1, <2>2
       DEF WorkerStep, LeasePage, Skip, TakeSlot, FetchOpen, Release, Push, EndPage, LeaseFails,
           PushFails, Stop, Unstuck, Ask, OtherLeases, pool
<1>3. DOMAIN call' = Users /\ \A c \in Claimants : call'[c] = call[c]
  BY <1>2, Budgets DEF ClaimsInv, ClaimsOK
<1> QED BY <1>1, <1>3, ClaimsAlike

LEMMA StartsClaims ==
  ASSUME ClaimsInv, NEW u \in Users, Starts(u)
  PROVE  ClaimsInv'
<1>1. claim' = claim /\ took' = took /\ call' = [call EXCEPT ![u].stage = "running"]
  BY DEF Starts, claims
<1>2. \A c \in Claimants : call'[c] = IF c = u THEN [call[c] EXCEPT !.stage = "running"] ELSE call[c]
  BY <1>1, Budgets DEF ClaimsInv, ClaimsOK
<1>3. \A c \in Claimants : call'[c] \in Calls /\ call'[c].left = call[c].left
                           /\ (call'[c].stage = "none" => call[c].stage = "none")
  BY <1>2 DEF ClaimsInv, ClaimsOK, Calls
<1>4. ClaimsOK'
  BY <1>1, <1>3 DEF ClaimsInv, ClaimsOK
<1>5. \A c \in Claimants : ClaimBounded(c)'
  BY <1>1, <1>3 DEF ClaimsInv, ClaimBounded
<1> QED BY <1>4, <1>5 DEF ClaimsInv

LEMMA StartClaims ==
  ASSUME ClaimsInv, NEW c \in Claimants, StartClaim(c)
  PROVE  ClaimsInv'
<1>1. claim' = [claim EXCEPT ![c] = "asking"] /\ took' = took /\ call' = call
  BY DEF StartClaim, pool
<1>2. ClaimsOK'
  BY <1>1 DEF ClaimsInv, ClaimsOK
<1>3. \A d \in Claimants : ClaimBounded(d)'
  BY <1>1 DEF ClaimsInv, ClaimsOK, ClaimBounded
<1> QED BY <1>2, <1>3 DEF ClaimsInv

\* The read gets what the request left of the budget.
LEMMA AskedClaims ==
  ASSUME ClaimsInv, NEW c \in Claimants, NEW t \in Types, Asked(c, t)
  PROVE  ClaimsInv'
<1>1. took' = took
  BY DEF Asked
<1>2. took[c] \in Nat /\ ClaimBudget \in Nat
  BY Budgets DEF ClaimsInv, ClaimsOK
<1>3. CASE claim' = [claim EXCEPT ![c] = "done"] /\ call' = call
  <2>1. ClaimsOK'
    BY <1>1, <1>3 DEF ClaimsInv, ClaimsOK
  <2>2. \A d \in Claimants : ClaimBounded(d)'
    BY <1>1, <1>3 DEF ClaimsInv, ClaimsOK, ClaimBounded
  <2> QED BY <2>1, <2>2 DEF ClaimsInv
<1>4. CASE claim' = [claim EXCEPT ![c] = "reading"] /\ Submit(c, t, Left(c)) /\ Left(c) > 0
  <2> DEFINE new == [stage |-> "queued", type |-> t, left |-> Left(c)]
  <2>1. new \in Calls /\ took[c] + new.left <= ClaimBudget /\ new.stage # "none"
    BY <1>2, <1>4 DEF Left, Calls
  <2>2. call' = [call EXCEPT ![c] = new]
    BY <1>4 DEF Submit
  <2> HIDE DEF new
  <2>3. ClaimsOK'
    BY <1>1, <1>4, <2>1, <2>2 DEF ClaimsInv, ClaimsOK
  <2>4. ClaimBounded(c)'
    BY <1>1, <1>4, <2>1, <2>2, Budgets DEF ClaimsInv, ClaimsOK, ClaimBounded
  <2>5. \A d \in Claimants \ {c} : ClaimBounded(d)'
    BY <1>1, <1>4, <2>2, Budgets DEF ClaimsInv, ClaimsOK, ClaimBounded
  <2> QED BY <2>3, <2>4, <2>5 DEF ClaimsInv
<1>5. Left(c) <= 0 \/ Left(c) > 0
  BY <1>2 DEF Left
<1> QED BY <1>3, <1>4, <1>5 DEF Asked

LEMMA ReadClaims ==
  ASSUME ClaimsInv, NEW c \in Claimants, Read(c)
  PROVE  ClaimsInv'
<1>1. claim' = [claim EXCEPT ![c] = "done"] /\ took' = took /\ call' = [call EXCEPT ![c] = NoCall]
  BY DEF Read, TimesOut, Replies
<1>2. ClaimsOK'
  <2>1. NoCall \in Calls
    BY DEF NoCall, Calls
  <2> QED BY <1>1, <2>1 DEF ClaimsInv, ClaimsOK
<1>3. \A d \in Claimants : ClaimBounded(d)'
  BY <1>1, Budgets DEF ClaimsInv, ClaimsOK, ClaimBounded
<1> QED BY <1>2, <1>3 DEF ClaimsInv

\* Time passes only while every claim has some left.
LEMMA TickClaims ==
  ASSUME ClaimsInv, Tick
  PROVE  ClaimsInv'
<1>1. /\ claim' = claim /\ call' = [u \in Users |-> [call[u] EXCEPT !.left = Down(@)]]
      /\ took' = [c \in Claimants |-> IF claim[c] \in {"asking", "reading"} THEN took[c] + 1 ELSE took[c]]
  BY DEF Tick
<1>2. \A c \in Claimants : call[c] \in Calls /\ call[c].left \in Nat /\ took[c] \in Nat
  BY DEF ClaimsInv, ClaimsOK, Calls
<1>3. \A c \in Claimants : call'[c] = [call[c] EXCEPT !.left = Down(call[c].left)]
  BY <1>1, Budgets
<1>4. \A c \in Claimants : call'[c] \in Calls /\ call'[c].left = Down(call[c].left) /\ call'[c].stage = call[c].stage
  <2>1. \A c \in Claimants : Down(call[c].left) \in Nat
    BY <1>2, DownIs
  <2> SUFFICES ASSUME NEW c \in Claimants
               PROVE  call'[c] \in Calls /\ call'[c].left = Down(call[c].left) /\ call'[c].stage = call[c].stage
    OBVIOUS
  <2> DEFINE n == Down(call[c].left)
  <2>2. call[c] \in Calls /\ n \in Nat /\ call'[c] = [call[c] EXCEPT !.left = n]
    BY <1>2, <1>3, <2>1
  <2> HIDE DEF n
  <2>3. call'[c] \in Calls /\ call'[c].left = n /\ call'[c].stage = call[c].stage
    BY <2>2 DEF Calls
  <2> QED BY <2>3 DEF n
<1>5. ClaimsOK'
  <2>1. took' \in [Claimants -> Nat]
    BY <1>1, <1>2
  <2>2. DOMAIN call' = Users
    BY <1>1
  <2> QED BY <1>1, <1>4, <2>1, <2>2 DEF ClaimsInv, ClaimsOK
<1>6. ASSUME NEW c \in Claimants PROVE ClaimBounded(c)'
  <2>1. /\ ClaimBudget \in Nat /\ Allowance \in Nat /\ took[c] \in Nat /\ call[c].left \in Nat
        /\ took'[c] = IF claim[c] \in {"asking", "reading"} THEN took[c] + 1 ELSE took[c]
    BY <1>1, <1>2, Budgets
  <2>2. CASE claim[c] = "reading"
    <3>1. call[c].stage # "none" /\ took[c] + call[c].left <= ClaimBudget
      BY <2>2 DEF ClaimsInv, ClaimBounded
    <3>2. call[c].left > 0
      BY <3>1, Budgets DEF Tick, Waiting
    <3>3. call'[c].left = call[c].left - 1 /\ call'[c].stage # "none"
      BY <1>4, <2>1, <3>1, <3>2, DownIs
    <3> QED BY <1>1, <2>1, <2>2, <3>1, <3>2, <3>3 DEF ClaimBounded
  <2>3. CASE claim[c] = "asking"
    <3>1. took[c] < ClaimBudget + Allowance
      BY <2>3 DEF Tick, Waiting
    <3> QED BY <1>1, <2>1, <2>3, <3>1 DEF ClaimBounded
  <2>4. CASE claim[c] \notin {"asking", "reading"}
    BY <1>1, <2>1, <2>4 DEF ClaimsInv, ClaimBounded
  <2> QED BY <2>2, <2>3, <2>4
<1> QED BY <1>5, <1>6 DEF ClaimsInv

\* A claim takes its budget, and an allowance when the connection was cold, and no more: for any number of
\* callers and types, whatever hangs and however long the pool is full.
THEOREM ClaimsEndInTime == ResolversSpec => []ClaimInTime
<1>1. ClaimsInv /\ [ResolversNext]_resolvers_vars => ClaimsInv'
  <2> SUFFICES ASSUME ClaimsInv, [ResolversNext]_resolvers_vars PROVE ClaimsInv'
    OBVIOUS
  <2>1. CASE \E u \in Users : Starts(u)
    BY <2>1, StartsClaims
  <2>2. CASE \E c \in Claimants : StartClaim(c) \/ Read(c) \/ \E t \in Types : Asked(c, t)
    BY <2>2, StartClaims, ReadClaims, AskedClaims
  <2>3. CASE Tick
    BY <2>3, TickClaims
  <2>4. CASE UNCHANGED resolvers_vars
    BY <2>4, ClaimsAlike DEF resolvers_vars, pool, ClaimsInv, ClaimsOK
  <2> QED BY <2>1, <2>2, <2>3, <2>4, WorkerLeavesClaims DEF ResolversNext
<1>2. ClaimsInv => ClaimInTime
  BY DEF ClaimsInv, ClaimBounded, ClaimInTime
<1> QED BY <1>1, <1>2, ClaimsInit, PTL DEF ResolversSpec

-----------------------------------------------------------------------------
(* The worker and its leases *)

\* What is left of the worker's sleep ends before its lease does.
SleepInv ==
  /\ nextIn \in [Types -> Nat] /\ since \in 0 .. Lease /\ timer \in Nat /\ pause \in Nat
  /\ at = "sleep" => since + timer < Lease

\* The company's source is asked about an object only while the request is leased: the worker never sleeps past it.
AsksUnderLease == [][at = "sleep" /\ at' = "fetch" => since < Lease]_resolvers_vars

LEMMA SleepConstants ==
  /\ Lease \in Nat /\ Poll \in Nat /\ MaxPause \in Nat /\ SlotCap \in Nat /\ Interval \in [Types -> Nat]
  /\ Resolvable \subseteq Types
BY ResolversAssumption

LEMMA MinOf == \A m, n \in Nat : Min({m, n}) \in Nat /\ Min({m, n}) <= m /\ Min({m, n}) <= n
<1> SUFFICES ASSUME NEW m \in Nat, NEW n \in Nat
             PROVE  Min({m, n}) \in Nat /\ Min({m, n}) <= m /\ Min({m, n}) <= n
  OBVIOUS
<1>1. Min({m, n}) = IF m <= n THEN m ELSE n
  BY DEF Min
<1> QED BY <1>1

LEMMA TickSleeps == ASSUME SleepInv, Tick PROVE SleepInv'
<1>1. /\ at' = at /\ pause' = pause /\ since' = Min({Lease, since + 1}) /\ timer' = Down(timer)
      /\ nextIn' = [t \in Types |-> Down(nextIn[t])]
  BY DEF Tick
<1>2. Lease \in Nat /\ since \in Nat /\ timer \in Nat /\ pause \in Nat
  BY SleepConstants DEF SleepInv
<1>3. nextIn' \in [Types -> Nat]
  BY <1>1, DownIs DEF SleepInv
<1>4. since' \in 0 .. Lease /\ since' <= since + 1 /\ timer' \in Nat
  BY <1>1, <1>2, MinOf, DownIs
<1>5. at = "sleep" => since' + timer' < Lease
  <2> SUFFICES ASSUME at = "sleep" PROVE since' + timer' < Lease
    OBVIOUS
  <2>1. timer > 0 /\ since + timer < Lease
    BY DEF Tick, Waiting, SleepInv
  <2>2. timer' = timer - 1
    BY <1>1, <1>2, <2>1, DownIs
  <2>3. \A a, b, l, x \in Nat : x <= a + 1 /\ b > 0 /\ a + b < l => x + (b - 1) < l
    OBVIOUS
  <2>4. since' \in Nat
    BY <1>2, <1>4
  <2>5. since' + (timer - 1) < Lease
    BY <1>2, <1>4, <2>1, <2>3, <2>4
  <2> QED BY <2>2, <2>5
<1> QED BY <1>1, <1>2, <1>3, <1>4, <1>5 DEF SleepInv

LEMMA TakeSlotSleeps == ASSUME SleepInv, TakeSlot PROVE SleepInv'
<1> DEFINE r == Head(todo)
           t == TypeOf[r]
<1>1. t \in Types
  BY SleepConstants DEF TakeSlot, Available
<1>2. nextIn[t] \in Nat /\ Interval[t] \in Nat
  BY <1>1, SleepConstants DEF SleepInv
<1>3. (IF Interval[t] = 0 THEN 0 ELSE Min({SlotCap, nextIn[t] + Interval[t]})) \in Nat
  BY <1>2, MinOf, SleepConstants
<1>4. nextIn' \in [Types -> Nat]
  BY <1>1, <1>3 DEF TakeSlot, Slot, SleepInv
<1>5. UNCHANGED <<since, pause>>
  BY DEF TakeSlot
<1>6. \/ at' = "sleep" /\ timer' = nextIn[t] /\ since + nextIn[t] < Lease
      \/ UNCHANGED <<at, timer>> /\ at = "page"
  BY DEF TakeSlot, InTime
<1> QED BY <1>2, <1>4, <1>5, <1>6 DEF SleepInv

\* No request is read after its lease, however the slots of its type went.
THEOREM LeasesCoverReads == ResolversSpec => AsksUnderLease
<1>1. ResolversInit => SleepInv
  BY SleepConstants DEF ResolversInit, SleepInv
<1>2. SleepInv /\ [ResolversNext]_resolvers_vars => SleepInv'
  <2> SUFFICES ASSUME SleepInv, [ResolversNext]_resolvers_vars PROVE SleepInv'
    OBVIOUS
  <2>1. CASE Tick
    BY <2>1, TickSleeps
  <2>2. CASE TakeSlot
    BY <2>2, TakeSlotSleeps
  <2>3. CASE LeaseFails \/ PushFails
    <3>1. GiveUp /\ UNCHANGED nextIn
      BY <2>3 DEF LeaseFails, PushFails
    <3>2. /\ pause' = Min({2 * pause, MaxPause}) /\ timer' = pause' /\ at' = "pause"
          /\ UNCHANGED <<since, nextIn>>
      BY <3>1 DEF GiveUp
    <3>3. pause' \in Nat
      BY <3>2, MinOf, SleepConstants DEF SleepInv
    <3> QED BY <3>2, <3>3 DEF SleepInv
  <2>4. CASE LeasePage \/ EndPage
    <3>1. /\ at' # "sleep" /\ UNCHANGED nextIn /\ since' \in {0, since} /\ timer' \in {0, timer, Poll}
          /\ pause' \in {pause, Poll}
      BY <2>4 DEF LeasePage, EndPage
    <3>2. Lease \in Nat /\ Poll \in Nat
      BY SleepConstants
    <3>3. nextIn' \in [Types -> Nat] /\ pause' \in Nat /\ timer' \in Nat
      BY <3>1, <3>2 DEF SleepInv
    <3>4. since' \in 0 .. Lease
      BY <3>1, <3>2 DEF SleepInv
    <3> QED BY <3>1, <3>3, <3>4 DEF SleepInv
  <2>5. ASSUME \/ Skip \/ Fetch \/ FetchOpen \/ Fetched \/ Release \/ Push \/ Stop
        PROVE  SleepInv'
    <3>1. UNCHANGED <<since, timer, pause, nextIn>> /\ at' # "sleep"
      BY <2>5 DEF Skip, Fetch, FetchOpen, Fetched, Release, Push, Stop
    <3> QED BY <3>1 DEF SleepInv
  <2>6. ASSUME UNCHANGED <<worker, nextIn>>
        PROVE  SleepInv'
    BY <2>6 DEF worker, SleepInv
  <2>7. CASE \/ \E r \in Requests : Ask(r) \/ OtherLeases(r)
             \/ Unstuck \/ \E u \in Users : Starts(u)
             \/ \E c \in Claimants : StartClaim(c) \/ Read(c) \/ \E t \in Types : Asked(c, t)
             \/ UNCHANGED resolvers_vars
    <3>1. UNCHANGED <<worker, nextIn>>
      BY <2>7 DEF Ask, OtherLeases, Unstuck, Starts, StartClaim, Read, Asked, resolvers_vars
    <3> QED BY <2>6, <3>1
  <2> QED BY <2>1, <2>2, <2>3, <2>4, <2>5, <2>7 DEF ResolversNext, WorkerStep
<1>3. SleepInv => (at = "sleep" => since < Lease)
  BY SleepConstants DEF SleepInv
<1> QED BY <1>1, <1>2, <1>3, PTL DEF ResolversSpec, AsksUnderLease
=============================================================================
