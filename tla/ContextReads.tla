---------------------------- MODULE ContextReads ----------------------------
(***************************************************************************)
(* The reads of one conversation's context pack: ContextCache              *)
(* (niadra/_cache.py), the read paths of Niadra.context() with their       *)
(* background refresh (niadra/_client.py), what Conversation keeps between *)
(* reads (niadra/conversation.py), and the API that pins the packs, as the *)
(* repository's emulator answers (niadra_mock/cell.py).                    *)
(*                                                                         *)
(* A read asks for a level of verification, which is its cache key; the    *)
(* API answers at the level proved, if that is lower, and pins one pack    *)
(* per key and level.  Levels are 0 and 1.  A change is what a turn of     *)
(* another conversation adds to the memory, numbered in order: a pack      *)
(* holds those up to its watermark, a delta some of the later ones.        *)
(***************************************************************************)
EXTENDS Integers, FiniteSets

CONSTANTS
  Callers,      \* threads that use the Conversation
  AsksFrom,     \* the levels it may be created with: 0, or 1 before it is proved
  MaxChanges,   \* bound: changes made
  MaxReads,     \* bound: calls of context()
  MaxFaults     \* bound: reads that fail or come back degraded, entries evicted

Keys    == {0, 1}
Changes == 1..MaxChanges
\* Who may have a read of the API in flight: a caller, or the background refresh of a key.
Readers == Callers \cup Keys

ASSUME ConstantsAssumption ==
  /\ Callers \cap Int = {} /\ AsksFrom \subseteq Keys
  /\ MaxChanges \in Nat /\ MaxReads \in Nat /\ MaxFaults \in Nat

NoPack == -1      \* no etag is known, nothing is pinned, nothing was served
Poor   == 2       \* in place of a level: the degraded answer, which carries an etag of its own

VARIABLES
  written,      \* changes in memory
  proven,       \* the level the API holds as proved for the conversation
  pins,         \* the watermark of the pack pinned for each key and level
  mark,         \* the last change this reader was sent
  entries,      \* ContextCache._entries
  epoch,        \* ContextCache._epochs of the conversation
  refreshing,   \* ContextCache._refreshing
  stage,        \* where each reader's call stands
  read,         \* the request of its read
  answer,       \* what the API answered it
  asks,         \* Conversation.verification
  etag,         \* Conversation._etag
  deltas,       \* Conversation._deltas
  raising,      \* a verification waits in the event queue
  ended,        \* Conversation._ended
  reads, faults,   \* bounded counters
  handed,       \* how often the cache handed each change to a caller (history)
  forgone,      \* changes dropped with a pack, or with an answer nobody took (history)
  told,         \* changes the API sent in some delta (history)
  acked,        \* verify() was acknowledged (history)
  created,      \* the level the conversation was created with (history)
  result        \* the level each caller was last served, and whether it asked after that (history)

server  == <<written, proven, pins, mark, told, raising>>
cache   == <<entries, epoch, refreshing, forgone>>
calls   == <<stage, read, answer, reads>>
session == <<asks, etag, deltas, handed, acked, created, result, ended>>
vars    == <<server, cache, calls, session, faults>>

Min2(a, b) == IF a < b THEN a ELSE b
Max2(a, b) == IF a < b THEN b ELSE a

NoRead   == [key |-> 0, delta |-> FALSE, known |-> NoPack, epoch |-> 0, acked |-> FALSE]
NoAnswer == [kind |-> "none", level |-> NoPack, deltas |-> {}]

Init ==
  /\ written = 0 /\ proven = 0 /\ mark = 0 /\ told = {} /\ raising = FALSE
  /\ pins = [p \in Keys \X Keys |-> NoPack]
  /\ entries = <<>> /\ epoch = 0 /\ refreshing = {}
  /\ stage = [r \in Readers |-> "idle"]
  /\ read = [r \in Readers |-> NoRead] /\ answer = [r \in Readers |-> NoAnswer]
  /\ asks \in AsksFrom /\ created = asks /\ etag = <<0, NoPack>> /\ deltas = {} /\ ended = FALSE
  /\ reads = 0 /\ faults = 0
  /\ handed = [x \in Changes |-> 0] /\ forgone = {} /\ acked = FALSE
  /\ result = [c \in Callers |-> [level |-> NoPack, acked |-> FALSE]]
-----------------------------------------------------------------------------
(* The cache. *)

Held    == DOMAIN entries
Live(k) == k \in Held /\ entries[k].age # "dead"
Etag(k) == IF k \in Held THEN entries[k].level ELSE NoPack

Pending(K) == UNION {entries[k].deltas : k \in K \cap Held}

\* The entry of k takes the place of the one before it.
Put(k, entry) == [x \in Held \cup {k} |-> IF x = k THEN entry ELSE entries[x]]

\* Packs go, with the deltas that wait in them.
Drop(K) ==
  /\ entries' = [k \in Held \ K |-> entries[k]]
  /\ forgone' = forgone \cup Pending(K)

\* purge_scope()
Purge == Drop(Keys) /\ epoch' = epoch + 1 /\ UNCHANGED refreshing

\* Time passes for a pack: ttl, then stale_while_revalidate, then max_stale.
Age(k) ==
  /\ k \in Held /\ entries[k].age # "dead"
  /\ entries' = [entries EXCEPT ![k].age =
       CASE @ = "fresh" -> "stale" [] @ = "stale" -> "expired" [] OTHER -> "dead"]
  /\ UNCHANGED <<epoch, refreshing, forgone, server, calls, session, faults>>

\* Reads of other conversations filled the cache: the least recently used pack goes.
Evict(k) ==
  /\ k \in Held /\ faults < MaxFaults
  /\ faults' = faults + 1
  /\ Drop({k})
  /\ UNCHANGED <<epoch, refreshing, server, calls, session>>

\* Mutant: the delta of `not_modified` is not kept for the next caller.
StoredWithoutDelta(k, a, r, deliver) ==
  IF k \in Held /\ a.kind = "same"
    THEN [entries[k] EXCEPT !.age = "fresh"]
    ELSE [level |-> a.level, age |-> "fresh", deltas |-> IF deliver THEN {} ELSE a.deltas,
          since |-> read[r].epoch, background |-> r \in Keys]

\* What absorb() puts in the entry of k for an answer: the pack kept with what is new about it,
\* or the new pack, with the deltas that waited if it is the same pack.
Stored(k, a, r, deliver) ==
  LET same == k \in Held /\ (a.kind = "same" \/ entries[k].level = a.level)
      kept == (IF same THEN entries[k].deltas ELSE {}) \cup a.deltas
  IN IF k \in Held /\ a.kind = "same"
       THEN [entries[k] EXCEPT !.age = "fresh", !.deltas = IF deliver THEN {} ELSE kept]
       ELSE [level |-> a.level, age |-> "fresh", deltas |-> IF deliver THEN {} ELSE kept,
             since |-> read[r].epoch, background |-> r \in Keys]

\* Mutant: deltas handed out stay in the entry.
HandOutAgain(k) == entries

\* hand_out(): the deltas that waited count as delivered.
HandOut(k) == [entries EXCEPT ![k].deltas = {}]

\* The deltas absorb() hands out with that answer.
HandedOut(k, a) ==
  IF k \in Held /\ (a.kind # "pack" \/ entries[k].level = a.level)
    THEN entries[k].deltas \cup a.deltas
    ELSE a.deltas

\* The deltas that a new pack leaves behind.
Replaced(k, a) ==
  IF k \in Held /\ a.kind = "pack" /\ entries[k].level # a.level THEN entries[k].deltas ELSE {}
-----------------------------------------------------------------------------
(* What a caller gets: the conversation keeps the deltas received against one pack. *)

\* Conversation._absorb() of a pack.
Keep(k, level, ds) ==
  /\ etag' = <<k, level>>
  /\ deltas' = IF etag = <<k, level>> THEN deltas \cup ds ELSE {}

Served(c, level, since) ==
  result' = [result EXCEPT ![c] = [level |-> level, acked |-> since]]

Receive(c, k, level, ds, since) ==
  /\ handed' = [x \in Changes |-> IF x \in ds THEN handed[x] + 1 ELSE handed[x]]
  /\ Keep(k, level, ds)
  /\ Served(c, level, since)
  /\ UNCHANGED <<asks, acked, created, ended>>

\* Nothing to serve, not even the last good pack.
ReceiveEmpty(c, since) ==
  /\ etag' = <<0, NoPack>> /\ deltas' = {}
  /\ Served(c, NoPack, since)
  /\ UNCHANGED <<asks, acked, created, ended, handed>>

Free(c)  == stage[c] = "idle" /\ ~ended
Finish(r) ==
  /\ stage' = [stage EXCEPT ![r] = "idle"]
  /\ read' = [read EXCEPT ![r] = NoRead]
  /\ answer' = [answer EXCEPT ![r] = NoAnswer]
  /\ UNCHANGED reads
-----------------------------------------------------------------------------
(* Conversation.context() *)

Request(k, known) ==
  [key |-> k, delta |-> etag[2] # NoPack, known |-> known, epoch |-> epoch, acked |-> acked]

\* A read without the turn, while the pack is fresh or stale: served from the cache with the
\* deltas that wait. A stale one is refreshed in the background, once at a time.
FromCache(c) ==
  /\ Free(c) /\ reads < MaxReads /\ reads' = reads + 1
  /\ Live(asks) /\ entries[asks].age \in {"fresh", "stale"}
  /\ entries' = HandOut(asks)
  /\ Receive(c, asks, entries[asks].level, entries[asks].deltas, acked)
  /\ IF entries[asks].age = "stale" /\ asks \notin refreshing
       THEN /\ refreshing' = refreshing \cup {asks}
            /\ stage' = [stage EXCEPT ![asks] = "queued"]
            /\ read' = [read EXCEPT ![asks] = Request(asks, NoPack)]
       ELSE UNCHANGED <<refreshing, stage, read>>
  /\ UNCHANGED <<answer, epoch, forgone, server, faults>>

\* Without a pack to serve, the call waits for the API.
AskPinned(c) ==
  /\ Free(c) /\ reads < MaxReads /\ reads' = reads + 1
  /\ ~(Live(asks) /\ entries[asks].age \in {"fresh", "stale"})
  /\ Drop({asks} \ {k \in Keys : Live(k)})
  /\ stage' = [stage EXCEPT ![c] = "asked"]
  /\ read' = [read EXCEPT ![c] = Request(asks, IF Live(asks) THEN Etag(asks) ELSE NoPack)]
  /\ UNCHANGED <<answer, epoch, refreshing, session, server, faults>>

\* A read with the customer's turn always asks the API.
AskTurn(c) ==
  /\ Free(c) /\ reads < MaxReads /\ reads' = reads + 1
  /\ stage' = [stage EXCEPT ![c] = "asked"]
  /\ read' = [read EXCEPT ![c] = Request(asks, Etag(asks))]
  /\ UNCHANGED <<answer, cache, session, server, faults>>

\* A refresh gets its worker. It takes the epoch now.
StartRefresh(k) ==
  /\ stage[k] = "queued"
  /\ stage' = [stage EXCEPT ![k] = "asked"]
  /\ read' = [read EXCEPT ![k].known = Etag(k), ![k].epoch = epoch]
  /\ UNCHANGED <<answer, reads, cache, session, server, faults>>
-----------------------------------------------------------------------------
(* The API answers, from the pack pinned for the key at the level proved. *)

Answer(r) ==
  /\ stage[r] = "asked"
  /\ LET p  == <<read[r].key, Min2(read[r].key, proven)>>
         up == IF pins[p] = NoPack THEN written ELSE pins[p]
         m  == Max2(mark, up)
         new == IF read[r].delta THEN (m + 1)..written ELSE {}
     IN /\ pins' = [pins EXCEPT ![p] = up]
        /\ mark' = IF read[r].delta THEN written ELSE m
        /\ told' = told \cup new
        /\ answer' = [answer EXCEPT ![r] =
             [kind |-> IF read[r].known = p[2] THEN "same" ELSE "pack", level |-> p[2],
              deltas |-> new]]
  /\ stage' = [stage EXCEPT ![r] = "answered"]
  /\ UNCHANGED <<written, proven, raising, read, reads, cache, session, faults>>

\* It cannot compile the pack in time.
AnswerDegraded(r) ==
  /\ stage[r] = "asked" /\ faults < MaxFaults /\ faults' = faults + 1
  /\ answer' = [answer EXCEPT ![r] = [kind |-> "degraded", level |-> Poor, deltas |-> {}]]
  /\ stage' = [stage EXCEPT ![r] = "answered"]
  /\ UNCHANGED <<read, reads, cache, session, server>>

\* Another conversation adds to the memory.
Change ==
  /\ written < MaxChanges /\ written' = written + 1
  /\ UNCHANGED <<proven, pins, mark, told, raising, cache, calls, session, faults>>
-----------------------------------------------------------------------------
(* A caller's read ends. *)

\* absorb() of a pack, or of `not_modified` for one held.
Absorbs(c) ==
  LET k == read[c].key  a == answer[c] IN
  /\ stage[c] = "answered" /\ a.kind # "degraded" /\ (a.kind = "pack" \/ k \in Held)
  /\ entries' = Put(k, Stored(k, a, c, TRUE))
  /\ forgone' = forgone \cup Replaced(k, a)
  /\ Receive(c, k, IF a.kind = "same" THEN entries[k].level ELSE a.level,
             HandedOut(k, a), read[c].acked)
  /\ Finish(c)
  /\ UNCHANGED <<epoch, refreshing, server, faults>>

\* A degraded answer: the pack held is served in its place.
TakesLastGood(c) ==
  LET k == read[c].key IN
  /\ stage[c] = "answered" /\ answer[c].kind = "degraded" /\ k \in Held
  /\ entries' = HandOut(k)
  /\ Receive(c, k, entries[k].level, entries[k].deltas, read[c].acked)
  /\ Finish(c)
  /\ UNCHANGED <<epoch, refreshing, forgone, server, faults>>

\* A degraded answer, or `not_modified` for a pack no longer held, is served as it came.
TakesAsItIs(c) ==
  LET k == read[c].key  a == answer[c] IN
  /\ stage[c] = "answered" /\ a.kind # "pack" /\ k \notin Held
  /\ Receive(c, k, a.level, a.deltas, read[c].acked)
  /\ Finish(c)
  /\ UNCHANGED <<cache, server, faults>>

\* The call failed or ran out of budget: the last good pack, or nothing.
Fails(c) ==
  LET k == read[c].key IN
  /\ stage[c] \in {"asked", "answered"} /\ faults < MaxFaults /\ faults' = faults + 1
  /\ IF Live(k)
       THEN /\ entries' = HandOut(k)
            /\ forgone' = forgone \cup answer[c].deltas
            /\ Receive(c, k, entries[k].level, entries[k].deltas, read[c].acked)
       ELSE /\ entries' = [x \in Held \ {k} |-> entries[x]]
            /\ forgone' = forgone \cup Pending({k}) \cup answer[c].deltas
            /\ ReceiveEmpty(c, read[c].acked)
  /\ Finish(c)
  /\ UNCHANGED <<epoch, refreshing, server>>

\* 403 drops the pack of the key, 401 every pack.
Denied(c) ==
  /\ stage[c] = "asked" /\ faults < MaxFaults /\ faults' = faults + 1
  /\ \E K \in {{read[c].key}, Keys} : Drop(K)
  /\ ReceiveEmpty(c, read[c].acked)
  /\ Finish(c)
  /\ UNCHANGED <<epoch, refreshing, server>>
-----------------------------------------------------------------------------
(* A background refresh ends. *)

EndRefresh(k) == refreshing' = refreshing \ {k}

\* Mutant: a refresh stores its answer whatever happened to the conversation since it started.
RefreshedAnyway(k) ==
  LET a == answer[k] IN
  /\ stage[k] = "answered" /\ a.kind # "degraded" /\ (a.kind = "pack" \/ k \in Held)
  /\ entries' = Put(k, Stored(k, a, k, FALSE))
  /\ forgone' = forgone \cup Replaced(k, a)
  /\ EndRefresh(k) /\ Finish(k)
  /\ UNCHANGED <<epoch, session, server, faults>>

\* Its answer is stored if the conversation was not purged since it started; its delta waits
\* for the next caller.
Refreshed(k) ==
  LET a == answer[k] IN
  /\ stage[k] = "answered" /\ read[k].epoch = epoch
  /\ a.kind # "degraded" /\ (a.kind = "pack" \/ k \in Held)
  /\ entries' = Put(k, Stored(k, a, k, FALSE))
  /\ forgone' = forgone \cup Replaced(k, a)
  /\ EndRefresh(k) /\ Finish(k)
  /\ UNCHANGED <<epoch, session, server, faults>>

\* A degraded answer, one for a pack no longer held, or one from before a purge changes nothing.
RefreshIgnored(k) ==
  LET a == answer[k] IN
  /\ stage[k] = "answered"
  /\ read[k].epoch # epoch \/ a.kind = "degraded" \/ (a.kind = "same" /\ k \notin Held)
  /\ forgone' = forgone \cup a.deltas
  /\ EndRefresh(k) /\ Finish(k)
  /\ UNCHANGED <<entries, epoch, session, server, faults>>

\* It failed; a 401 or 403 drops packs as it does for a caller.
RefreshFails(k) ==
  /\ stage[k] \in {"asked", "answered"} /\ faults < MaxFaults /\ faults' = faults + 1
  /\ \/ UNCHANGED entries /\ forgone' = forgone \cup answer[k].deltas
     \/ stage[k] = "asked" /\ \E K \in {{k}, Keys} : Drop(K)
  /\ EndRefresh(k) /\ Finish(k)
  /\ UNCHANGED <<epoch, session, server>>
-----------------------------------------------------------------------------
(* Conversation.verify() and end() *)

\* The packs go before the assertion is sent.
Verify(c) ==
  /\ Free(c) /\ proven = 0 /\ ~raising
  /\ \A d \in Callers : stage[d] \notin {"proving", "proved"}
  /\ Purge
  /\ stage' = [stage EXCEPT ![c] = "proving"]
  /\ UNCHANGED <<read, answer, reads, session, server, faults>>

Prove(c) ==
  /\ stage[c] = "proving"
  /\ proven' = 1
  /\ stage' = [stage EXCEPT ![c] = "proved"]
  /\ UNCHANGED <<written, pins, mark, told, raising, read, answer, reads, cache, session, faults>>

\* Mutant: the conversation goes on reading at the level it was created with.
VerifiedOnly(c) ==
  /\ stage[c] = "proved"
  /\ acked' = TRUE /\ etag' = <<0, NoPack>> /\ deltas' = {}
  /\ stage' = [stage EXCEPT ![c] = "idle"]
  /\ UNCHANGED <<asks, handed, created, result, ended, read, answer, reads, cache, server, faults>>

\* Acknowledged: the next read starts from the pack of the new level.
Verified(c) ==
  /\ stage[c] = "proved"
  /\ acked' = TRUE /\ asks' = 1 /\ etag' = <<0, NoPack>> /\ deltas' = {}
  /\ stage' = [stage EXCEPT ![c] = "idle"]
  /\ UNCHANGED <<handed, created, result, ended, read, answer, reads, cache, server, faults>>

\* No answer: the assertion goes to the event queue, and reaches the API some time later.
VerifyFails(c) ==
  /\ stage[c] \in {"proving", "proved"} /\ faults < MaxFaults /\ faults' = faults + 1
  /\ raising' = TRUE
  /\ stage' = [stage EXCEPT ![c] = "idle"]
  /\ UNCHANGED <<written, proven, pins, mark, told, read, answer, reads, cache, session>>

ProveLater ==
  /\ raising /\ proven = 0 /\ proven' = 1
  /\ UNCHANGED <<written, pins, mark, told, raising, cache, calls, session, faults>>

End(c) ==
  /\ Free(c)
  /\ ended' = TRUE
  /\ Purge
  /\ UNCHANGED <<asks, etag, deltas, handed, acked, created, result, calls, server, faults>>

CallerStep(c) ==
  \/ FromCache(c) \/ AskPinned(c) \/ AskTurn(c)
  \/ Absorbs(c) \/ TakesLastGood(c) \/ TakesAsItIs(c) \/ Fails(c) \/ Denied(c)
  \/ Verify(c) \/ Prove(c) \/ Verified(c) \/ VerifyFails(c) \/ End(c)

RefreshStep(k) == StartRefresh(k) \/ Refreshed(k) \/ RefreshIgnored(k) \/ RefreshFails(k)

Next ==
  \/ Change \/ ProveLater
  \/ \E k \in Keys : Age(k) \/ Evict(k) \/ RefreshStep(k)
  \/ \E c \in Callers : CallerStep(c)
  \/ \E r \in Readers : Answer(r) \/ AnswerDegraded(r)

Spec == Init /\ [][Next]_vars
-----------------------------------------------------------------------------
(* Properties. *)

Entry ==
  [level : Keys, age : {"fresh", "stale", "expired", "dead"}, deltas : SUBSET Changes,
   since : Nat, background : BOOLEAN]

TypeOK ==
  /\ written \in 0..MaxChanges /\ proven \in Keys /\ mark \in 0..MaxChanges /\ raising \in BOOLEAN
  /\ pins \in [Keys \X Keys -> {NoPack} \cup 0..MaxChanges]
  /\ Held \subseteq Keys /\ \A k \in Held : entries[k] \in Entry
  /\ epoch \in Nat /\ refreshing \subseteq Keys
  /\ stage \in [Readers -> {"idle", "queued", "asked", "answered", "proving", "proved"}]
  /\ read \in [Readers -> [key : Keys, delta : BOOLEAN, known : {NoPack} \cup Keys, epoch : Nat,
                           acked : BOOLEAN]]
  /\ answer \in [Readers -> [kind : {"none", "pack", "same", "degraded"},
                             level : {NoPack, Poor} \cup Keys, deltas : SUBSET Changes]]
  /\ asks \in Keys /\ etag \in Keys \X ({NoPack, Poor} \cup Keys) /\ deltas \subseteq Changes
  /\ ended \in BOOLEAN /\ acked \in BOOLEAN /\ reads \in Nat /\ faults \in Nat
  /\ handed \in [Changes -> Nat] /\ forgone \subseteq Changes /\ told \subseteq Changes
  /\ created \in Keys
  /\ result \in [Callers -> [level : {NoPack, Poor} \cup Keys, acked : BOOLEAN]]

\* Each delta is handed out at most once, whichever of a call and a refresh got it, and however
\* their answers cross: an agent is not told of one change twice.
DeltaOnce == \A x \in Changes : handed[x] <= 1

\* What the API will not send again is not lost while it waits: it is in an answer on its way or
\* in the entry of its pack, until it is handed out or goes with the pack or the failed call.
DeltaKept ==
  \A x \in told :
    \/ handed[x] > 0 \/ x \in forgone \cup Pending(Keys)
    \/ \E r \in Readers : x \in answer[r].deltas

\* A background refresh never brings back what a purge dropped: its pack was asked for after it.
RefreshHonoursPurge ==
  \A k \in Held : entries[k].background => entries[k].since = epoch

SeesLevel == \A c \in Callers : result[c].acked => result[c].level # 0

\* A conversation created at level 0: a context() called after verify() was acknowledged never
\* serves a pack of the old level, whatever reads and refreshes were under way.
VerifyIsSeen == created = 0 => SeesLevel

(* Claims of the documentation that the code does not keep. *)

\* verify(): "the cached pack of that conversation is dropped, so the next `context()` reflects
\* the new level", for a conversation created with the level it hopes for.
NextReadSeesLevel == created = 1 => SeesLevel

\* README: "Ending the conversation drops the pack and everything else the SDK kept in memory".
EndForgets == ended => Held = {}

\* README: "the conversation keeps every delta it receives, in order, in context.delta, so
\* turn_block carries all the changes since the pin".
KeepsWhatItReceived ==
  etag[2] \in Keys => \A x \in Changes : handed[x] > 0 /\ x > pins[etag] => x \in deltas
=============================================================================
