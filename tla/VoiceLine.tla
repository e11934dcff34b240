------------------------------ MODULE VoiceLine ------------------------------
(***************************************************************************)
(* The voice read path (_voice.py and the _voice_* methods of the client): *)
(* one conversation's line, the reads it started, speculation on partial   *)
(* transcripts, the turns of the agent, and verify() and end() crossing    *)
(* them. A text is an utterance and how many of its words were said, which *)
(* is what covers() compares. A read is the number of its start.           *)
(***************************************************************************)
EXTENDS Integers, Sequences, FiniteSets, SequencesExt

CONSTANTS
    Utterances,   \* what the customer may say
    Lengths,      \* how many words of it a partial transcript may hold
    Said,         \* the turns: utterance and number of words
    MinPart, Whole,  \* min_coverage, as a ratio
    MaxReads,     \* MAX_READS: reads a line remembers
    MaxStarted,   \* bound: reads started
    MaxTurns,     \* bound: turns of the agent
    MaxHeard,     \* bound: partial transcripts
    MaxFaults,    \* bound: reads that fail
    MaxVerified   \* bound: calls of verify()

ASSUME VoiceLineAssumption ==
    /\ Lengths \subseteq Nat \ {0}
    /\ Said \subseteq [of : Utterances, words : Nat \ {0}]
    /\ {MaxReads, MaxStarted, Whole} \subseteq Nat \ {0}
    /\ {MinPart, MaxTurns, MaxHeard, MaxFaults, MaxVerified} \subseteq Nat

Nothing == [of |-> "nothing", words |-> 0]
Texts == [of : Utterances, words : Lengths] \cup Said

\* covers()
Covers(partial, final) ==
    IF Nothing \in {partial, final}
    THEN partial = final
    ELSE /\ partial.of = final.of /\ partial.words <= final.words
         /\ partial.words * Whole >= MinPart * final.words

VARIABLES
    line,         \* "none", "live" (in VoiceLines), "closed"
    reads,        \* VoiceLine.reads, by number
    read,         \* the reads started: words, speculative, epoch, state
    heard,        \* the newest partial not read yet
    settling,     \* a settle task runs
    due,          \* texts whose _voice_speculate has not run yet
    speculating,  \* the speculative read, or 0
    waiting,      \* the settled text that waits for it
    pack,         \* the pinned body is in the cache
    epoch,        \* the scope's epoch there
    refresh,      \* "no", "queued", "running": revalidation of an old body
    refreshEpoch, \* the epoch it took when it started
    turn,         \* the agent's turn: step, words, reads it waits for, candidates
    chosen,       \* the read whose slots the last turn got, or 0
    forgetting,   \* "no", or the call, "verify" or "end", that purged the packs but not the line yet
    from,         \* history: the read that stored the pack, 0 for the revalidation
    purged, cleared,  \* history: the reads up to these were started before the packs were last purged,
                      \* before the line's reads were last forgotten
    turns, heards, faults, verified

line_vars == <<line, reads, read, heard, settling, due, speculating, waiting>>
cache == <<pack, epoch, refresh, refreshEpoch, from>>
bounds == <<turns, heards, faults, verified>>
vars == <<line_vars, cache, turn, chosen, forgetting, purged, cleared, bounds>>

Idle == [step |-> "idle", words |-> Nothing, on |-> {}, candidates |-> {}, asked |-> FALSE, old |-> 0]

Init ==
    /\ line = "none" /\ reads = <<>> /\ read = <<>>
    /\ heard = Nothing /\ settling = FALSE /\ due = {} /\ speculating = 0 /\ waiting = Nothing
    /\ pack = FALSE /\ epoch = 0 /\ refresh = "no" /\ refreshEpoch = 0 /\ from = 0
    /\ turn = Idle /\ chosen = 0 /\ forgetting = "no" /\ purged = 0 /\ cleared = 0
    /\ turns = 0 /\ heards = 0 /\ faults = 0 /\ verified = 0

Done(id) == read[id].state \in {"ok", "failed"}
InFlight == {id \in ToSet(reads) : ~Done(id)}

\* covering(): failed ones left out; the newest first is the greatest
Covering(words) == {id \in ToSet(reads) : Covers(read[id].words, words) /\ read[id].state # "failed"}

AlreadyRead(words) == \E id \in ToSet(reads) : read[id].words = words /\ read[id].state # "failed"

\* VoiceLine.add: the newest reads are remembered
Add(all) == SubSeq(all, IF Len(all) > MaxReads THEN Len(all) - MaxReads + 1 ELSE 1, Len(all))

\* TurnRead and _voice_read: the epoch is the one of the start
New == Len(read) + 1
Start(words, speculative) ==
    /\ Len(read) < MaxStarted
    /\ read' = Append(read, [words |-> words, speculative |-> speculative, epoch |-> epoch, state |-> "running"])
    /\ reads' = Add(Append(reads, New))

-----------------------------------------------------------------------------
(* The call starts, and the customer speaks *)

\* begin(): the first read, unless the pack is here or a read is on its way
Begin ==
    /\ line = "none" /\ forgetting = "no"
    /\ line' = "live"
    /\ IF pack \/ InFlight # {} THEN UNCHANGED <<read, reads>> ELSE Start(Nothing, FALSE)
    /\ UNCHANGED <<heard, settling, due, speculating, waiting, cache, turn, chosen, forgetting, purged, cleared, bounds>>

\* prefetch() with a partial transcript: a settle task waits until it stays the same
Hear(text) ==
    /\ line = "live" /\ heards < MaxHeard /\ text # heard
    /\ heards' = heards + 1
    /\ heard' = text /\ settling' = TRUE
    /\ UNCHANGED <<line, reads, read, due, speculating, waiting, cache, turn, chosen, forgetting, purged, cleared,
                   turns, faults, verified>>

\* _voice_settle: the text has settled, or there is nothing to wait for
Settle ==
    /\ settling
    /\ settling' = FALSE
    /\ IF line = "closed" \/ heard = Nothing
       THEN UNCHANGED <<heard, due>>
       ELSE due' = due \cup {heard} /\ heard' = Nothing
    /\ UNCHANGED <<line, reads, read, speculating, waiting, cache, turn, chosen, forgetting, purged, cleared, bounds>>

\* one speculative read in flight; a bug: they go side by side
NeverBusy(id) == FALSE
Busy(id) == id # 0 /\ ~Done(id)

\* _voice_speculate: the newest text next
Speculate(text) ==
    /\ text \in due
    /\ due' = due \ {text}
    /\ IF line = "closed" \/ AlreadyRead(text)
       THEN UNCHANGED <<read, reads, speculating, waiting>>
       ELSE IF Busy(speculating)
       THEN waiting' = text /\ UNCHANGED <<read, reads, speculating>>
       ELSE Start(text, TRUE) /\ speculating' = New /\ UNCHANGED waiting
    /\ UNCHANGED <<line, heard, settling, cache, turn, chosen, forgetting, purged, cleared, bounds>>

-----------------------------------------------------------------------------
(* A read *)

\* absorb() with an epoch: a pack of before the purge is not stored; a bug: it is
StoreAnyway(taken, id) == pack' = TRUE /\ from' = id
Store(taken, id) ==
    IF taken = epoch THEN pack' = TRUE /\ from' = id ELSE UNCHANGED <<pack, from>>

\* _voice_run has the answer and stores its pack; or it failed, and a 401 or 403 drops what is cached
Answered(id) ==
    /\ id \in DOMAIN read /\ read[id].state = "running"
    /\ \/ /\ Store(read[id].epoch, id)
          /\ read' = [read EXCEPT ![id].state = "answered"]
          /\ UNCHANGED faults
       \/ /\ faults < MaxFaults /\ faults' = faults + 1
          /\ pack' \in {pack, FALSE} /\ from' = IF pack' THEN from ELSE 0
          /\ read' = [read EXCEPT ![id].state = "refused"]
    /\ UNCHANGED <<line, reads, heard, settling, due, speculating, waiting, epoch, refresh, refreshEpoch, turn, chosen,
                   forgetting, purged, cleared, turns, heards, verified>>

\* a bug: a read that failed leaves the text waiting
FinishIfRead(id) ==
    /\ id \in DOMAIN read /\ read[id].state \in {"answered", "refused"}
    /\ read' = [read EXCEPT ![id].state = IF @ = "answered" THEN "ok" ELSE "failed"]
    /\ IF speculating = id /\ read[id].state = "answered"
       THEN /\ speculating' = 0 /\ waiting' = Nothing
            /\ due' = due \cup ({waiting} \ {Nothing})
       ELSE UNCHANGED <<speculating, waiting, due>>
    /\ UNCHANGED <<line, reads, heard, settling, cache, turn, chosen, forgetting, purged, cleared, bounds>>

\* and, whatever came of it, is done: the text that waits is next
Finish(id) ==
    /\ id \in DOMAIN read /\ read[id].state \in {"answered", "refused"}
    /\ read' = [read EXCEPT ![id].state = IF @ = "answered" THEN "ok" ELSE "failed"]
    /\ IF speculating = id
       THEN /\ speculating' = 0 /\ waiting' = Nothing
            /\ due' = due \cup ({waiting} \ {Nothing})
       ELSE UNCHANGED <<speculating, waiting, due>>
    /\ UNCHANGED <<line, reads, heard, settling, cache, turn, chosen, forgetting, purged, cleared, bounds>>

\* the revalidation of an old body, which ContextReads models with its answers
RefreshStarts ==
    /\ refresh = "queued"
    /\ refresh' = "running" /\ refreshEpoch' = epoch
    /\ UNCHANGED <<line_vars, pack, epoch, from, turn, chosen, forgetting, purged, cleared, bounds>>

RefreshDone ==
    /\ refresh = "running"
    /\ refresh' = "no" /\ refreshEpoch' = 0
    /\ Store(refreshEpoch, 0) \/ UNCHANGED <<pack, from>>
    /\ UNCHANGED <<line_vars, epoch, turn, chosen, forgetting, purged, cleared, bounds>>

-----------------------------------------------------------------------------
(* A turn of the agent: _voice_context *)

\* the line, and without a pack a read to wait for
StartTurn(words) ==
    /\ turn.step = "idle" /\ turns < MaxTurns /\ line # "closed" /\ forgetting # "end"
    /\ turns' = turns + 1 /\ line' = "live" /\ chosen' = 0
    /\ \/ /\ pack
          /\ turn' = [Idle EXCEPT !.step = "choosing", !.words = words, !.old = cleared]
          /\ UNCHANGED <<read, reads>>
       \/ /\ ~pack
          /\ IF InFlight # {} THEN UNCHANGED <<read, reads>> ELSE Start(words, FALSE)
          /\ turn' = [Idle EXCEPT !.step = "opening", !.words = words, !.old = cleared, !.asked = TRUE,
                                  !.on = IF InFlight # {} THEN InFlight ELSE {New}]
    /\ UNCHANGED <<heard, settling, due, speculating, waiting, cache, forgetting, purged, cleared, heards, faults, verified>>

\* _voice_wait for the pack: it came, every read is done, or the budget ran out
Opened ==
    /\ turn.step = "opening"
    /\ turn' = IF pack THEN [turn EXCEPT !.step = "choosing"] ELSE Idle   \* _voice_failed
    /\ UNCHANGED <<line_vars, cache, chosen, forgetting, purged, cleared, bounds>>

\* the reads that answer the words, or one of its own
Choose ==
    /\ turn.step = "choosing"
    /\ IF turn.words = Nothing
       THEN turn' = [turn EXCEPT !.step = "waiting"] /\ UNCHANGED <<read, reads>>
       ELSE IF Covering(turn.words) # {}
       THEN /\ turn' = [turn EXCEPT !.step = "waiting", !.candidates = Covering(turn.words)]
            /\ UNCHANGED <<read, reads>>
       ELSE /\ Start(turn.words, FALSE)
            /\ turn' = [turn EXCEPT !.step = "waiting", !.candidates = {New}, !.asked = TRUE]
    /\ UNCHANGED <<line, heard, settling, due, speculating, waiting, cache, chosen, forgetting, purged, cleared, bounds>>

\* the newest is done or the budget ran out: the slots of the first candidate that has them, on the body
\* from the cache; an old body is revalidated when no read of this turn or of the line does that
TurnDone ==
    /\ turn.step = "waiting"
    /\ turn' = Idle
    /\ LET good == {id \in turn.candidates : read[id].state = "ok"}
       IN  IF pack /\ good # {} THEN chosen' \in {id \in good : \A other \in good : other <= id} ELSE chosen' = 0
    /\ \/ UNCHANGED refresh
       \/ /\ pack /\ ~turn.asked /\ InFlight = {} /\ refresh = "no"
          /\ refresh' = "queued"
    /\ UNCHANGED <<line_vars, pack, epoch, refreshEpoch, from, forgetting, purged, cleared, bounds>>

-----------------------------------------------------------------------------
(* verify() and end(): _forget_scope *)

Purge(why) ==
    /\ forgetting = "no" /\ line = "live"
    /\ why = "verify" => verified < MaxVerified
    /\ verified' = IF why = "verify" THEN verified + 1 ELSE verified
    /\ forgetting' = why
    /\ pack' = FALSE /\ epoch' = epoch + 1 /\ from' = 0
    /\ purged' = Len(read)
    /\ UNCHANGED <<line_vars, refresh, refreshEpoch, turn, chosen, cleared, turns, heards, faults>>

\* a bug: only the speculation is forgotten
ForgetSpeculation ==
    /\ forgetting = "verify"
    /\ forgetting' = "no"
    /\ speculating' = 0 /\ cleared' = Len(read)
    /\ UNCHANGED <<line, read, reads, heard, settling, due, waiting, cache, turn, chosen, purged, bounds>>

\* verify(): the line's reads were made for the pack being dropped
ForgetReads ==
    /\ forgetting = "verify"
    /\ forgetting' = "no"
    /\ reads' = <<>> /\ speculating' = 0 /\ cleared' = Len(read)
    /\ UNCHANGED <<line, read, heard, settling, due, waiting, cache, turn, chosen, purged, bounds>>

\* end(): VoiceLines.drop
DropLine ==
    /\ forgetting = "end"
    /\ forgetting' = "no"
    /\ line' = "closed" /\ reads' = <<>> /\ heard' = Nothing /\ waiting' = Nothing
    /\ cleared' = Len(read)
    /\ UNCHANGED <<read, settling, due, speculating, cache, turn, chosen, purged, bounds>>

-----------------------------------------------------------------------------
BackgroundStep ==
    \/ Settle \/ RefreshStarts \/ RefreshDone
    \/ \E text \in Texts : Speculate(text)
    \/ \E id \in 1 .. MaxStarted : Answered(id) \/ Finish(id)

CallStep == Opened \/ Choose \/ TurnDone \/ ForgetReads \/ DropLine

Next ==
    \/ Begin
    \/ \E text \in [of : Utterances, words : Lengths] : Hear(text)
    \/ \E words \in Said \cup {Nothing} : StartTurn(words)
    \/ \E why \in {"verify", "end"} : Purge(why)
    \/ BackgroundStep \/ CallStep

\* the pool's threads run and requests have timeouts; a call that started goes on
Fairness ==
    /\ \A id \in 1 .. MaxStarted : WF_vars(Answered(id)) /\ WF_vars(Finish(id))
    /\ WF_vars(Settle)
    /\ \A text \in Texts : WF_vars(Speculate(text))

Spec == Init /\ [][Next]_vars

FairSpec == Spec /\ Fairness

-----------------------------------------------------------------------------
(* Properties *)

\* The shapes of the state; a line remembers MAX_READS reads at most.
TypeOK ==
    /\ line \in {"none", "live", "closed"}
    /\ reads \in Seq(DOMAIN read) /\ Len(reads) <= MaxReads
    /\ \A id \in DOMAIN read :
        read[id] \in [words : Texts \cup {Nothing}, speculative : BOOLEAN, epoch : 0 .. epoch,
                      state : {"running", "answered", "refused", "ok", "failed"}]
    /\ {heard, waiting} \cup due \subseteq Texts \cup {Nothing}
    /\ speculating \in DOMAIN read \cup {0} /\ chosen \in DOMAIN read \cup {0}
    /\ {settling, pack} \subseteq BOOLEAN
    /\ refresh \in {"no", "queued", "running"} /\ refreshEpoch \in 0 .. epoch

\* A read that was under way when verify() or end() dropped the packs brings none back, however late its
\* answer comes (the epoch of _voice_read).
PackSincePurge == pack /\ from # 0 => from > purged

\* The turn's own words answer it; others do when they cover them (min_coverage is not checked to be a share).
Fits(words, final) == words = final \/ Covers(words, final)

\* The slots a turn gets are of a read of its words, or of words that cover them, and never of a read that
\* was made before a verify() which returned before the turn began.
SlotsFit ==
    [][chosen' # 0 /\ chosen' # chosen =>
        /\ Fits(read[chosen'].words, turn.words)
        /\ chosen' > turn.old]_vars

\* Of the reads started since the last verify(), one speculative read at most is in flight, whatever
\* order settle tasks, answers and turns take.
OneSpeculation ==
    \A i, j \in {id \in DOMAIN read : id > cleared /\ read[id].speculative /\ ~Done(id)} : i = j

\* What the customer said settles: no partial stays unread behind a task or a read that ended, be it in
\* failure, until the bound on reads is met; after a verify() a text may (see WaitsBehindARead).
SpeechSettles ==
    <>[](heard = Nothing /\ ~settling /\ (waiting = Nothing \/ cleared > 0)) \/ <>[](Len(read) = MaxStarted)

\* "Ending the conversation drops the line and the conversation's packs, and an answer still on its way is
\* then not stored" (the module's documentation).
NothingAfterEnd == line = "closed" => ~pack

\* "One such read in flight per conversation; the newest settled text waits behind it" (the same).
WaitsBehindARead == waiting # Nothing => speculating # 0
=============================================================================
