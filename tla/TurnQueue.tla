------------------------------ MODULE TurnQueue ------------------------------
(***************************************************************************)
(* Closed turns on their way to POST /v1/turns: the bounded queue, its     *)
(* sender (turns/sender.py), and what the recorder counts                  *)
(* (turns/recorder.py). A turn is the number of its submit(), so that order*)
(* shows; its data are whether it is flagged, whether its values are still *)
(* there, and the mode it must leave in. Weights, limits and the API's     *)
(* refusals are constants; the cut of a batch into requests depends on     *)
(* sizes and is any cut. The sender is AsyncTurnSender; the thread's,      *)
(* SyncTurnSender, is the same without Cancelled.                          *)
(***************************************************************************)
EXTENDS Integers, Sequences, FiniteSets, SequencesExt, FiniteSetsExt

CONSTANTS
    MaxSubmits,   \* bound: turns the agent closes
    Flagged,      \* the turns that carry a flag
    Invalid,      \* the turns the API refuses whatever their mode
    MaxBytes,     \* TurnOptions.max_bytes
    MaxTurns,     \* TurnOptions.max_turns
    Limit,        \* MAX_TURNS: turns one take() hands out
    MaxFlushes,   \* bound: calls of flush()
    MaxFaults     \* bound: failures, cancellations, changes of the profile

ASSUME TurnQueueAssumption ==
    /\ {MaxSubmits, MaxFlushes, MaxFaults, MaxBytes} \subseteq Nat
    /\ {MaxTurns, Limit} \subseteq Nat \ {0}
    /\ Flagged \cup Invalid \subseteq 1 .. MaxSubmits

VARIABLES
    submitted,    \* how many turns were closed
    entered,      \* history: how many of them recording let into the queue
    wakes,        \* the background sender will look at the queue again by itself
    turns,        \* TurnQueue._turns
    shed,         \* the turns whose values were dropped
    hashOnly,     \* the turns whose frame says mode = "hash_only"
    refused,      \* TurnRecorder._refused: digests only from here on
    off,          \* _off_until lies ahead (a 404 said so)
    listed,       \* the profile lists the feature `turns`
    pc,           \* where the sender in _send_next stands
    holder,       \* who holds _send_lock
    hand,         \* the frames of _send_next not answered for yet
    inFlight,     \* how many of them are in the request under way
    digests,      \* those whose record was built with digests only
    flushing,     \* "no", "asked" (waits for the lock), "in"
    asked,        \* how many turns were closed when flush() was called
    settled,      \* the same, of the last flush() that said True
    paused,       \* _Pacing holds the sender back
    stopping,     \* _stopping
    tally,        \* the recorder's counters: turns the API took, turns in `dropped`
    missed,       \* history, the turns that left and that no counter of the code holds: "cancelled" while
                  \* the profile was read, "unread" because the answer did not parse
    flushes, faults

entry == <<submitted, entered, missed, wakes>>
sender == <<pc, holder, hand, inFlight, digests>>
caller == <<flushing, asked, settled, stopping, flushes>>
vars == <<entry, turns, shed, hashOnly, refused, off, listed, sender, caller,
          paused, tally, faults>>

Senders == {"background", "caller"}
None == "none"
Kinds == {"taken", "dropped"}
NoLoss == [cancelled |-> 0, unread |-> 0]

-----------------------------------------------------------------------------
(* The queue *)

\* the sum of TurnFrame.size: a frame weighs one, and its values as much again
Bytes(q, gone) == Len(q) + Cardinality({i \in DOMAIN q : q[i] \notin gone})

\* where the turns stand whose values may go
Sheddable(q, gone) == {i \in DOMAIN q : q[i] \notin Flagged \cup gone}

\* _make_room: first values, as far as bytes ask for it, then whole turns
MakeRoom(q, gone) ==
    LET able == Sheddable(q, gone)
        Gone(k) == gone \cup {q[i] : i \in {j \in able : Cardinality({h \in able : h <= j}) <= k}}
        n == Cardinality(able)
        enough == {k \in 0 .. n : Bytes(q, Gone(k)) <= MaxBytes} \cup {n}
        left == Gone(Min(enough))
        Rest(d) == SubSeq(q, d + 1, Len(q))
        fits == {d \in 0 .. Len(q) : /\ Bytes(Rest(d), left) <= MaxBytes
                                     /\ Len(Rest(d)) <= MaxTurns}
    IN  [turns |-> Rest(Min(fits)), shed |-> left, dropped |-> Min(fits)]

Count(kind, n) == [tally EXCEPT ![kind] = @ + n]

\* the queue becomes q, and `counted` the counters, after _make_room
Becomes(q, counted) ==
    \E room \in {MakeRoom(q, shed)} :
        /\ turns' = room.turns
        /\ shed' = room.shed
        /\ tally' = [counted EXCEPT !.dropped = @ + room.dropped]

\* the request under way, and what comes after it
Batch == SubSeq(hand, 1, inFlight)
Later == SubSeq(hand, inFlight + 1, Len(hand))

-----------------------------------------------------------------------------
(* The agent's side *)

Recording == listed /\ ~off

Init ==
    /\ submitted = 0 /\ entered = 0 /\ missed = NoLoss /\ wakes = FALSE
    /\ turns = <<>> /\ shed = {} /\ hashOnly = {}
    /\ refused = FALSE /\ off = FALSE /\ listed = TRUE
    /\ pc = "idle" /\ holder = None /\ hand = <<>> /\ inFlight = 0 /\ digests = {}
    /\ flushing = "no" /\ asked = 0 /\ settled = 0 /\ stopping = FALSE /\ flushes = 0
    /\ paused = FALSE /\ faults = 0
    /\ tally = [k \in Kinds |-> 0]

\* submit(): into the queue, or nowhere while recording is off. notify() wakes the sender, except outside
\* of its loop: a call from another thread, or from none, leaves AsyncTurnSender as it was
Submit ==
    /\ submitted < MaxSubmits
    /\ submitted' = submitted + 1
    /\ IF Recording THEN /\ Becomes(Append(turns, submitted + 1), tally)
                         /\ entered' = entered + 1
                         /\ wakes' \in {wakes, TRUE}
                    ELSE UNCHANGED <<turns, shed, tally, entered, wakes>>
    /\ UNCHANGED <<missed, hashOnly, refused, off, listed, sender, caller, paused, faults>>

\* the sender finds nothing waiting, and sleeps until it is told of a new turn (wait_hint() is infinite)
Doze ==
    /\ wakes /\ turns = <<>> /\ holder # "background"
    /\ wakes' = FALSE
    /\ UNCHANGED <<submitted, entered, missed, turns, shed, hashOnly, refused, off, listed, sender, caller, paused,
                   tally, faults>>

\* OFF_FOR passes
OffEnds ==
    /\ off
    /\ off' = FALSE
    /\ UNCHANGED <<entry, turns, shed, hashOnly, refused, listed, sender, caller, paused, tally, faults>>

-----------------------------------------------------------------------------
(* flush(), stop() and the background loop *)

CallFlush ==
    /\ flushing = "no" /\ flushes < MaxFlushes
    /\ flushing' = "asked" /\ asked' = submitted /\ flushes' = flushes + 1
    /\ stopping' \in {stopping, TRUE}    \* stop() raises _stopping, then flushes
    /\ UNCHANGED <<entry, turns, shed, hashOnly, refused, off, listed, sender, settled, paused, tally, faults>>

EnterFlush ==
    /\ flushing = "asked" /\ holder = None
    /\ flushing' = "in" /\ holder' = "caller"
    /\ UNCHANGED <<entry, turns, shed, hashOnly, refused, off, listed, pc, hand, inFlight, digests,
                   asked, settled, stopping, flushes, paused, tally, faults>>

\* flush() gives the answer `done` and leaves the lock
Leave(done) ==
    /\ flushing' = "no" /\ holder' = None
    /\ settled' = IF done THEN asked ELSE settled
    /\ UNCHANGED <<asked, stopping, flushes>>

\* Mutant: flush() answers True when the queue is empty before it asks for the lock.
FlushDoneEarly ==
    /\ flushing \in {"asked", "in"} /\ turns = <<>>
    /\ flushing' = "no" /\ settled' = asked
    /\ holder' = IF flushing = "in" THEN None ELSE holder
    /\ UNCHANGED <<entry, turns, shed, hashOnly, refused, off, listed, pc, hand, inFlight, digests, asked, stopping,
                   flushes, paused, tally, faults>>

FlushDone ==
    /\ flushing = "in" /\ pc = "idle" /\ turns = <<>>
    /\ Leave(TRUE)
    /\ UNCHANGED <<entry, turns, shed, hashOnly, refused, off, listed, pc, hand, inFlight, digests, paused, tally,
                   faults>>

\* the deadline passes while flush() waits for the lock
FlushTooLate ==
    /\ flushing = "asked"
    /\ flushing' = "no"
    /\ UNCHANGED <<entry, turns, shed, hashOnly, refused, off, listed, sender, asked, settled, stopping, flushes,
                   paused, tally, faults>>

\* or between two batches
FlushTimeout ==
    /\ flushing = "in" /\ pc = "idle" /\ turns # <<>>
    /\ Leave(FALSE)
    /\ UNCHANGED <<entry, turns, shed, hashOnly, refused, off, listed, pc, hand, inFlight, digests, paused, tally,
                   faults>>

\* take(), by the loop when a batch is due, or by flush() at once
Take(s) ==
    /\ pc = "idle" /\ turns # <<>>
    /\ IF s = "caller" THEN holder = s
                       ELSE holder = None /\ wakes /\ ~paused /\ ~stopping
    /\ LET n == Min({Limit, Len(turns)})
       IN  /\ hand' = SubSeq(turns, 1, n)
           /\ turns' = SubSeq(turns, n + 1, Len(turns))
    /\ pc' = "refreshing" /\ holder' = s
    /\ UNCHANGED <<entry, shed, hashOnly, refused, off, listed, inFlight, digests, caller, paused, tally, faults>>

PauseEnds ==
    /\ paused
    /\ paused' = FALSE
    /\ UNCHANGED <<entry, turns, shed, hashOnly, refused, off, listed, sender, caller, tally, faults>>

-----------------------------------------------------------------------------
(* _send_next *)

\* Mutant: a failure leaves flush() without releasing the lock.
ReturnHeld(goOn) ==
    /\ pc' = "idle"
    /\ IF goOn /\ holder # "caller" THEN holder' = None ELSE UNCHANGED holder
    /\ flushing' = IF holder = "caller" /\ ~goOn THEN "no" ELSE flushing
    /\ UNCHANGED <<asked, settled, stopping, flushes>>

\* _send_next returns: the loop leaves the lock, flush() looks again or, told to pause, answers False
Return(goOn) ==
    /\ pc' = "idle"
    /\ IF holder = "caller" /\ goOn
       THEN UNCHANGED <<holder, flushing>>
       ELSE /\ holder' = None
            /\ flushing' = IF holder = "caller" THEN "no" ELSE flushing
    /\ UNCHANGED <<asked, settled, stopping, flushes>>

\* the profile is read again, and the space may have turned recording on or off meanwhile
Refresh ==
    /\ pc = "refreshing"
    /\ \/ UNCHANGED <<listed, faults>>
       \/ faults < MaxFaults /\ listed' = ~listed /\ faults' = faults + 1
    /\ \/ /\ listed' /\ ~off
          /\ pc' = "building"
          /\ UNCHANGED <<hand, holder, caller, tally>>
       \/ /\ ~(listed' /\ ~off)
          /\ hand' = <<>> /\ tally' = Count("dropped", Len(hand))
          /\ Return(TRUE)
    /\ UNCHANGED <<entry, turns, shed, hashOnly, refused, off, inFlight, digests, paused>>

\* mode_of
ModeOf(t) == IF t \in hashOnly \/ refused THEN "hash_only" ELSE "stored"

\* prepare(): the records in their mode, cut in requests of any sizes, the first of which leaves
Build ==
    /\ pc = "building"
    /\ pc' = "waiting"
    /\ inFlight' \in 1 .. Len(hand)
    /\ digests' = {t \in ToSet(hand) : ModeOf(t) = "hash_only"}
    /\ UNCHANGED <<entry, turns, shed, hashOnly, refused, off, listed, hand, holder, caller, paused, tally, faults>>

BuildFails ==
    /\ pc = "building" /\ faults < MaxFaults
    /\ faults' = faults + 1
    /\ hand' = <<>> /\ tally' = Count("dropped", Len(hand))
    /\ Return(TRUE)
    /\ UNCHANGED <<entry, turns, shed, hashOnly, refused, off, listed, inFlight, digests, paused>>

\* what the API refuses of a batch, when the source records digests only or more
Takes(t, onlyDigests) == t \notin Invalid /\ (onlyDigests => t \in digests)

\* the loop of _send_next goes to the next request, or returns True
NextBatch ==
    /\ hand' = Later
    /\ IF Later # <<>>
       THEN inFlight' \in 1 .. Len(Later) /\ UNCHANGED <<pc, holder, caller, digests>>
       ELSE inFlight' = 0 /\ digests' = {} /\ Return(TRUE)

\* the frames of a batch at some of its places, in their order
At(batch, places) ==
    {[i \in DOMAIN p |-> batch[p[i]]] :
        p \in {f \in [1 .. Cardinality(places) -> places] : \A i, j \in DOMAIN f : i < j => f[i] < f[j]}}

\* settle() without an error, and _accepted
Accepted ==
    /\ pc = "waiting"
    /\ \E onlyDigests \in BOOLEAN :
        LET good == {i \in DOMAIN Batch : Takes(Batch[i], onlyDigests)}
            back == {i \in DOMAIN Batch \ good : Batch[i] \notin Invalid \cup hashOnly}
            counted == [tally EXCEPT !.taken = @ + Cardinality(good),
                                     !.dropped = @ + inFlight - Cardinality(good) - Cardinality(back)]
        IN  \E again \in At(Batch, back) :
                /\ hashOnly' = hashOnly \cup ToSet(again)
                /\ refused' = (refused \/ again # <<>>)
                /\ IF again # <<>> THEN Becomes(again \o turns, counted)
                                   ELSE tally' = counted /\ UNCHANGED <<turns, shed>>
    /\ paused' = FALSE
    /\ NextBatch
    /\ UNCHANGED <<entry, off, listed, faults>>

\* an answer that is not one to this request: the frames are gone, and nobody counts them
Unread ==
    /\ pc = "waiting" /\ faults < MaxFaults
    /\ faults' = faults + 1
    /\ missed' = [missed EXCEPT !.unread = @ + inFlight]
    /\ paused' = FALSE
    /\ NextBatch
    /\ UNCHANGED <<submitted, entered, wakes, turns, shed, tally, hashOnly, refused, off, listed>>

\* 404: the space does not record turns
NotRecorded ==
    /\ pc = "waiting" /\ faults < MaxFaults
    /\ faults' = faults + 1
    /\ off' = TRUE /\ tally' = Count("dropped", inFlight)
    /\ NextBatch
    /\ UNCHANGED <<entry, turns, shed, hashOnly, refused, listed, paused>>

\* 413 of a turn alone: again with digests only; any other refusal of the whole request
TooLarge ==
    /\ pc = "waiting" /\ faults < MaxFaults
    /\ faults' = faults + 1
    /\ IF inFlight = 1 /\ Batch[1] \notin hashOnly
       THEN hashOnly' = hashOnly \cup {Batch[1]} /\ Becomes(Batch \o turns, tally)
       ELSE tally' = Count("dropped", inFlight) /\ UNCHANGED <<hashOnly, turns, shed>>
    /\ NextBatch
    /\ UNCHANGED <<entry, refused, off, listed, paused>>

\* 421, 429, 5xx or no answer: the batch goes back and the sender pauses
Fails ==
    /\ pc = "waiting" /\ faults < MaxFaults
    /\ faults' = faults + 1
    /\ Becomes(Batch \o turns, tally)
    /\ paused' = TRUE
    /\ pc' = "failing" /\ hand' = Later /\ inFlight' = 0
    /\ UNCHANGED <<entry, hashOnly, refused, off, listed, digests, holder, caller>>

\* Mutant: what was not sent is forgotten.
RequeueNone ==
    /\ pc = "failing"
    /\ hand' = <<>> /\ digests' = {}
    /\ Return(FALSE)
    /\ UNCHANGED <<entry, turns, shed, tally, hashOnly, refused, off, listed, inFlight, paused, faults>>

\* and what was not sent goes back after it
RequeueRest ==
    /\ pc = "failing"
    /\ IF hand = <<>> THEN UNCHANGED <<turns, shed, tally>> ELSE Becomes(hand \o turns, tally)
    /\ hand' = <<>> /\ digests' = {}
    /\ Return(FALSE)
    /\ UNCHANGED <<entry, hashOnly, refused, off, listed, inFlight, paused, faults>>

\* asyncio cancels the sender at one of its awaits: a flush() at any time, the task once stop() flushed
Cancelled ==
    /\ faults < MaxFaults
    /\ faults' = faults + 1
    /\ holder = "caller" \/ (stopping /\ flushing = "no")
    /\ \/ /\ pc = "refreshing"
          /\ missed' = [missed EXCEPT !.cancelled = @ + Len(hand)]
          /\ UNCHANGED <<turns, shed, tally>>
       \/ /\ pc \in {"building", "waiting"}
          /\ Becomes(hand \o turns, tally)
          /\ UNCHANGED missed
    /\ hand' = <<>> /\ inFlight' = 0 /\ digests' = {}
    /\ Return(FALSE)
    /\ UNCHANGED <<submitted, entered, wakes, hashOnly, refused, off, listed, paused>>

-----------------------------------------------------------------------------
SenderStep ==
    \/ Refresh \/ Build \/ BuildFails
    \/ Accepted \/ Unread \/ NotRecorded \/ TooLarge \/ Fails \/ RequeueRest

Next ==
    \/ Submit \/ Doze \/ OffEnds \/ PauseEnds
    \/ CallFlush \/ EnterFlush \/ FlushDone \/ FlushTooLate \/ FlushTimeout
    \/ \E s \in Senders : Take(s)
    \/ SenderStep \/ Cancelled

\* the sender loops while it is awake, its requests have timeouts, a pause ends; a flush() that holds the
\* lock goes on. Nothing makes an agent call flush() again, nor wakes a sender that sleeps
Fairness ==
    /\ WF_vars(SenderStep)
    /\ WF_vars(\E s \in Senders : Take(s))
    /\ WF_vars(FlushDone)
    /\ WF_vars(PauseEnds)

Spec == Init /\ [][Next]_vars

FairSpec == Spec /\ Fairness

-----------------------------------------------------------------------------
(* Properties *)

\* The shapes of the state; the queue within its two limits after every put and requeue.
TypeOK ==
    /\ submitted \in 0 .. MaxSubmits /\ entered \in 0 .. submitted
    /\ missed \in [DOMAIN NoLoss -> Nat]
    /\ turns \in Seq(1 .. submitted) /\ hand \in Seq(1 .. submitted)
    /\ Len(turns) <= MaxTurns /\ Bytes(turns, shed) <= MaxBytes
    /\ inFlight \in 0 .. Len(hand)
    /\ shed \cup hashOnly \cup digests \subseteq 1 .. submitted
    /\ tally \in [Kinds -> 0 .. MaxSubmits]
    /\ {refused, off, listed, paused, stopping, wakes} \subseteq BOOLEAN
    /\ pc \in {"idle", "refreshing", "building", "waiting", "failing"}
    /\ holder \in Senders \cup {None}
    /\ flushing \in {"no", "asked", "in"}
    /\ {asked, settled} \subseteq 0 .. submitted

\* A turn that was let into the queue is in one place: the queue, the sender's hands, `sent` or `dropped`. It
\* is never counted twice, though sent again after a lost answer, cut out of a full queue or refused in part;
\* and it is somewhere, as long as no batch left in one of the two ways that the code does not count (the
\* finding NothingVanishes shows one of them).
Accounted ==
    LET counted == Len(turns) + Len(hand) + tally["taken"] + tally["dropped"]
    IN  counted <= entered /\ (missed = NoLoss => counted = entered)

\* flush() that says True covers the turns that were closed before it was called, the batch another
\* sender had in flight and the turns put back to leave with digests only included.
FlushMeansSettled ==
    \A t \in 1 .. settled : t \notin ToSet(turns) \cup ToSet(hand)

\* `dropped` counts every turn that was lost (the recorder's documentation): none vanishes in between.
NothingVanishes == missed["cancelled"] = 0

\* Every turn leaves in the end: refusals by content mode and size do not send a turn round for ever, and a
\* failure only delays. Two things end that: stop(), and a sender that sleeps while turns wait for the next
\* flush(), because they were closed outside of its loop or given back by a flush() that failed.
TurnsSettle ==
    \/ <>[](turns = <<>> /\ pc = "idle")
    \/ <>stopping
    \/ <>[](turns # <<>> /\ ~wakes)

\* After a failure "the batch goes back to the front of the queue" (the sender's documentation): no turn
\* that was not sent yet stands before one of the batch that failed.
FailedBatchFirst ==
    [][pc = "failing" => \A i \in DOMAIN turns', t \in ToSet(hand) :
            turns'[i] = t => \A j \in i + 1 .. Len(turns') : turns'[j] > t]_vars
=============================================================================
