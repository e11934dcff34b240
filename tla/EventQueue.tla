----------------------------- MODULE EventQueue -----------------------------
(***************************************************************************)
(* The queue behind track(): EventBuffer, its background sender and        *)
(* flush()/stop() of SyncFlusher and AsyncFlusher (niadra/_queue.py), and  *)
(* the memory API they post batches to.                                    *)
(*                                                                         *)
(* An item is the number of the put() that offered it, a heartbeat the     *)
(* number after MaxItems of the window it closes; both are carried in      *)
(* batches.  Time is abstracted: `elapsed` says that interval or           *)
(* turn_interval passed for what waits, `paused` that a failure holds the  *)
(* background sender back.  A request the client gave up on may still land *)
(* at the API, at any later time: it is then in `late`.                    *)
(***************************************************************************)
EXTENDS Integers, Sequences, FiniteSets, Functions

CONSTANTS
  Callers,       \* threads or tasks that call flush() and stop()
  Background,    \* the flusher's own thread or task
  NoOne,         \* the send lock is free; nobody is stopping
  Async,         \* AsyncFlusher (TRUE) or SyncFlusher (FALSE)
  MaxItems,      \* bound: items offered
  MaxBeats,      \* bound: heartbeats emitted
  MaxFlushes,    \* bound: calls of flush() and stop()
  MaxFaults,     \* bound: failed sends, cancellations and interrupts
  Capacity,      \* QueueOptions.capacity
  BatchSize,     \* QueueOptions.batch_size, which makes a batch due
  BatchLimit,    \* MAX_BATCH_ITEMS, what one request may carry
  Refusable      \* items the API refuses one by one in a 207

Senders == Callers \cup {Background}
Items   == 1..MaxItems
Beats   == (MaxItems + 1)..(MaxItems + MaxBeats)
Ids     == Items \cup Beats

ASSUME ConstantsAssumption ==
  /\ Background \notin Callers /\ NoOne \notin Senders
  /\ Async \in BOOLEAN
  /\ MaxItems \in Nat /\ MaxBeats \in Nat /\ MaxFlushes \in Nat /\ MaxFaults \in Nat
  /\ Capacity \in Nat \ {0} /\ BatchSize \in Nat \ {0} /\ BatchLimit \in Nat \ {0}
  /\ Refusable \subseteq Items

VARIABLES
  items,      \* EventBuffer._items
  elapsed,    \* the oldest item or turn waited its interval
  offered,    \* put() calls so far
  dropped,    \* EventBuffer.dropped
  lost,       \* which ids `dropped` counts (history)
  sent,       \* Heartbeat._sent
  beats,      \* heartbeats emitted
  claimed,    \* what their counters add up to (history)
  pc,         \* what each sender is doing
  held,       \* the batch each sender took (`batch` in _send_one)
  holder,     \* who holds the send lock or gate
  paused,     \* _Pacing.remaining() > 0
  stopping,   \* _stopping
  closing,    \* the caller inside stop()
  mark,       \* what was offered when each caller called flush() (history)
  result,     \* what its last flush() returned
  abandoned,  \* ids an interrupt left in no queue (history)
  flushes, faults,    \* bounded counters
  landed,     \* ids the API has processed
  beatsIn,    \* how often it received each heartbeat
  late        \* batches given up on that may still land

buffer == <<items, elapsed, offered, dropped, lost>>
pulse  == <<sent, beats, claimed>>
api    == <<landed, beatsIn, late>>
calls  == <<stopping, closing, mark, result, flushes>>
vars   == <<buffer, pulse, pc, held, holder, paused, abandoned, faults, calls, api>>

Min2(a, b) == IF a < b THEN a ELSE b

Init ==
  /\ items = <<>> /\ elapsed = FALSE /\ offered = 0 /\ dropped = 0 /\ lost = {}
  /\ sent = 0 /\ beats = 0 /\ claimed = 0
  /\ pc = [s \in Senders |-> "idle"]
  /\ held = [s \in Senders |-> <<>>]
  /\ holder = NoOne
  /\ paused = FALSE /\ stopping = FALSE /\ closing = NoOne
  /\ mark = [c \in Callers |-> 0] /\ result = [c \in Callers |-> "none"]
  /\ abandoned = {} /\ flushes = 0 /\ faults = 0
  /\ landed = {} /\ beatsIn = [b \in Beats |-> 0] /\ late = {}
-----------------------------------------------------------------------------
(* The buffer. *)

\* Mutant: only a full batch is due.
DueWhenFull == Len(items) >= BatchSize

Due == items # <<>> /\ (Len(items) >= BatchSize \/ elapsed)

\* interval, or turn_interval, passed for what is waiting.
TimePasses ==
  /\ items # <<>> /\ ~elapsed
  /\ elapsed' = TRUE
  /\ UNCHANGED <<items, offered, dropped, lost, pulse, pc, held, holder, paused, abandoned,
                 faults, calls, api>>

\* track(): the next item joins the queue, or is dropped and counted when it is full.
Put ==
  /\ offered < MaxItems
  /\ offered' = offered + 1
  /\ IF Len(items) >= Capacity
       THEN /\ dropped' = dropped + 1
            /\ lost' = lost \cup {offered + 1}
            /\ UNCHANGED items
       ELSE /\ items' = Append(items, offered + 1)
            /\ UNCHANGED <<dropped, lost>>
  /\ UNCHANGED <<elapsed, pulse, pc, held, holder, paused, abandoned, faults, calls, api>>

\* Mutant: what requeue() cuts is not counted.
CutNone(batch) == <<>>

\* requeue(): a batch goes back to the front; what does not fit is dropped from its end.
Kept(batch) == SubSeq(batch, 1, Min2(Len(batch), Capacity - Len(items)))
Cut(batch)  == SubSeq(batch, Len(Kept(batch)) + 1, Len(batch))

\* Mutant: the batch goes to the back.
RequeueAtBack(batch) ==
  /\ items' = items \o Kept(batch)
  /\ dropped' = dropped + Len(Cut(batch)) /\ lost' = lost \cup Range(Cut(batch))
  /\ UNCHANGED <<elapsed, offered>>

Requeue(batch) ==
  /\ items' = Kept(batch) \o items
  /\ dropped' = dropped + Len(Cut(batch))
  /\ lost' = lost \cup Range(Cut(batch))
  /\ UNCHANGED <<elapsed, offered>>

\* drop(): the ids of D will never reach memory.
Drop(D) ==
  /\ dropped' = dropped + Cardinality(D)
  /\ lost' = lost \cup D
  /\ UNCHANGED <<items, elapsed, offered>>
-----------------------------------------------------------------------------
(* The send lock, held from before a batch is taken until it is settled. *)

Goto(s, label) == pc' = [pc EXCEPT ![s] = label]

\* Leaves flush() or one round of the background loop; an async stop() then cancels the task.
Leave(s) ==
  /\ holder' = IF holder = s THEN NoOne ELSE holder
  /\ Goto(s, IF s = closing /\ Async THEN "join" ELSE "idle")

Return(c, value) == Leave(c) /\ result' = [result EXCEPT ![c] = value]

\* Mutant: a sender does not look whether the lock is free.
AcquireAnyway(s) ==
  /\ pc[s] = "wait"
  /\ holder' = s
  /\ Goto(s, "loop")
  /\ UNCHANGED <<buffer, pulse, held, paused, abandoned, faults, calls, api>>

Acquire(s) ==
  /\ pc[s] = "wait" /\ holder = NoOne
  /\ holder' = s
  /\ Goto(s, "loop")
  /\ UNCHANGED <<buffer, pulse, held, paused, abandoned, faults, calls, api>>

(* flush() and stop(), called by user code. *)

CallFlush(c) ==
  /\ pc[c] = "idle" /\ flushes < MaxFlushes
  /\ flushes' = flushes + 1
  /\ mark' = [mark EXCEPT ![c] = offered]
  /\ result' = [result EXCEPT ![c] = "none"]
  /\ closing' = IF closing = c THEN NoOne ELSE closing
  /\ Goto(c, "wait")
  /\ UNCHANGED <<buffer, pulse, held, holder, paused, abandoned, faults, stopping, api>>

CallStop(c) ==
  /\ pc[c] = "idle" /\ flushes < MaxFlushes /\ ~stopping
  /\ stopping' = TRUE /\ closing' = c
  /\ flushes' = flushes + 1
  /\ mark' = [mark EXCEPT ![c] = offered]
  /\ result' = [result EXCEPT ![c] = "none"]
  /\ Goto(c, "wait")
  /\ UNCHANGED <<buffer, pulse, held, holder, paused, abandoned, faults, api>>

\* Mutant: flush() looks at the queue before it waits for the batch in flight.
FlushDoneEarly(c) ==
  /\ pc[c] \in {"wait", "loop"} /\ items = <<>>
  /\ Return(c, "true")
  /\ UNCHANGED <<buffer, pulse, held, paused, abandoned, faults, stopping, closing, mark,
                 flushes, api>>

\* flush() found the queue empty.
FlushDone(c) ==
  /\ pc[c] = "loop" /\ items = <<>>
  /\ Return(c, "true")
  /\ UNCHANGED <<buffer, pulse, held, paused, abandoned, faults, stopping, closing, mark,
                 flushes, api>>

\* Its deadline passed, waiting for the lock or between two batches.
FlushTimeout(c) ==
  /\ pc[c] = "wait" \/ (pc[c] = "loop" /\ items # <<>>)
  /\ Return(c, "false")
  /\ UNCHANGED <<buffer, pulse, held, paused, abandoned, faults, stopping, closing, mark,
                 flushes, api>>

(* The background loop, _run(). *)

BgWake ==
  /\ pc[Background] = "idle" /\ ~stopping
  /\ Due /\ ~paused
  /\ Goto(Background, "wait")
  /\ UNCHANGED <<buffer, pulse, held, holder, paused, abandoned, faults, calls, api>>

\* Someone else sent what was due, or failed, while it waited for the lock.
BgSkip ==
  /\ pc[Background] = "loop" /\ (~Due \/ paused)
  /\ Leave(Background)
  /\ UNCHANGED <<buffer, pulse, held, paused, abandoned, faults, calls, api>>

PauseEnds ==
  /\ paused /\ paused' = FALSE
  /\ UNCHANGED <<buffer, pulse, pc, held, holder, abandoned, faults, calls, api>>
-----------------------------------------------------------------------------
(* _send_one(), with the lock held: take and prepare a batch, post it, settle the answer. *)

Take(s) ==
  /\ pc[s] = "loop" /\ items # <<>>
  /\ s = Background => Due /\ ~paused
  /\ LET n == Min2(BatchLimit, Len(items)) IN
       /\ held' = [held EXCEPT ![s] = SubSeq(items, 1, n)]
       /\ items' = SubSeq(items, n + 1, Len(items))
  /\ elapsed' = FALSE
  /\ Goto(s, "beat")
  /\ UNCHANGED <<offered, dropped, lost, pulse, holder, paused, abandoned, faults, calls, api>>

\* Mutant: items are counted when they are posted, not when the API answers.
PostCounted(s) ==
  /\ pc[s] = "beat"
  /\ sent' = sent + Len(held[s])
  /\ Goto(s, "sent")
  /\ UNCHANGED <<buffer, beats, claimed, held, holder, paused, abandoned, faults, calls, api>>

\* No heartbeat is due: the batch leaves as it is.
Post(s) ==
  /\ pc[s] = "beat"
  /\ Goto(s, "sent")
  /\ UNCHANGED <<buffer, pulse, held, holder, paused, abandoned, faults, calls, api>>

\* A heartbeat is due: it joins the batch, or waits at the front of the queue when that is full.
PostWithBeat(s) ==
  /\ pc[s] = "beat" /\ sent > 0 /\ beats < MaxBeats
  /\ beats' = beats + 1 /\ claimed' = claimed + sent /\ sent' = 0
  /\ LET beat == MaxItems + beats + 1 IN
       IF Len(held[s]) < BatchLimit
         THEN held' = [held EXCEPT ![s] = Append(held[s], beat)] /\ UNCHANGED buffer
         ELSE Requeue(<<beat>>) /\ UNCHANGED held
  /\ Goto(s, "sent")
  /\ UNCHANGED <<holder, paused, abandoned, faults, calls, api>>

\* The API applies a batch. It knows an item's idempotency key again; a heartbeat has none.
Apply(batch) ==
  /\ landed' = landed \cup Range(batch)
  /\ beatsIn' = [b \in Beats |-> IF b \in Range(batch) THEN beatsIn[b] + 1 ELSE beatsIn[b]]

Land(s) ==
  /\ pc[s] = "sent"
  /\ Apply(held[s])
  /\ Goto(s, "answered")
  /\ UNCHANGED <<buffer, pulse, held, holder, paused, abandoned, faults, calls, late>>

LandLate ==
  /\ \E batch \in late : Apply(batch) /\ late' = late \ {batch}
  /\ UNCHANGED <<buffer, pulse, pc, held, holder, paused, abandoned, faults, calls>>

\* A request that has not landed when the client gives up on it may still do so.
GiveUpOn(s) ==
  /\ \/ UNCHANGED late
     \/ pc[s] # "answered" /\ late' = late \cup {held[s]}
  /\ UNCHANGED <<landed, beatsIn>>

\* After a batch flush() goes on with the next one; the background loop starts over.
GoOn(s, again) ==
  IF s \in Callers /\ again
    THEN Goto(s, "loop") /\ UNCHANGED <<holder, result>>
    ELSE IF s \in Callers THEN Return(s, "false")
                          ELSE Leave(s) /\ UNCHANGED result

Release(s) == held' = [held EXCEPT ![s] = <<>>]

\* 2xx or 207: the items the API refused one by one are counted; heartbeats are not.
Answered(s) ==
  /\ pc[s] = "answered"
  /\ Drop(Range(held[s]) \cap Refusable)
  /\ paused' = FALSE
  /\ sent' = sent + Len(held[s])
  /\ Release(s) /\ GoOn(s, TRUE)
  /\ UNCHANGED <<beats, claimed, abandoned, faults, stopping, closing, mark, flushes, api>>

\* Any other 4xx: the whole batch is dropped. An earlier attempt of it may still land.
Rejected(s) ==
  /\ pc[s] = "sent"
  /\ Drop(Range(held[s]) \cap Items)
  /\ GiveUpOn(s)
  /\ Release(s) /\ GoOn(s, TRUE)
  /\ UNCHANGED <<pulse, paused, abandoned, faults, stopping, closing, mark, flushes>>

\* Retryable, or unexpected: no answer in time, a lost one, a 5xx, a 429.
Failed(s) ==
  /\ pc[s] \in {"sent", "answered"} /\ faults < MaxFaults
  /\ faults' = faults + 1
  /\ Requeue(held[s])
  /\ paused' = TRUE
  /\ GiveUpOn(s)
  /\ Release(s) /\ GoOn(s, FALSE)
  /\ UNCHANGED <<pulse, abandoned, stopping, closing, mark, flushes>>
-----------------------------------------------------------------------------
(* What user code does to a sender that waits: asyncio cancellation, KeyboardInterrupt. *)

Sending(s) == pc[s] \in {"sent", "answered"}

\* CancelledError in _send_one: the batch goes back, the gate is released, no pause.
CancelSend(s) ==
  /\ Sending(s)
  /\ Requeue(held[s]) /\ GiveUpOn(s) /\ Release(s)
  /\ holder' = IF holder = s THEN NoOne ELSE holder

\* The task awaiting flush() or stop() is cancelled.
CancelFlush(c) ==
  /\ Async /\ faults < MaxFaults
  /\ faults' = faults + 1
  /\ \/ CancelSend(c)
     \/ pc[c] = "wait" /\ UNCHANGED <<buffer, held, holder, api>>
  /\ Goto(c, "idle")
  /\ UNCHANGED <<pulse, paused, abandoned, calls>>

\* The end of AsyncFlusher.stop(): a background task still there is cancelled where it awaits.
StopTask(c) ==
  /\ pc[c] = "join" /\ pc[Background] \notin {"loop", "beat"}
  /\ \/ CancelSend(Background)
     \/ ~Sending(Background) /\ UNCHANGED <<buffer, held, holder, api>>
  /\ pc' = [pc EXCEPT ![c] = "idle", ![Background] = "idle"]
  /\ UNCHANGED <<pulse, paused, abandoned, faults, calls>>

\* KeyboardInterrupt in SyncFlusher._send_one is no Exception: nothing puts the batch back.
Interrupt(c) ==
  /\ ~Async /\ Sending(c) /\ faults < MaxFaults
  /\ faults' = faults + 1
  /\ abandoned' = abandoned \cup Range(held[c])
  /\ GiveUpOn(c) /\ Release(c)
  /\ holder' = IF holder = c THEN NoOne ELSE holder
  /\ Goto(c, "idle")
  /\ UNCHANGED <<buffer, pulse, paused, calls>>

SenderStep(s) ==
  Acquire(s) \/ Take(s) \/ Post(s) \/ PostWithBeat(s) \/ Answered(s) \/ Rejected(s) \/ Failed(s)

CallerStep(c) ==
  \/ CallFlush(c) \/ CallStop(c) \/ FlushDone(c) \/ FlushTimeout(c)
  \/ CancelFlush(c) \/ StopTask(c) \/ Interrupt(c)

Next ==
  \/ Put \/ TimePasses \/ PauseEnds \/ LandLate
  \/ BgWake \/ BgSkip
  \/ \E s \in Senders : SenderStep(s) \/ Land(s)
  \/ \E c \in Callers : CallerStep(c)

Spec == Init /\ [][Next]_vars

\* The flusher keeps running, requests end, and pauses pass; users need not call anything.
Fairness ==
  /\ WF_vars(TimePasses) /\ WF_vars(PauseEnds)
  /\ WF_vars(BgWake) /\ WF_vars(BgSkip)
  /\ \A s \in Senders : WF_vars(SenderStep(s)) /\ WF_vars(Land(s))
  /\ \A c \in Callers : WF_vars(FlushDone(c)) /\ WF_vars(StopTask(c))

FairSpec == Spec /\ Fairness
-----------------------------------------------------------------------------
(* Properties. *)

TypeOK ==
  /\ items \in Seq(Ids) /\ Len(items) <= Capacity
  /\ elapsed \in BOOLEAN /\ offered \in 0..MaxItems /\ dropped \in Nat /\ lost \subseteq Ids
  /\ sent \in Nat /\ beats \in 0..MaxBeats /\ claimed \in Nat
  /\ pc \in [Senders -> {"idle", "wait", "loop", "beat", "sent", "answered", "join"}]
  /\ held \in [Senders -> Seq(Ids)]
  /\ holder \in Senders \cup {NoOne}
  /\ paused \in BOOLEAN /\ stopping \in BOOLEAN /\ closing \in Callers \cup {NoOne}
  /\ mark \in [Callers -> 0..MaxItems] /\ result \in [Callers -> {"none", "true", "false"}]
  /\ abandoned \subseteq Ids /\ flushes \in Nat /\ faults \in Nat
  /\ landed \subseteq Ids /\ beatsIn \in [Beats -> Nat] /\ late \subseteq Seq(Ids)

Queued    == Range(items)
InFlight  == UNION {Range(held[s]) : s \in Senders}
Undoubted == landed \cup lost \cup abandoned

\* Every item the queue accepted is waiting, in a batch being sent, in memory or counted in
\* `dropped`; only an interrupted sync flush() takes one out of all of these.
NothingLost ==
  1..offered \subseteq Queued \cup InFlight \cup (landed \ Refusable) \cup lost \cup abandoned

\* One batch is in flight per client, and only its holder has the lock.
OneInFlight ==
  \A s \in Senders : pc[s] \in {"loop", "beat", "sent", "answered"} => holder = s

\* flush() that returned True: all that was queued when it was called has been answered, the
\* batch the background sender had in flight included.
FlushMeansAnswered ==
  \A c \in Callers : result[c] = "true" => 1..mark[c] \subseteq Undoubted

\* The heartbeat counters never claim an item the API has not received.
HeartbeatsHonest ==
  sent + claimed <= Cardinality(landed)

\* Once the API answers again, whatever is queued and not abandoned ends in memory or is counted,
\* unless the client was stopped.
EventuallySettled ==
  \A i \in Items : [](i <= offered => <>(i \in Undoubted \/ stopping))

\* The queue keeps the promise of track(): what it shows of its items is an ordered delivery.
Promise == INSTANCE Delivery WITH
  memory <- landed \cap Items, givenUp <- (lost \cup abandoned) \cap Items

KeepsPromise == Promise!Spec

(* Claims of the code's comments that the code does not keep. *)

\* _queue.py: "Every item that will never reach memory is counted in `dropped`".
EveryLossCounted ==
  \A i \in abandoned \cap Items :
    i \in landed \cup lost \/ \E batch \in late : i \in Range(batch)

\* README: "a retried batch never duplicates anything".
NeverDuplicated == \A b \in Beats : beatsIn[b] <= 1
=============================================================================
