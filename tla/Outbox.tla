------------------------------- MODULE Outbox -------------------------------
(***************************************************************************)
(* The write outbox (_outbox.py), of both clients: a queue of writes, a    *)
(* daemon thread (or a task of the event loop) that sends them in order    *)
(* and pauses after a failure, flush() that sends from the caller, and     *)
(* stop(). A write is the number of its put().                             *)
(***************************************************************************)
EXTENDS Integers, Sequences, FiniteSets, SequencesExt

CONSTANTS
    Callers,     \* threads, or tasks, that call flush()
    NoOne,
    Capacity,    \* CAPACITY
    MaxWrites, MaxFlushes, MaxFaults  \* bounds

ASSUME OutboxAssumption ==
    /\ Capacity \in Nat \ {0} /\ {MaxWrites, MaxFlushes, MaxFaults} \subseteq Nat
    /\ NoOne \notin Callers /\ {"thread"} \cap (Callers \cup {NoOne}) = {}

Thread == "thread"
Actors == Callers \cup {Thread}
Locks == 1 .. 2

VARIABLES
    async,      \* AsyncOutbox, or SyncOutbox
    writes,     \* _writes
    lock,       \* _busy: which lock it is
    holder,     \* who holds each lock
    thread,     \* where _run is: "none", "top", "waiting", "woken", "entering", "sending", "gone"
    timed,      \* its wait has the pause as timeout
    wake,       \* _wake
    pausing,    \* the pause of _pacing has not passed
    stopping,   \* _stopping
    flush,      \* of each caller: step, the lock it took from _busy, the answer, the writes put before
    attempt,    \* the write each actor is sending, or 0
    puts, flushes, faults,
    settled,    \* history: the writes whose `settled` was called, in order
    dropped,    \* history: those counted in `dropped`
    cut,        \* history: a flush() left writes behind
    outside,    \* history: a put() outside the running loop, which waits for flush()
    shared      \* history: _busy was replaced while a flush() had the old one

queue == <<writes, puts, outside, dropped>>
loop == <<thread, timed, wake>>
locks == <<lock, holder, shared>>
vars == <<async, queue, loop, locks, pausing, stopping, flush, attempt, flushes, faults, settled, cut>>

NotCalled == [step |-> "idle", lock |-> 0, answer |-> "none", mark |-> 0]

Init ==
    /\ async \in BOOLEAN
    /\ writes = <<>> /\ puts = 0 /\ outside = FALSE /\ dropped = {}
    /\ thread = "none" /\ timed = FALSE /\ wake = FALSE
    /\ lock = 1 /\ holder = [l \in Locks |-> NoOne] /\ shared = FALSE
    /\ pausing = FALSE /\ stopping = FALSE
    /\ flush = [c \in Callers |-> NotCalled] /\ attempt = [a \in Actors |-> 0]
    /\ flushes = 0 /\ faults = 0 /\ settled = <<>> /\ cut = FALSE

-----------------------------------------------------------------------------
(* put() *)

\* past the capacity the oldest go
Kept(all) == SubSeq(all, IF Len(all) > Capacity THEN Len(all) - Capacity + 1 ELSE 1, Len(all))

\* an AsyncOutbox that starts its task replaces its lock; outside a running loop it starts none
Put(running) ==
    /\ puts < MaxWrites
    /\ running \/ async
    /\ puts' = puts + 1 /\ outside' = (outside \/ ~running)
    /\ LET all == Append(writes, puts + 1) IN
        /\ writes' = Kept(all)
        /\ dropped' = IF Len(all) > Capacity THEN dropped \cup {all[1]} ELSE dropped
    /\ IF running /\ thread = "none" /\ ~stopping
       THEN /\ thread' = "top"
            /\ lock' = (IF async THEN 2 ELSE 1)
            /\ shared' = (async /\ \E c \in Callers : flush[c].step # "idle")
       ELSE UNCHANGED <<thread, lock, shared>>
    /\ wake' = (wake \/ (running /\ ~(async /\ stopping)))
    /\ UNCHANGED <<async, timed, holder, pausing, stopping, flush, attempt, flushes, faults, settled, cut>>

-----------------------------------------------------------------------------
(* _run *)

Top ==
    /\ thread = "top"
    /\ IF stopping
       THEN thread' = "gone" /\ UNCHANGED timed
       ELSE thread' = "waiting" /\ timed' = pausing
    /\ UNCHANGED <<async, queue, wake, locks, pausing, stopping, flush, attempt, flushes, faults, settled, cut>>

\* a bug: the thread wakes for a put only
WokenByPut ==
    /\ thread = "waiting" /\ wake
    /\ thread' = "woken"
    /\ UNCHANGED <<async, queue, timed, wake, locks, pausing, stopping, flush, attempt, flushes, faults, settled, cut>>

\* the wake, or the timeout, when the pause is over
Woken ==
    /\ thread = "waiting" /\ (wake \/ (timed /\ ~pausing))
    /\ thread' = "woken"
    /\ UNCHANGED <<async, queue, timed, wake, locks, pausing, stopping, flush, attempt, flushes, faults, settled, cut>>

Look ==
    /\ thread = "woken"
    /\ wake' = FALSE
    /\ thread' = IF stopping THEN "gone" ELSE IF pausing THEN "top" ELSE "entering"
    /\ UNCHANGED <<async, queue, timed, locks, pausing, stopping, flush, attempt, flushes, faults, settled, cut>>

Enter ==
    /\ thread = "entering" /\ holder[lock] = NoOne
    /\ thread' = "sending" /\ holder' = [holder EXCEPT ![lock] = Thread]
    /\ UNCHANGED <<async, queue, timed, wake, lock, shared, pausing, stopping, flush, attempt, flushes, faults, settled, cut>>

\* the pause, a second at least, outlasts the way from a failure to the wait that has it as timeout
PauseEnds ==
    /\ pausing /\ thread # "top" /\ pausing' = FALSE
    /\ UNCHANGED <<async, queue, loop, locks, stopping, flush, attempt, flushes, faults, settled, cut>>

-----------------------------------------------------------------------------
(* flush() and stop() *)

CallFlush(c) ==
    /\ flush[c].step = "idle" /\ flushes < MaxFlushes
    /\ flushes' = flushes + 1
    /\ flush' = [flush EXCEPT ![c] = [step |-> "acquiring", lock |-> lock, answer |-> "none", mark |-> puts]]
    /\ UNCHANGED <<async, queue, loop, locks, pausing, stopping, attempt, faults, settled, cut>>

\* a bug: it does not wait for the lock
AcquireAnyway(c) ==
    /\ flush[c].step = "acquiring"
    /\ holder' = [holder EXCEPT ![flush[c].lock] = c]
    /\ flush' = [flush EXCEPT ![c].step = "sending"]
    /\ UNCHANGED <<async, queue, loop, lock, shared, pausing, stopping, attempt, flushes, faults, settled, cut>>

Acquire(c) ==
    /\ flush[c].step = "acquiring" /\ holder[flush[c].lock] = NoOne
    /\ holder' = [holder EXCEPT ![flush[c].lock] = c]
    /\ flush' = [flush EXCEPT ![c].step = "sending"]
    /\ UNCHANGED <<async, queue, loop, lock, shared, pausing, stopping, attempt, flushes, faults, settled, cut>>

\* its time ran out before it had the lock
TooLate(c) ==
    /\ flush[c].step = "acquiring"
    /\ flush' = [flush EXCEPT ![c].step = "idle", ![c].answer = "false"]
    /\ UNCHANGED <<async, queue, loop, locks, pausing, stopping, attempt, flushes, faults, settled, cut>>

\* stop() is a flush() that ends the thread; the task of an AsyncOutbox is cancelled after it (Cancelled)
Stop(c) ==
    /\ flush[c].step = "idle" /\ ~stopping /\ flushes < MaxFlushes
    /\ stopping' = TRUE /\ wake' = (wake \/ ~async)
    /\ flushes' = flushes + 1
    /\ flush' = [flush EXCEPT ![c] = [step |-> "acquiring", lock |-> lock, answer |-> "none", mark |-> puts]]
    /\ UNCHANGED <<async, queue, thread, timed, locks, pausing, attempt, faults, settled, cut>>

Cancelled ==
    /\ async /\ stopping /\ thread \notin {"none", "gone"} /\ \E c \in Callers : flush[c].step = "idle"
    /\ thread' = "gone" /\ attempt' = [attempt EXCEPT ![Thread] = 0]
    /\ holder' = [l \in Locks |-> IF holder[l] = Thread THEN NoOne ELSE holder[l]]
    /\ UNCHANGED <<async, queue, timed, wake, lock, shared, pausing, stopping, flush, flushes, faults, settled, cut>>

-----------------------------------------------------------------------------
(* What both do with the lock *)

Sending(a) == IF a = Thread THEN thread = "sending" ELSE flush[a].step = "sending"

\* leaves the loop, with flush()'s answer
Leave(a, answer) ==
    /\ holder' = [l \in Locks |-> IF holder[l] = a THEN NoOne ELSE holder[l]]
    /\ IF a = Thread
       THEN thread' = "top" /\ UNCHANGED flush
       ELSE flush' = [flush EXCEPT ![a].step = "idle", ![a].answer = answer] /\ UNCHANGED thread
    /\ UNCHANGED <<async, queue, timed, wake, lock, shared, stopping, flushes>>

Attempt(a) ==
    /\ Sending(a) /\ attempt[a] = 0 /\ writes # <<>>
    /\ attempt' = [attempt EXCEPT ![a] = Head(writes)]
    /\ UNCHANGED <<async, queue, loop, locks, pausing, stopping, flush, flushes, faults, settled, cut>>

AllSent(a) ==
    /\ Sending(a) /\ attempt[a] = 0 /\ writes = <<>>
    /\ Leave(a, "true")
    /\ UNCHANGED <<pausing, attempt, faults, settled, cut>>

Deadline(c) ==
    /\ Sending(c) /\ attempt[c] = 0 /\ writes # <<>>
    /\ Leave(c, "false") /\ cut' = TRUE
    /\ UNCHANGED <<pausing, attempt, faults, settled>>

\* what _settle leaves; a bug: the head goes, whichever write it is
WithoutHead(write) == IF writes # <<>> THEN Tail(writes) ELSE writes
Rest(write) == IF writes # <<>> /\ Head(writes) = write THEN Tail(writes) ELSE writes

\* _settle of an answer, or of an error that will not pass
Settle(a) ==
    /\ attempt[a] # 0
    /\ writes' = Rest(attempt[a])
    /\ settled' = Append(settled, attempt[a])
    /\ pausing' = FALSE /\ attempt' = [attempt EXCEPT ![a] = 0]
    /\ UNCHANGED <<async, puts, outside, dropped, loop, locks, stopping, flush, flushes, faults, cut>>

\* _settle of one that may; a bug: flush() answers as if it had sent all
FailsUnsaid(a) ==
    /\ attempt[a] # 0 /\ faults < MaxFaults
    /\ faults' = faults + 1 /\ pausing' = TRUE /\ attempt' = [attempt EXCEPT ![a] = 0]
    /\ Leave(a, "true")
    /\ cut' = (cut \/ a # Thread) /\ UNCHANGED settled

Fails(a) ==
    /\ attempt[a] # 0 /\ faults < MaxFaults
    /\ faults' = faults + 1 /\ pausing' = TRUE /\ attempt' = [attempt EXCEPT ![a] = 0]
    /\ Leave(a, "false")
    /\ cut' = (cut \/ a # Thread) /\ UNCHANGED settled

-----------------------------------------------------------------------------
Step(a) == Attempt(a) \/ AllSent(a) \/ Settle(a) \/ Fails(a)
ThreadStep == Top \/ Woken \/ Look \/ Enter \/ Step(Thread)
FlushStep(c) == Acquire(c) \/ TooLate(c) \/ Deadline(c) \/ Step(c)

Next ==
    \/ \E running \in BOOLEAN : Put(running)
    \/ \E c \in Callers : CallFlush(c) \/ Stop(c) \/ FlushStep(c)
    \/ ThreadStep \/ PauseEnds \/ Cancelled

\* threads run, requests have a budget, a pause passes, and a lock that comes free again and again is got
Fairness ==
    /\ WF_vars(ThreadStep) /\ SF_vars(Enter) /\ WF_vars(PauseEnds)
    /\ \A c \in Callers : WF_vars(FlushStep(c))

Spec == Init /\ [][Next]_vars

FairSpec == Spec /\ Fairness

-----------------------------------------------------------------------------
(* Properties *)

Waiting == ToSet(writes)
Settled == ToSet(settled)

\* The shapes of the state; a lock is held by who is past it, and the queue is in order and within CAPACITY.
TypeOK ==
    /\ {async, timed, wake, pausing, stopping, cut, outside, shared} \subseteq BOOLEAN
    /\ writes \in Seq(1 .. puts) /\ Len(writes) <= Capacity
    /\ \A i, j \in DOMAIN writes : i < j => writes[i] < writes[j]
    /\ thread \in {"none", "top", "waiting", "woken", "entering", "sending", "gone"}
    /\ lock \in Locks /\ holder \in [Locks -> Actors \cup {NoOne}]
    /\ \A a \in Actors : Sending(a) <=> \E l \in Locks : holder[l] = a
    /\ attempt \in [Actors -> 0 .. puts] /\ \A a \in Actors : attempt[a] # 0 => Sending(a)

\* A write that was put is waiting, settled, or counted in `dropped`: also the one that is dropped for want
\* of room while it is being sent.
Accounted == 1 .. puts = Waiting \cup Settled \cup dropped

\* Writes settle in the order of put(), each once, by whichever of the thread and the callers they are
\* sent; unless the lock was replaced under a flush() (see OnlyOnce).
InOrder == ~shared => \A i, j \in DOMAIN settled : i < j => settled[i] < settled[j]

\* flush() that answers True: every write put before it was called has settled, or was dropped.
FlushMeansSettled ==
    \A c \in Callers : flush[c].answer = "true" => 1 .. flush[c].mark \subseteq Settled \cup dropped

Served(w) == w \in Settled \cup dropped \/ stopping \/ outside

\* A write settles in the end, through the pauses, unless a flush() gave up on the queue (see SentInTheEnd).
WritesSettle == \A w \in 1 .. MaxWrites : (w <= puts) ~> (Served(w) \/ cut)

\* "Declarations [...] are sent again until Niadra takes them" (coordination/client.py).
SentInTheEnd == \A w \in 1 .. MaxWrites : (w <= puts) ~> Served(w)

\* "Writes [...] sent in the background and in order" (_outbox.py), and `settled` is called once for each.
OnlyOnce == \A i, j \in DOMAIN settled : i < j => settled[i] < settled[j]
=============================================================================
