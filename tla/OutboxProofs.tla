---------------------------- MODULE OutboxProofs ----------------------------
(***************************************************************************)
(* What holds of the write outbox for every capacity, any number of        *)
(* callers, writes, flushes and failures, in both clients.                 *)
(***************************************************************************)
EXTENDS Outbox, SequenceTheorems, TLAPS

Steps == {"idle", "acquiring", "sending"}
ThreadSteps == {"none", "top", "waiting", "woken", "entering", "sending", "gone"}
Increasing(q) == \A i, j \in DOMAIN q : i < j => q[i] < q[j]

-----------------------------------------------------------------------------
(* Sequences of writes. *)

\* A write that is newer than all that wait keeps them in order.
LEMMA AppendInOrder ==
    ASSUME NEW n \in Nat, NEW q \in Seq(1 .. n), Increasing(q)
    PROVE  /\ Append(q, n + 1) \in Seq(1 .. n + 1) /\ Increasing(Append(q, n + 1))
           /\ Len(Append(q, n + 1)) = Len(q) + 1 /\ Len(q) \in Nat
           /\ ToSet(Append(q, n + 1)) = ToSet(q) \cup {n + 1}
<1>1. q \in Seq(1 .. n + 1)
    BY SeqMonotonic
<1>2. /\ Append(q, n + 1) \in Seq(1 .. n + 1)
      /\ Len(Append(q, n + 1)) = Len(q) + 1 /\ Len(q) \in Nat
      /\ DOMAIN Append(q, n + 1) = 1 .. Len(q) + 1 /\ DOMAIN q = 1 .. Len(q)
      /\ \A i \in 1 .. Len(q) : Append(q, n + 1)[i] = q[i] /\ q[i] \in 1 .. n
      /\ Append(q, n + 1)[Len(q) + 1] = n + 1
    BY <1>1
<1>3. Increasing(Append(q, n + 1))
    BY <1>2 DEF Increasing
<1>4. ToSet(Append(q, n + 1)) = ToSet(q) \cup {n + 1}
    BY <1>2 DEF ToSet
<1> QED BY <1>2, <1>3, <1>4

\* A queue without its head is the rest of it, in order.
LEMMA TailInOrder ==
    ASSUME NEW n \in Nat, NEW q \in Seq(1 .. n), Increasing(q), q # <<>>
    PROVE  /\ Tail(q) \in Seq(1 .. n) /\ Increasing(Tail(q)) /\ Len(Tail(q)) <= Len(q)
           /\ Head(q) \in 1 .. n /\ Head(q) = q[1]
           /\ ToSet(q) = ToSet(Tail(q)) \cup {Head(q)}
           /\ \A w \in ToSet(Tail(q)) : Head(q) < w
<1>1. /\ Tail(q) \in Seq(1 .. n) /\ Len(q) \in Nat \ {0} /\ Len(Tail(q)) = Len(q) - 1 /\ Head(q) = q[1]
      /\ DOMAIN q = 1 .. Len(q) /\ DOMAIN Tail(q) = 1 .. Len(q) - 1
      /\ \A i \in 1 .. Len(q) - 1 : Tail(q)[i] = q[i + 1]
      /\ \A i \in 1 .. Len(q) : q[i] \in 1 .. n
    <2>1. Len(q) \in Nat \ {0} /\ DOMAIN q = 1 .. Len(q) /\ \A i \in 1 .. Len(q) : q[i] \in 1 .. n
        BY EmptySeq, LenProperties
    <2>2. /\ Tail(q) \in Seq(1 .. n) /\ Len(Tail(q)) = Len(q) - 1
          /\ \A i \in 1 .. Len(Tail(q)) : Tail(q)[i] = q[i + 1]
        BY HeadTailProperties
    <2>3. DOMAIN Tail(q) = 1 .. Len(Tail(q))
        BY <2>2, LenProperties
    <2>4. Head(q) = q[1]
        OBVIOUS
    <2> QED BY <2>1, <2>2, <2>3, <2>4
<1>2. Increasing(Tail(q))
    BY <1>1, SMTT(20) DEF Increasing
<1>3. \A i \in 1 .. Len(q) : i = 1 \/ (i - 1 \in 1 .. Len(q) - 1 /\ Tail(q)[i - 1] = q[i])
    BY <1>1
<1>4. ToSet(q) \subseteq ToSet(Tail(q)) \cup {Head(q)}
    <2>1. ASSUME NEW i \in 1 .. Len(q) PROVE q[i] \in ToSet(Tail(q)) \cup {Head(q)}
        <3>1. CASE i = 1
            BY <1>1, <3>1
        <3>2. CASE i - 1 \in 1 .. Len(q) - 1 /\ Tail(q)[i - 1] = q[i]
            BY <1>1, <3>2 DEF ToSet
        <3> QED BY <1>3, <3>1, <3>2
    <2>2. \A w \in ToSet(q) : \E i \in 1 .. Len(q) : w = q[i]
        BY <1>1 DEF ToSet
    <2> QED BY <2>1, <2>2
<1>5. ToSet(Tail(q)) \cup {Head(q)} \subseteq ToSet(q)
    <2>1. \A i \in 1 .. Len(q) - 1 : i + 1 \in 1 .. Len(q)
        BY <1>1
    <2> QED BY <1>1, <2>1 DEF ToSet
<1>6. \A w \in ToSet(Tail(q)) : Head(q) < w
    <2>1. \A i \in 1 .. Len(q) - 1 : q[1] < q[i + 1]
        BY <1>1 DEF Increasing
    <2> QED BY <1>1, <2>1 DEF ToSet
<1> QED BY <1>1, <1>2, <1>4, <1>5, <1>6

\* put() past the capacity drops the oldest write, and only it.
LEMMA KeptIsBounded ==
    ASSUME NEW n \in Nat, NEW q \in Seq(1 .. n), Increasing(q), Len(q) <= Capacity + 1
    PROVE  /\ Kept(q) \in Seq(1 .. n) /\ Increasing(Kept(q)) /\ Len(Kept(q)) <= Capacity
           /\ ToSet(Kept(q)) \cup (IF Len(q) > Capacity THEN {q[1]} ELSE {}) = ToSet(q)
<1>0. Capacity \in Nat \ {0} /\ Len(q) \in Nat
    BY OutboxAssumption
<1>1. CASE Len(q) > Capacity
    <2>1. q # <<>> /\ Len(q) = Capacity + 1
        BY <1>0, <1>1
    <2>2. Kept(q) = Tail(q)
        <3>1. Kept(q) = SubSeq(q, 2, Len(q))
            BY <1>0, <1>1, <2>1 DEF Kept
        <3> QED BY <2>1, <3>1, TailIsSubSeq
    <2>3. Len(Tail(q)) = Len(q) - 1
        BY <2>1, HeadTailProperties
    <2> QED BY <1>0, <1>1, <2>1, <2>2, <2>3, TailInOrder
<1>2. CASE ~(Len(q) > Capacity)
    <2>1. Kept(q) = SubSeq(q, 1, Len(q))
        BY <1>2 DEF Kept
    <2>2. Kept(q) = q
        BY <2>1, SubSeqFull
    <2> QED BY <1>0, <1>2, <2>2
<1> QED BY <1>1, <1>2

-----------------------------------------------------------------------------
(* Type correctness: the shapes, and who holds which lock. *)

Flags == {async, timed, wake, pausing, stopping, cut, outside, shared} \subseteq BOOLEAN

Shapes ==
    /\ puts \in Nat
    /\ writes \in Seq(1 .. puts) /\ Len(writes) <= Capacity /\ Increasing(writes)
    /\ settled \in Seq(1 .. puts) /\ dropped \subseteq 1 .. puts
    /\ thread \in ThreadSteps /\ lock \in Locks /\ holder \in [Locks -> Actors \cup {NoOne}]
    /\ attempt \in [Actors -> 0 .. puts]
    /\ flush \in [Callers -> [step : Steps, lock : Locks \cup {0}, answer : {"none", "true", "false"},
                              mark : 0 .. puts]]

\* A lock is held by who is past it, and a write is being sent by one who holds a lock. Until _busy is
\* replaced under a flush(), all of them mean the same lock.
Locked ==
    /\ \A c \in Callers, l \in Locks : holder[l] = c <=> flush[c].step = "sending" /\ flush[c].lock = l
    /\ \A l \in Locks : holder[l] = Thread <=> thread = "sending" /\ l = lock
    /\ \A c \in Callers : flush[c].step # "idle" => flush[c].lock \in Locks /\ (~shared => flush[c].lock = lock)
    /\ \A a \in Actors : attempt[a] # 0 => Sending(a)
    /\ ~async => lock = 1 /\ ~shared
    /\ shared => thread # "none"

Roles == Thread \in Actors /\ Thread \notin Callers /\ Thread # NoOne /\ NoOne \notin Callers /\ Callers \subseteq Actors

LEMMA RolesDiffer == Roles
BY OutboxAssumption DEF Roles, Actors, Thread

\* The flags stay flags.
LEMMA FlagsStep == Flags /\ [Next]_vars => Flags'
<1> DEFINE AreFlags == /\ async \in BOOLEAN /\ timed \in BOOLEAN /\ wake \in BOOLEAN /\ pausing \in BOOLEAN
                       /\ stopping \in BOOLEAN /\ cut \in BOOLEAN /\ outside \in BOOLEAN /\ shared \in BOOLEAN
<1>1. Flags <=> AreFlags
    BY DEF Flags
<1>2. Flags' <=> AreFlags'
    BY DEF Flags
<1> SUFFICES ASSUME AreFlags, [Next]_vars PROVE AreFlags'
    BY <1>1, <1>2
<1>3. ASSUME NEW running \in BOOLEAN, Put(running) PROVE AreFlags'
    BY <1>3, Zenon DEF Put
<1>4. CASE Top
    BY <1>4, Zenon DEF Top, queue, locks
<1>5. CASE Woken \/ Look \/ Enter \/ PauseEnds \/ Cancelled
    BY <1>5, Zenon DEF Woken, Look, Enter, PauseEnds, Cancelled, queue, locks, loop
<1>6. ASSUME NEW c \in Callers, CallFlush(c) \/ Stop(c) \/ Acquire(c) \/ TooLate(c) \/ Deadline(c) PROVE AreFlags'
    BY <1>6, Zenon DEF CallFlush, Stop, Acquire, TooLate, Deadline, Leave, queue, locks, loop
<1>7. ASSUME NEW a \in Actors, Step(a) PROVE AreFlags'
    <2>1. CASE Attempt(a)
        BY <2>1, Zenon DEF Attempt, queue, locks, loop
    <2>2. CASE AllSent(a)
        BY <2>2, Zenon DEF AllSent, Leave, queue
    <2>3. CASE Settle(a)
        BY <2>3, Zenon DEF Settle, locks, loop
    <2>4. CASE Fails(a)
        BY <2>4, Zenon DEF Fails, Leave, queue
    <2> QED BY <1>7, <2>1, <2>2, <2>3, <2>4 DEF Step
<1>8. CASE UNCHANGED vars
    BY <1>8, Zenon DEF vars, queue, locks, loop
<1> QED BY <1>3, <1>4, <1>5, <1>6, <1>7, <1>8 DEF Next, ThreadStep, FlushStep, Actors

\* The shapes stay.
LEMMA ShapesStep == Shapes /\ Locked /\ [Next]_vars => Shapes'
<1> SUFFICES ASSUME Shapes, Locked, [Next]_vars PROVE Shapes'
    OBVIOUS
<1> USE DEF Steps, ThreadSteps, Locks
<1>1. ASSUME NEW running \in BOOLEAN, Put(running) PROVE Shapes'
    <2> DEFINE all == Append(writes, puts + 1)
    <2>1. /\ puts' = puts + 1 /\ writes' = Kept(all)
          /\ dropped' = IF Len(all) > Capacity THEN dropped \cup {all[1]} ELSE dropped
        BY <1>1 DEF Put
    <2>2. /\ all \in Seq(1 .. puts + 1) /\ Increasing(all) /\ Len(all) = Len(writes) + 1 /\ Len(writes) \in Nat
          /\ puts + 1 \in Nat /\ Capacity \in Nat
        BY AppendInOrder, OutboxAssumption DEF Shapes
    <2>3. Len(all) <= Capacity + 1
        BY <2>2 DEF Shapes
    <2> HIDE DEF all
    <2>4. writes' \in Seq(1 .. puts') /\ Len(writes') <= Capacity /\ Increasing(writes')
        BY <2>1, <2>2, <2>3, KeptIsBounded
    <2>5. dropped' \subseteq 1 .. puts'
        <3>1. all[1] \in 1 .. puts + 1
            <4>1. \A k \in Nat : 1 \in 1 .. k + 1
                OBVIOUS
            <4>2. Len(all) = Len(writes) + 1 /\ Len(writes) \in Nat
                BY <2>2
            <4>3. 1 \in 1 .. Len(all)
                BY <4>1, <4>2
            <4> QED BY <2>2, <4>3, ElementOfSeq
        <3>2. 1 .. puts \subseteq 1 .. puts + 1
            BY DEF Shapes
        <3>3. dropped \subseteq 1 .. puts + 1
            BY <3>2 DEF Shapes
        <3>4. CASE Len(all) > Capacity
            BY <2>1, <3>1, <3>3, <3>4
        <3>5. CASE ~(Len(all) > Capacity)
            BY <2>1, <3>3, <3>5
        <3> QED BY <3>4, <3>5
    <2>6. settled' \in Seq(1 .. puts')
        <3>1. settled' = settled /\ 1 .. puts \subseteq 1 .. puts'
            BY <1>1, <2>1 DEF Put, Shapes
        <3> QED BY <3>1, SeqMonotonic DEF Shapes
    <2>7. /\ thread' \in ThreadSteps /\ lock' \in Locks /\ holder' \in [Locks -> Actors \cup {NoOne}]
          /\ attempt' \in [Actors -> 0 .. puts']
          /\ flush' \in [Callers -> [step : Steps, lock : Locks \cup {0}, answer : {"none", "true", "false"},
                                     mark : 0 .. puts']]
        <3>1. 0 .. puts \subseteq 0 .. puts'
            BY <2>1 DEF Shapes
        <3>2. UNCHANGED <<holder, attempt, flush>> /\ thread' \in {thread, "top"} /\ lock' \in {lock, 1, 2}
            BY <1>1, Zenon DEF Put
        <3> QED BY <3>1, <3>2 DEF Shapes
    <2> QED BY <2>1, <2>2, <2>4, <2>5, <2>6, <2>7 DEF Shapes
<1>2. ASSUME UNCHANGED <<puts, writes, settled, dropped>>,
             /\ thread' \in ThreadSteps /\ lock' \in Locks /\ holder' \in [Locks -> Actors \cup {NoOne}]
             /\ attempt' \in [Actors -> 0 .. puts]
             /\ flush' \in [Callers -> [step : Steps, lock : Locks \cup {0}, answer : {"none", "true", "false"},
                                        mark : 0 .. puts]]
      PROVE  Shapes'
    BY <1>2 DEF Shapes
<1>3. CASE Top \/ Woken \/ Look \/ PauseEnds \/ UNCHANGED vars
    BY <1>2, <1>3 DEF Top, Woken, Look, PauseEnds, vars, queue, locks, loop, Shapes
<1>4. CASE Enter
    BY <1>2, <1>4, RolesDiffer DEF Enter, queue, Shapes, Roles
<1>5. CASE Cancelled
    BY <1>2, <1>5, RolesDiffer DEF Cancelled, queue, Shapes, Roles
<1>6. ASSUME NEW c \in Callers, CallFlush(c) \/ Stop(c) PROVE Shapes'
    <2> DEFINE call == [step |-> "acquiring", lock |-> lock, answer |-> "none", mark |-> puts]
    <2>1. call \in [step : Steps, lock : Locks \cup {0}, answer : {"none", "true", "false"}, mark : 0 .. puts]
        BY DEF Shapes
    <2>2. flush' = [flush EXCEPT ![c] = call]
        BY <1>6 DEF CallFlush, Stop
    <2> HIDE DEF call
    <2>3. flush' \in [Callers -> [step : Steps, lock : Locks \cup {0}, answer : {"none", "true", "false"},
                                 mark : 0 .. puts]]
        BY <2>1, <2>2 DEF Shapes
    <2>4. UNCHANGED <<puts, writes, settled, dropped, thread, lock, holder, attempt>>
        BY <1>6 DEF CallFlush, Stop, queue, locks, loop
    <2> QED BY <1>2, <2>3, <2>4 DEF Shapes
<1>7. ASSUME NEW c \in Callers, Acquire(c) \/ TooLate(c) PROVE Shapes'
    <2>1. CASE Acquire(c)
        <3>1. UNCHANGED <<puts, writes, settled, dropped, thread, lock, attempt>>
            BY <2>1 DEF Acquire, queue, loop
        <3>2. holder' \in [Locks -> Actors \cup {NoOne}]
            BY <2>1, RolesDiffer DEF Acquire, Shapes, Roles
        <3>3. flush' = [flush EXCEPT ![c] = [flush[c] EXCEPT !.step = "sending"]]
            BY <2>1 DEF Acquire
        <3> QED BY <1>2, <3>1, <3>2, <3>3, ZenonT(30) DEF Shapes
    <2>2. CASE TooLate(c)
        <3>1. UNCHANGED <<puts, writes, settled, dropped, thread, lock, holder, attempt>>
            BY <2>2 DEF TooLate, queue, loop, locks
        <3>2. flush' = [flush EXCEPT ![c] = [flush[c] EXCEPT !.step = "idle", !.answer = "false"]]
            BY <2>2 DEF TooLate, Shapes
        <3> QED BY <1>2, <3>1, <3>2, ZenonT(30) DEF Shapes
    <2> QED BY <1>7, <2>1, <2>2
<1>8. ASSUME NEW a \in Actors, NEW answer \in {"true", "false"}, Leave(a, answer)
      PROVE  /\ UNCHANGED <<puts, writes, dropped, lock>> /\ thread' \in ThreadSteps
             /\ holder' \in [Locks -> Actors \cup {NoOne}]
             /\ flush' \in [Callers -> [step : Steps, lock : Locks \cup {0}, answer : {"none", "true", "false"},
                                        mark : 0 .. puts]]
    <2>1. UNCHANGED <<puts, writes, dropped, lock>> /\ holder' \in [Locks -> Actors \cup {NoOne}]
        BY <1>8, RolesDiffer DEF Leave, queue, Shapes, Roles
    <2>2. CASE a = Thread
        BY <1>8, <2>1, <2>2 DEF Leave, Shapes
    <2>3. CASE a # Thread
        <3>1. a \in Callers /\ UNCHANGED thread
            BY <1>8, <2>3 DEF Leave, Actors
        <3>2. flush' = [flush EXCEPT ![a] = [flush[a] EXCEPT !.step = "idle", !.answer = answer]]
            BY <1>8, <2>3 DEF Leave, Shapes
        <3> QED BY <2>1, <3>1, <3>2 DEF Shapes
    <2> QED BY <2>2, <2>3
<1>9. ASSUME NEW c \in Callers, Deadline(c) PROVE Shapes'
    BY <1>2, <1>8, <1>9, RolesDiffer DEF Deadline, Shapes, Roles
<1>10. ASSUME NEW a \in Actors, Step(a) PROVE Shapes'
    <2>1. CASE Attempt(a)
        <3>1. Head(writes) \in 1 .. puts
            BY <2>1, TailInOrder DEF Attempt, Shapes
        <3> QED BY <1>2, <2>1, <3>1 DEF Attempt, queue, locks, loop, Shapes
    <2>2. CASE AllSent(a)
        BY <1>2, <1>8, <2>2 DEF AllSent, Shapes
    <2>3. CASE Fails(a)
        BY <1>2, <1>8, <2>3 DEF Fails, Shapes
    <2>4. CASE Settle(a)
        <3>1. attempt[a] \in 1 .. puts
            BY <2>4 DEF Settle, Shapes
        <3>2. settled' \in Seq(1 .. puts)
            BY <2>4, <3>1, AppendProperties DEF Settle, Shapes
        <3>3. writes' \in Seq(1 .. puts) /\ Len(writes') <= Capacity /\ Increasing(writes')
            <4>1. CASE writes # <<>> /\ Head(writes) = attempt[a]
                <5>1. writes' = Tail(writes) /\ Len(writes) \in Nat /\ Capacity \in Nat
                    BY <2>4, <4>1, OutboxAssumption DEF Settle, Rest, Shapes
                <5>2. Tail(writes) \in Seq(1 .. puts) /\ Increasing(Tail(writes)) /\ Len(Tail(writes)) <= Len(writes)
                    BY <4>1, TailInOrder DEF Shapes
                <5>3. Len(Tail(writes)) \in Nat
                    BY <5>2
                <5> QED BY <5>1, <5>2, <5>3 DEF Shapes
            <4>2. CASE ~(writes # <<>> /\ Head(writes) = attempt[a])
                BY <2>4, <4>2 DEF Settle, Rest, Shapes
            <4> QED BY <4>1, <4>2
        <3>4. UNCHANGED <<puts, dropped, thread, lock, holder, flush>> /\ attempt' \in [Actors -> 0 .. puts]
            BY <2>4 DEF Settle, locks, loop, Shapes
        <3> QED BY <3>2, <3>3, <3>4 DEF Shapes
    <2> QED BY <1>10, <2>1, <2>2, <2>3, <2>4 DEF Step
<1> QED BY <1>1, <1>3, <1>4, <1>5, <1>6, <1>7, <1>9, <1>10, RolesDiffer DEF Next, ThreadStep, FlushStep, Roles

\* Nobody sends without the lock, and nobody has it who does not send.
LEMMA LockedStep == Shapes /\ Flags /\ Locked /\ [Next]_vars => Locked'
<1> SUFFICES ASSUME Shapes, Flags, Locked, [Next]_vars PROVE Locked'
    OBVIOUS
<1> USE RolesDiffer DEF Roles, Locks, Steps
<1>1. ASSUME NEW running \in BOOLEAN, Put(running) PROVE Locked'
    <2>1. UNCHANGED <<holder, attempt, flush>>
        BY <1>1 DEF Put
    <2>2. async' = async
        BY <1>1 DEF Put
    <2>3. CASE /\ thread = "none" /\ thread' = "top" /\ lock' \in {1, 2}
               /\ lock' = IF async THEN 2 ELSE 1
               /\ shared' = (async /\ \E c \in Callers : flush[c].step # "idle")
        <3>1. CASE async
            <4>1. \A c \in Callers : flush[c].step # "idle" => shared'
                BY <2>3, <3>1, Zenon
            <4>2. ~shared' => \A c \in Callers : flush'[c].step = "idle"
                BY <2>1, <4>1, Zenon
            <4>3. \A c \in Callers : flush'[c].step # "idle" =>
                                flush'[c].lock \in Locks /\ (~shared' => flush'[c].lock = lock')
                BY <2>1, <4>2 DEF Locked
            <4>4. \A a \in Actors : Sending(a) <=> Sending(a)'
                BY <2>1, <2>3 DEF Sending
            <4> QED BY <2>1, <2>2, <2>3, <3>1, <4>3, <4>4 DEF Locked
        <3>2. CASE ~async
            <4>1. lock' = lock /\ ~shared'
                BY <2>3, <3>2 DEF Locked
            <4> QED BY <2>1, <2>2, <2>3, <3>2, <4>1 DEF Locked, Sending
        <3> QED BY <3>1, <3>2
    <2>4. CASE UNCHANGED <<thread, lock, shared, async>>
        BY <2>1, <2>4 DEF Locked, Sending
    <2> QED BY <1>1, <2>3, <2>4, Zenon DEF Put
<1>2. ASSUME UNCHANGED <<holder, attempt, lock, shared, async>>,
             thread' = "sending" <=> thread = "sending", thread # "none" => thread' # "none",
             \A c \in Callers : \/ UNCHANGED flush[c]
                               \/ /\ flush[c].step # "sending" /\ flush'[c].step # "sending"
                                  /\ flush'[c].step # "idle" => flush'[c].lock = lock
      PROVE  Locked'
    <2>1. lock \in Locks /\ \A c \in Callers : flush'[c].step # "idle" =>
                                    flush'[c].lock \in Locks /\ (~shared => flush'[c].lock = lock)
        BY <1>2 DEF Locked, Shapes
    <2>2. \A c \in Callers, l \in Locks : holder[l] = c <=> flush'[c].step = "sending" /\ flush'[c].lock = l
        BY <1>2 DEF Locked
    <2>3. \A a \in Actors : Sending(a) => Sending(a)'
        BY <1>2 DEF Sending, Actors
    <2> QED BY <1>2, <2>1, <2>2, <2>3 DEF Locked
<1>3. CASE Top \/ Woken \/ Look \/ PauseEnds \/ UNCHANGED vars
    BY <1>2, <1>3 DEF Top, Woken, Look, PauseEnds, vars, queue, locks, loop
<1>4. ASSUME NEW c \in Callers, CallFlush(c) \/ Stop(c) \/ TooLate(c) PROVE Locked'
    <2>1. UNCHANGED <<holder, attempt, lock, shared, async, thread>>
        BY <1>4 DEF CallFlush, Stop, TooLate, queue, locks, loop
    <2>2. \A d \in Callers : d # c => flush'[d] = flush[d]
        BY <1>4 DEF CallFlush, Stop, TooLate, Shapes
    <2>3. /\ flush[c].step # "sending" /\ flush'[c].step # "sending"
          /\ flush'[c].step # "idle" => flush'[c].lock = lock
        BY <1>4 DEF CallFlush, Stop, TooLate, Shapes
    <2> QED BY <1>2, <2>1, <2>2, <2>3
<1>5. CASE Enter
    <2>1. /\ thread = "entering" /\ thread' = "sending" /\ holder[lock] = NoOne
          /\ holder' = [holder EXCEPT ![lock] = Thread]
          /\ UNCHANGED <<flush, attempt, lock, shared, async>>
        BY <1>5 DEF Enter, queue
    <2>2. \A l \in Locks : holder'[l] = IF l = lock THEN Thread ELSE holder[l]
        BY <2>1 DEF Shapes
    <2>3. \A a \in Actors : Sending(a) => Sending(a)'
        BY <2>1 DEF Sending
    <2> QED BY <2>1, <2>2, <2>3 DEF Locked
<1>6. CASE Cancelled
    <2>1. /\ thread' = "gone" /\ attempt' = [attempt EXCEPT ![Thread] = 0]
          /\ holder' = [l \in Locks |-> IF holder[l] = Thread THEN NoOne ELSE holder[l]]
          /\ UNCHANGED <<flush, lock, shared, async>>
        BY <1>6 DEF Cancelled
    <2>2. \A a \in Actors : attempt'[a] # 0 => Sending(a)'
        BY <2>1 DEF Locked, Sending, Shapes
    <2> QED BY <2>1, <2>2 DEF Locked
<1>7. ASSUME NEW c \in Callers, Acquire(c) PROVE Locked'
    <2>1. /\ flush[c].step = "acquiring" /\ holder[flush[c].lock] = NoOne /\ flush[c].lock \in Locks
          /\ holder' = [holder EXCEPT ![flush[c].lock] = c]
          /\ UNCHANGED <<thread, attempt, lock, shared, async>>
        BY <1>7 DEF Acquire, loop, Locked
    <2>2. \A l \in Locks : holder'[l] = IF l = flush[c].lock THEN c ELSE holder[l]
        BY <2>1 DEF Shapes
    <2>3. /\ flush'[c].step = "sending" /\ flush'[c].lock = flush[c].lock
          /\ \A d \in Callers : d # c => flush'[d] = flush[d]
        BY <1>7 DEF Acquire, Shapes
    <2>4. \A a \in Actors : Sending(a) => Sending(a)'
        BY <2>1, <2>3 DEF Sending, Actors
    <2> QED BY <2>1, <2>2, <2>3, <2>4 DEF Locked
<1>8. ASSUME NEW a \in Actors, NEW answer, Sending(a), Leave(a, answer),
             attempt' = attempt \/ attempt' = [attempt EXCEPT ![a] = 0], attempt'[a] = 0
      PROVE  Locked'
    <2>1. /\ UNCHANGED <<lock, shared, async>>
          /\ holder' = [l \in Locks |-> IF holder[l] = a THEN NoOne ELSE holder[l]]
        BY <1>8 DEF Leave
    <2>2. CASE a = Thread
        <3>1. thread' = "top" /\ UNCHANGED flush
            BY <1>8, <2>2 DEF Leave
        <3>2. \A b \in Actors : attempt'[b] # 0 => Sending(b)'
            <4>1. attempt'[Thread] = 0
                BY <1>8, <2>2
            <4>2. \A b \in Actors : b # Thread => attempt'[b] = attempt[b]
                BY <1>8, <2>2 DEF Shapes
            <4>3. \A b \in Actors : b # Thread /\ attempt[b] # 0 => flush[b].step = "sending"
                BY DEF Locked, Sending
            <4> QED BY <3>1, <4>1, <4>2, <4>3 DEF Sending
        <3> QED BY <2>1, <2>2, <3>1, <3>2 DEF Locked
    <2>3. CASE a # Thread
        <3>1. a \in Callers /\ UNCHANGED thread
            BY <1>8, <2>3 DEF Leave, Actors
        <3>2. flush'[a].step = "idle" /\ \A d \in Callers : d # a => flush'[d] = flush[d]
            BY <1>8, <2>3, <3>1 DEF Leave, Shapes
        <3>3. \A b \in Actors : attempt'[b] # 0 => Sending(b)'
            <4>1. attempt'[a] = 0
                BY <1>8
            <4>2. \A b \in Actors : b # a => attempt'[b] = attempt[b]
                BY <1>8 DEF Shapes
            <4>3. \A b \in Actors : b # a /\ Sending(b) => Sending(b)'
                BY <3>1, <3>2 DEF Sending, Actors
            <4> QED BY <4>1, <4>2, <4>3 DEF Locked
        <3> QED BY <2>1, <2>3, <3>1, <3>2, <3>3 DEF Locked
    <2> QED BY <2>2, <2>3
<1>9. ASSUME NEW c \in Callers, Deadline(c) PROVE Locked'
    BY <1>8, <1>9 DEF Deadline
<1>10. ASSUME NEW a \in Actors, Step(a) PROVE Locked'
    <2>1. CASE Attempt(a)
        <3>1. UNCHANGED <<holder, lock, shared, async, thread, flush>> /\ Sending(a)
            BY <2>1 DEF Attempt, locks, loop
        <3>2. \A b \in Actors : attempt'[b] # 0 => Sending(b)'
            BY <2>1, <3>1 DEF Attempt, Locked, Sending, Shapes
        <3> QED BY <3>1, <3>2 DEF Locked
    <2>2. CASE AllSent(a)
        BY <1>8, <2>2 DEF AllSent
    <2>3. CASE Fails(a)
        <3>1. attempt' = [attempt EXCEPT ![a] = 0] /\ Leave(a, "false") /\ attempt'[a] = 0 /\ Sending(a)
            BY <2>3 DEF Fails, Shapes, Locked
        <3> QED BY <1>8, <3>1
    <2>4. CASE Settle(a)
        <3>1. UNCHANGED <<holder, lock, shared, async, thread, flush>> /\ attempt' = [attempt EXCEPT ![a] = 0]
            BY <2>4 DEF Settle, locks, loop
        <3>2. \A b \in Actors : attempt'[b] # 0 => Sending(b)'
            BY <3>1 DEF Locked, Sending, Shapes
        <3> QED BY <3>1, <3>2 DEF Locked
    <2> QED BY <1>10, <2>1, <2>2, <2>3, <2>4 DEF Step
<1> QED BY <1>1, <1>3, <1>4, <1>5, <1>6, <1>7, <1>9, <1>10 DEF Next, ThreadStep, FlushStep
-----------------------------------------------------------------------------
(* The theorems. *)

Typed == Flags /\ Shapes /\ Locked

LEMMA TypedInit == Init => Typed
<1> SUFFICES ASSUME Init PROVE Typed
    OBVIOUS
<1> USE RolesDiffer DEF Roles, Init
<1>1. Flags
    <2>1. async \in BOOLEAN /\ {FALSE} \subseteq BOOLEAN
        OBVIOUS
    <2>2. /\ timed = FALSE /\ wake = FALSE /\ pausing = FALSE /\ stopping = FALSE /\ cut = FALSE
          /\ outside = FALSE /\ shared = FALSE
        OBVIOUS
    <2> QED BY <2>1, <2>2 DEF Flags
<1>2. Shapes
    <2>1. writes \in Seq(1 .. puts) /\ Len(writes) = 0 /\ settled \in Seq(1 .. puts) /\ Increasing(writes)
        BY DEF Increasing
    <2> QED BY <2>1, OutboxAssumption DEF Shapes, Steps, ThreadSteps, Locks, NotCalled
<1>3. Locked
    BY DEF Locked, Locks, NotCalled
<1> QED BY <1>1, <1>2, <1>3 DEF Typed

LEMMA TypedStep == Typed /\ [Next]_vars => Typed'
BY FlagsStep, ShapesStep, LockedStep DEF Typed

LEMMA TypedAlways == Spec => []Typed
BY TypedInit, TypedStep, PTL DEF Spec

\* The shapes of the outbox: its queue is in order and within CAPACITY, a lock is held by who is past it,
\* and only who holds one sends.
THEOREM TypeCorrect == Spec => []TypeOK
<1>1. Typed => TypeOK
    <2> SUFFICES ASSUME Typed PROVE TypeOK
        OBVIOUS
    <2>1. \A a \in Actors : Sending(a) <=> \E l \in Locks : holder[l] = a
        <3>1. ASSUME NEW c \in Callers PROVE Sending(c) <=> \E l \in Locks : holder[l] = c
            BY RolesDiffer DEF Typed, Locked, Sending, Roles
        <3>2. Sending(Thread) <=> \E l \in Locks : holder[l] = Thread
            BY DEF Typed, Locked, Shapes, Sending
        <3> QED BY <3>1, <3>2 DEF Actors
    <2>2. \A i, j \in DOMAIN writes : i < j => writes[i] < writes[j]
        BY DEF Typed, Shapes, Increasing
    <2> QED BY <2>1, <2>2 DEF Typed, Flags, Shapes, Locked, TypeOK, ThreadSteps
<1> QED BY <1>1, TypedAlways, PTL

\* A write that is appended to others joins them; after smaller ones it keeps the order.
LEMMA AppendLast ==
    ASSUME NEW n \in Nat, NEW q \in Seq(1 .. n), NEW w \in 1 .. n
    PROVE  /\ ToSet(Append(q, w)) = ToSet(q) \cup {w}
           /\ Increasing(q) /\ (\A v \in ToSet(q) : v < w) => Increasing(Append(q, w))
<1>1. /\ DOMAIN Append(q, w) = 1 .. Len(q) + 1 /\ DOMAIN q = 1 .. Len(q) /\ Len(q) \in Nat
      /\ \A i \in 1 .. Len(q) : Append(q, w)[i] = q[i] /\ q[i] \in 1 .. n
      /\ Append(q, w)[Len(q) + 1] = w
    OBVIOUS
<1>2. \A i \in 1 .. Len(q) : q[i] \in ToSet(q)
    BY <1>1 DEF ToSet
<1>3. ToSet(Append(q, w)) = ToSet(q) \cup {w}
    <2>1. \A i \in 1 .. Len(q) + 1 : i \in 1 .. Len(q) \/ i = Len(q) + 1
        BY <1>1
    <2>2. \A i \in 1 .. Len(q) + 1 : Append(q, w)[i] \in ToSet(q) \cup {w}
        BY <1>1, <1>2, <2>1
    <2>3. ToSet(Append(q, w)) \subseteq ToSet(q) \cup {w}
        BY <1>1, <2>2 DEF ToSet
    <2>4. \A i \in 1 .. Len(q) : i \in 1 .. Len(q) + 1
        BY <1>1
    <2>5. Len(q) + 1 \in 1 .. Len(q) + 1
        BY <1>1
    <2>6. \A i \in 1 .. Len(q) + 1 : Append(q, w)[i] \in ToSet(Append(q, w))
        BY <1>1 DEF ToSet
    <2>7. w \in ToSet(Append(q, w)) /\ \A i \in 1 .. Len(q) : q[i] \in ToSet(Append(q, w))
        BY <1>1, <2>4, <2>5, <2>6
    <2>8. \A v \in ToSet(q) : \E i \in 1 .. Len(q) : v = q[i]
        BY <1>1 DEF ToSet
    <2> QED BY <2>3, <2>7, <2>8
<1>4. ASSUME Increasing(q), \A v \in ToSet(q) : v < w PROVE Increasing(Append(q, w))
    BY <1>1, <1>2, <1>4 DEF Increasing
<1> QED BY <1>3, <1>4

\* What put() does to the writes.
LEMMA PutEffect ==
    ASSUME Shapes, NEW running \in BOOLEAN, Put(running)
    PROVE  /\ puts' = puts + 1 /\ settled' = settled
           /\ ToSet(writes') \cup dropped' = ToSet(writes) \cup dropped \cup {puts + 1}
           /\ dropped \subseteq dropped' /\ ToSet(writes') \subseteq ToSet(writes) \cup {puts + 1}
           /\ UNCHANGED <<flush, attempt>>
<1> DEFINE all == Append(writes, puts + 1)
<1>1. /\ puts' = puts + 1 /\ writes' = Kept(all) /\ UNCHANGED <<flush, attempt, settled>>
      /\ dropped' = IF Len(all) > Capacity THEN dropped \cup {all[1]} ELSE dropped
    BY DEF Put
<1>2. /\ all \in Seq(1 .. puts + 1) /\ Increasing(all) /\ Len(all) = Len(writes) + 1 /\ Len(writes) \in Nat
      /\ puts + 1 \in Nat /\ Capacity \in Nat /\ ToSet(all) = ToSet(writes) \cup {puts + 1}
    BY AppendInOrder, OutboxAssumption DEF Shapes
<1>3. Len(all) <= Capacity + 1
    BY <1>2 DEF Shapes
<1> HIDE DEF all
<1>4. ToSet(Kept(all)) \cup (IF Len(all) > Capacity THEN {all[1]} ELSE {}) = ToSet(all)
    BY <1>2, <1>3, KeptIsBounded
<1> QED BY <1>1, <1>2, <1>4

\* What _settle does to them.
LEMMA SettleEffect ==
    ASSUME Shapes, NEW a \in Actors, Settle(a)
    PROVE  /\ attempt[a] \in 1 .. puts /\ UNCHANGED <<puts, dropped, flush, shared>>
           /\ settled' = Append(settled, attempt[a]) /\ ToSet(settled') = ToSet(settled) \cup {attempt[a]}
           /\ ToSet(writes') \subseteq ToSet(writes) /\ ToSet(writes) \subseteq ToSet(writes') \cup {attempt[a]}
           /\ (\A v \in ToSet(writes) : attempt[a] <= v) => \A v \in ToSet(writes') : attempt[a] < v
           /\ attempt' = [attempt EXCEPT ![a] = 0]
<1>1. /\ attempt[a] \in 1 .. puts /\ UNCHANGED <<puts, dropped, flush, shared>>
      /\ settled' = Append(settled, attempt[a]) /\ attempt' = [attempt EXCEPT ![a] = 0]
      /\ writes' = Rest(attempt[a])
    BY DEF Settle, Shapes, locks
<1>2. ToSet(settled') = ToSet(settled) \cup {attempt[a]}
    BY <1>1, AppendLast DEF Shapes
<1>3. CASE writes = <<>>
    <2>1. writes' = writes /\ ToSet(writes) = {}
        BY <1>1, <1>3 DEF Rest, ToSet
    <2> QED BY <1>1, <1>2, <2>1
<1>4. CASE writes # <<>>
    <2>1. /\ Tail(writes) \in Seq(1 .. puts) /\ Head(writes) \in 1 .. puts
          /\ ToSet(writes) = ToSet(Tail(writes)) \cup {Head(writes)}
          /\ \A w \in ToSet(Tail(writes)) : Head(writes) < w
        BY <1>4, TailInOrder DEF Shapes
    <2>2. CASE Head(writes) = attempt[a]
        <3>1. writes' = Tail(writes)
            BY <1>1, <1>4, <2>2 DEF Rest
        <3> QED BY <1>1, <1>2, <2>1, <2>2, <3>1
    <2>3. CASE Head(writes) # attempt[a]
        <3>1. writes' = writes
            BY <1>1, <2>3 DEF Rest
        <3>2. \A w \in ToSet(writes) : w \in 1 .. puts
            BY DEF Shapes, ToSet
        <3>3. ASSUME \A v \in ToSet(writes) : attempt[a] <= v PROVE \A v \in ToSet(writes) : attempt[a] < v
            <4>1. attempt[a] <= Head(writes)
                BY <2>1, <3>3
            <4>2. attempt[a] < Head(writes)
                BY <1>1, <2>1, <2>3, <4>1
            <4> QED BY <1>1, <2>1, <3>2, <4>2
        <3> QED BY <1>1, <1>2, <3>1, <3>3
    <2> QED BY <2>2, <2>3
<1> QED BY <1>3, <1>4

\* The other steps touch no write.
LEMMA OthersKeep ==
    ASSUME [Next]_vars, \A running \in BOOLEAN : ~Put(running), \A a \in Actors : ~Settle(a)
    PROVE  UNCHANGED <<puts, writes, settled, dropped>>
<1>1. CASE ThreadStep \/ PauseEnds \/ Cancelled \/ UNCHANGED vars
    <2>1. CASE Top \/ Woken \/ Look \/ Enter \/ PauseEnds \/ Cancelled \/ UNCHANGED vars
        BY <2>1 DEF Top, Woken, Look, Enter, PauseEnds, Cancelled, vars, queue
    <2>2. CASE Step(Thread)
        BY <2>2, RolesDiffer DEF Step, Attempt, AllSent, Fails, Leave, queue, Roles
    <2> QED BY <1>1, <2>1, <2>2 DEF ThreadStep
<1>2. ASSUME NEW c \in Callers, CallFlush(c) \/ Stop(c) \/ FlushStep(c)
      PROVE  UNCHANGED <<puts, writes, settled, dropped>>
    <2>1. CASE CallFlush(c) \/ Stop(c) \/ Acquire(c) \/ TooLate(c) \/ Deadline(c)
        BY <2>1 DEF CallFlush, Stop, Acquire, TooLate, Deadline, Leave, queue
    <2>2. CASE Step(c)
        BY <2>2, RolesDiffer DEF Step, Attempt, AllSent, Fails, Leave, queue, Roles
    <2> QED BY <1>2, <2>1, <2>2 DEF FlushStep
<1> QED BY <1>1, <1>2 DEF Next

LEMMA AccountedStep == Typed /\ Accounted /\ [Next]_vars => Accounted'
<1> SUFFICES ASSUME Typed, Accounted, [Next]_vars PROVE Accounted'
    OBVIOUS
<1> USE DEF Accounted, Waiting, Settled
<1>1. ASSUME NEW running \in BOOLEAN, Put(running) PROVE Accounted'
    <2>1. 1 .. puts + 1 = (1 .. puts) \cup {puts + 1}
        BY DEF Typed, Shapes
    <2>2. /\ puts' = puts + 1 /\ settled' = settled
          /\ ToSet(writes') \cup dropped' = ToSet(writes) \cup dropped \cup {puts + 1}
        BY <1>1, PutEffect DEF Typed
    <2>3. ToSet(settled') = ToSet(settled)
        BY <2>2
    <2> QED BY <2>1, <2>2, <2>3
<1>2. ASSUME NEW a \in Actors, Settle(a) PROVE Accounted'
    <2>1. /\ attempt[a] \in 1 .. puts /\ UNCHANGED <<puts, dropped>>
          /\ ToSet(settled') = ToSet(settled) \cup {attempt[a]}
          /\ ToSet(writes') \subseteq ToSet(writes) /\ ToSet(writes) \subseteq ToSet(writes') \cup {attempt[a]}
        BY <1>2, SettleEffect DEF Typed
    <2> QED BY <2>1
<1>3. CASE (\A running \in BOOLEAN : ~Put(running)) /\ (\A a \in Actors : ~Settle(a))
    BY <1>3, OthersKeep
<1> QED BY <1>1, <1>2, <1>3

\* No write is lost between the queue and its answer: each is waiting, settled or counted as dropped.
THEOREM AllAccounted == Spec => []Accounted
<1>1. Init => Accounted
    BY DEF Init, Accounted, Waiting, Settled, ToSet
<1> QED BY <1>1, AccountedStep, TypedAlways, PTL DEF Spec

\* flush() answers True when it saw the queue empty, and what settled or was dropped stays so.
LEMMA FlushStepHolds == Typed /\ Accounted /\ FlushMeansSettled /\ [Next]_vars => FlushMeansSettled'
<1> SUFFICES ASSUME Typed, Accounted, FlushMeansSettled, [Next]_vars PROVE FlushMeansSettled'
    OBVIOUS
<1> USE DEF Settled
<1>1. ToSet(settled) \subseteq ToSet(settled)' /\ dropped \subseteq dropped'
    <2>1. ASSUME NEW running \in BOOLEAN, Put(running) PROVE ToSet(settled) \subseteq ToSet(settled)' /\ dropped \subseteq dropped'
        BY <2>1, PutEffect DEF Typed
    <2>2. ASSUME NEW a \in Actors, Settle(a) PROVE ToSet(settled) \subseteq ToSet(settled)' /\ dropped \subseteq dropped'
        BY <2>2, SettleEffect DEF Typed
    <2> QED BY <2>1, <2>2, OthersKeep
<1>2. ASSUME \A c \in Callers : flush'[c].answer = "true" => flush'[c].answer = flush[c].answer /\ flush'[c].mark = flush[c].mark
      PROVE  FlushMeansSettled'
    BY <1>1, <1>2 DEF FlushMeansSettled
<1>3. ASSUME UNCHANGED flush PROVE FlushMeansSettled'
    BY <1>2, <1>3
<1>4. ASSUME NEW c \in Callers, CallFlush(c) \/ Stop(c) \/ Acquire(c) \/ TooLate(c) PROVE FlushMeansSettled'
    <2>1. \A d \in Callers : d # c => flush'[d] = flush[d]
        BY <1>4 DEF CallFlush, Stop, Acquire, TooLate, Typed, Shapes
    <2>2. \/ flush'[c].answer \in {"none", "false"}
          \/ flush'[c].answer = flush[c].answer /\ flush'[c].mark = flush[c].mark
        BY <1>4 DEF CallFlush, Stop, Acquire, TooLate, Typed, Shapes
    <2> QED BY <1>2, <2>1, <2>2
<1>5. ASSUME NEW a \in Actors, NEW answer, Leave(a, answer), answer = "false" \/ (answer = "true" /\ writes = <<>>)
      PROVE  FlushMeansSettled'
    <2>1. CASE a = Thread
        BY <1>3, <1>5, <2>1 DEF Leave
    <2>2. CASE a # Thread
        <3>1. a \in Callers
            BY <2>2 DEF Actors
        <3>2. /\ \A d \in Callers : d # a => flush'[d] = flush[d]
              /\ flush'[a].answer = answer /\ flush'[a].mark = flush[a].mark /\ flush[a].mark \in 0 .. puts
            BY <1>5, <2>2, <3>1 DEF Leave, Typed, Shapes
        <3>3. CASE answer = "false"
            BY <1>2, <3>2, <3>3
        <3>4. CASE answer = "true" /\ writes = <<>>
            <4>1. 1 .. puts = ToSet(settled) \cup dropped
                BY <3>4 DEF Accounted, Waiting, ToSet
            <4>2. 1 .. flush[a].mark \subseteq 1 .. puts
                BY <3>2 DEF Typed, Shapes
            <4> QED BY <1>1, <3>1, <3>2, <4>1, <4>2 DEF FlushMeansSettled
        <3> QED BY <1>5, <3>3, <3>4
    <2> QED BY <2>1, <2>2
<1>6. ASSUME NEW a \in Actors, Step(a) PROVE FlushMeansSettled'
    <2>1. CASE Attempt(a) \/ Settle(a)
        BY <1>3, <2>1 DEF Attempt, Settle
    <2>2. CASE AllSent(a)
        BY <1>5, <2>2 DEF AllSent
    <2>3. CASE Fails(a)
        BY <1>5, <2>3 DEF Fails
    <2> QED BY <1>6, <2>1, <2>2, <2>3 DEF Step
<1>7. ASSUME NEW c \in Callers, Deadline(c) PROVE FlushMeansSettled'
    BY <1>5, <1>7, RolesDiffer DEF Deadline, Roles
<1>8. CASE Top \/ Woken \/ Look \/ Enter \/ PauseEnds \/ Cancelled \/ UNCHANGED vars
    BY <1>3, <1>8 DEF Top, Woken, Look, Enter, PauseEnds, Cancelled, vars
<1>9. ASSUME NEW running \in BOOLEAN, Put(running) PROVE FlushMeansSettled'
    BY <1>3, <1>9 DEF Put
<1> QED BY <1>4, <1>6, <1>7, <1>8, <1>9, RolesDiffer DEF Next, ThreadStep, FlushStep, Roles

\* True from flush() is a promise about every write put before the call.
THEOREM FlushHolds == Spec => []FlushMeansSettled
<1>1. Init => FlushMeansSettled
    BY DEF Init, FlushMeansSettled, NotCalled
<1> QED BY <1>1, FlushStepHolds, AllAccounted, TypedAlways, PTL DEF Spec

-----------------------------------------------------------------------------
(* Order: what has settled comes before what is being sent, and that before what waits. *)

Ordered ==
    ~shared =>
        /\ Increasing(settled)
        /\ \A w \in ToSet(settled), v \in ToSet(writes) : w < v
        /\ \A a \in Actors : attempt[a] # 0 =>
               (\A w \in ToSet(settled) : w < attempt[a]) /\ (\A v \in ToSet(writes) : attempt[a] <= v)

\* As long as all of them mean the same lock, one of them sends.
LEMMA OneSender ==
    ASSUME Typed, ~shared, NEW a \in Actors, NEW b \in Actors, attempt[a] # 0, attempt[b] # 0
    PROVE  a = b
<1>1. ASSUME NEW c \in Actors, attempt[c] # 0 PROVE holder[lock] = c
    <2>1. Sending(c)
        BY <1>1 DEF Typed, Locked
    <2>2. CASE c = Thread
        BY <2>1, <2>2 DEF Sending, Typed, Locked, Shapes
    <2>3. CASE c # Thread
        <3>1. c \in Callers /\ flush[c].step = "sending"
            BY <2>1, <2>3 DEF Sending, Actors
        <3>2. flush[c].lock = lock /\ lock \in Locks
            BY <3>1 DEF Typed, Locked, Shapes
        <3> QED BY <3>1, <3>2 DEF Typed, Locked
    <2> QED BY <2>2, <2>3
<1> QED BY <1>1

\* Once _busy was replaced under a flush() it stays so.
LEMMA SharedStays == Typed /\ [Next]_vars /\ shared => shared'
<1> SUFFICES ASSUME Typed, [Next]_vars, shared PROVE shared'
    OBVIOUS
<1>1. ASSUME NEW running \in BOOLEAN, Put(running) PROVE shared'
    <2>1. thread # "none"
        BY DEF Typed, Locked
    <2>2. UNCHANGED shared
        BY <1>1, <2>1 DEF Put
    <2> QED BY <2>2, Zenon
<1>2. CASE Top \/ Woken \/ Look \/ Enter \/ PauseEnds \/ Cancelled \/ UNCHANGED vars
    BY <1>2, Zenon DEF Top, Woken, Look, Enter, PauseEnds, Cancelled, vars, locks
<1>3. ASSUME NEW c \in Callers, CallFlush(c) \/ Stop(c) \/ Acquire(c) \/ TooLate(c) \/ Deadline(c) PROVE shared'
    BY <1>3, Zenon DEF CallFlush, Stop, Acquire, TooLate, Deadline, Leave, locks
<1>4. ASSUME NEW a \in Actors, Step(a) PROVE shared'
    BY <1>4, Zenon DEF Step, Attempt, AllSent, Settle, Fails, Leave, locks
<1> QED BY <1>1, <1>2, <1>3, <1>4, RolesDiffer DEF Next, ThreadStep, FlushStep, Roles

LEMMA OrderedStep == Typed /\ Ordered /\ [Next]_vars => Ordered'
<1> SUFFICES ASSUME Typed, Ordered, [Next]_vars, ~shared' PROVE Ordered'
    BY DEF Ordered
<1>1. ~shared
    BY SharedStays
<1>2. /\ Increasing(settled)
      /\ \A w \in ToSet(settled), v \in ToSet(writes) : w < v
      /\ \A a \in Actors : attempt[a] # 0 =>
             (\A w \in ToSet(settled) : w < attempt[a]) /\ (\A v \in ToSet(writes) : attempt[a] <= v)
    BY <1>1 DEF Ordered
<1>3. puts \in Nat /\ (\A w \in ToSet(settled) : w \in 1 .. puts) /\ (\A v \in ToSet(writes) : v \in 1 .. puts)
      /\ \A a \in Actors : attempt[a] \in 0 .. puts
    BY DEF Typed, Shapes, ToSet
<1>4. ASSUME NEW running \in BOOLEAN, Put(running) PROVE Ordered'
    <2>1. /\ settled' = settled /\ attempt' = attempt
          /\ ToSet(writes') \subseteq ToSet(writes) \cup {puts + 1}
        BY <1>4, PutEffect DEF Typed
    <2>2. \A w \in ToSet(settled), v \in ToSet(writes') : w < v
        BY <1>2, <1>3, <2>1
    <2>3. \A a \in Actors : attempt[a] # 0 => \A v \in ToSet(writes') : attempt[a] <= v
        BY <1>2, <1>3, <2>1
    <2> QED BY <1>2, <2>1, <2>2, <2>3 DEF Ordered
<1>5. ASSUME NEW a \in Actors, Settle(a) PROVE Ordered'
    <2>1. /\ attempt[a] \in 1 .. puts /\ settled' = Append(settled, attempt[a])
          /\ ToSet(settled') = ToSet(settled) \cup {attempt[a]} /\ ToSet(writes') \subseteq ToSet(writes)
          /\ (\A v \in ToSet(writes) : attempt[a] <= v) => \A v \in ToSet(writes') : attempt[a] < v
          /\ attempt' = [attempt EXCEPT ![a] = 0]
        BY <1>5, SettleEffect DEF Typed
    <2>2. attempt[a] # 0
        BY <1>5 DEF Settle
    <2>3. Increasing(settled')
        BY <1>2, <2>1, <2>2, AppendLast DEF Typed, Shapes
    <2>4. \A w \in ToSet(settled'), v \in ToSet(writes') : w < v
        BY <1>2, <2>1, <2>2
    <2>5. \A b \in Actors : attempt'[b] = 0
        BY <1>1, <2>1, <2>2, OneSender DEF Typed, Shapes
    <2> QED BY <2>3, <2>4, <2>5 DEF Ordered
<1>6. ASSUME NEW a \in Actors, Attempt(a) PROVE Ordered'
    <2>1. /\ writes # <<>> /\ attempt' = [attempt EXCEPT ![a] = Head(writes)] /\ UNCHANGED <<writes, settled>>
        BY <1>6 DEF Attempt, queue
    <2>2. /\ Head(writes) \in 1 .. puts
          /\ ToSet(writes) = ToSet(Tail(writes)) \cup {Head(writes)}
          /\ \A w \in ToSet(Tail(writes)) : Head(writes) < w
        BY <2>1, TailInOrder DEF Typed, Shapes
    <2>3. \A v \in ToSet(writes) : Head(writes) <= v
        BY <1>3, <2>2
    <2>4. \A w \in ToSet(settled) : w < Head(writes)
        BY <1>2, <2>2
    <2>5. \A b \in Actors : attempt'[b] = IF b = a THEN Head(writes) ELSE attempt[b]
        BY <2>1 DEF Typed, Shapes
    <2> QED BY <1>2, <2>1, <2>3, <2>4, <2>5 DEF Ordered
<1>7. ASSUME UNCHANGED <<writes, settled>>, \A b \in Actors : attempt'[b] \in {0, attempt[b]} PROVE Ordered'
    BY <1>2, <1>7 DEF Ordered
<1>8. CASE Top \/ Woken \/ Look \/ Enter \/ PauseEnds \/ Cancelled \/ UNCHANGED vars
    BY <1>7, <1>8 DEF Top, Woken, Look, Enter, PauseEnds, Cancelled, vars, queue, Typed, Shapes
<1>9. ASSUME NEW c \in Callers, CallFlush(c) \/ Stop(c) \/ Acquire(c) \/ TooLate(c) \/ Deadline(c) PROVE Ordered'
    BY <1>7, <1>9 DEF CallFlush, Stop, Acquire, TooLate, Deadline, Leave, queue
<1>10. ASSUME NEW a \in Actors, AllSent(a) \/ Fails(a) PROVE Ordered'
    BY <1>7, <1>10 DEF AllSent, Fails, Leave, queue, Typed, Shapes
<1>11. ASSUME NEW a \in Actors, Step(a) PROVE Ordered'
    BY <1>5, <1>6, <1>10, <1>11 DEF Step
<1> QED BY <1>4, <1>8, <1>9, <1>11, RolesDiffer DEF Next, ThreadStep, FlushStep, Roles

\* The thread and the callers of flush() settle the writes in the order of put(), each once, as long as no
\* flush() waits for a lock that put() has replaced.
THEOREM SettledInOrder == Spec => []InOrder
<1>1. Init => Ordered
    <2> SUFFICES ASSUME Init PROVE Ordered
        OBVIOUS
    <2>1. settled = <<>> /\ writes = <<>> /\ \A a \in Actors : attempt[a] = 0
        BY DEF Init
    <2>2. Increasing(settled) /\ ToSet(settled) = {} /\ ToSet(writes) = {}
        BY <2>1 DEF Increasing, ToSet
    <2> QED BY <2>1, <2>2 DEF Ordered
<1>2. Ordered => InOrder
    BY DEF Ordered, InOrder, Increasing
<1> QED BY <1>1, <1>2, OrderedStep, TypedAlways, PTL DEF Spec
=============================================================================
