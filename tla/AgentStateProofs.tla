--------------------------- MODULE AgentStateProofs ---------------------------
(***************************************************************************)
(* What holds of the copy of the agent's state and of its outbox, for any  *)
(* number of reads, writes, sub-agent's writes and faults.                 *)
(***************************************************************************)
EXTENDS AgentState, SequenceTheorems, TLAPS

-----------------------------------------------------------------------------
(* The parts of the type invariant, and the invariant *)

Copies == [body : Bodies, version : Nat, pending : Nat]

ApiTyped == version \in Nat /\ body \in Bodies /\ stored \subseteq 1 .. MaxPuts

CopyTyped == held = <<>> \/ (held = <<held[1]>> /\ held[1] \in Copies)

LogTyped == conflicts \subseteq 1 .. MaxPuts /\ refused \subseteq 1 .. MaxPuts

BoxTyped ==
    /\ writes \in Seq(Write) /\ Len(writes) <= Capacity
    /\ sendStage \in {"idle", "asked", "answered", "settled"}
    /\ IF sendStage = "idle" THEN sending = <<>> ELSE sending = <<sending[1]>> /\ sending[1] \in Write
    /\ sendReply \in Replies /\ sender \in {"asleep", "awake"}

CallTyped ==
    /\ call \in {"idle", "get", "put"} /\ write \in Write
    /\ stage \in {"idle", "asked", "answered"} /\ reply \in Replies

CodeTyped ==
    /\ seen.version \in Nat /\ seen.body \in Bodies /\ seen.degraded \in BOOLEAN /\ seen.after \in Nat
    /\ acked \in Nat /\ puts \in Nat /\ gets \in Nat /\ others \in Nat /\ faults \in Nat

Typed == ApiTyped /\ CopyTyped /\ LogTyped /\ BoxTyped /\ CallTyped /\ CodeTyped

\* No number is ahead of the calls of put(); the write of a put() under way has the last one.
Numbered ==
    /\ body.mine <= puts /\ reply.body.mine <= puts
    /\ HasCopy => Copy.body.mine <= puts
    /\ \A i \in 1 .. Len(writes) : writes[i].n \in 1 .. puts
    /\ sendStage # "idle" => sending[1].n \in 1 .. puts
    /\ call = "put" => write.n = puts /\ puts >= 1

\* Each put() puts one write into the outbox at most, when it ends.
Room == Len(writes) + (IF call = "put" THEN 1 ELSE 0) <= puts

IInv == Typed /\ Numbered /\ Room /\ (puts <= Capacity => PendingBacked)

LEMMA Single ==
    ASSUME NEW S, NEW x \in S
    PROVE  <<x>> \in Seq(S) /\ Len(<<x>>) = 1 /\ <<x>> # <<>> /\ <<x>>[1] = x
OBVIOUS

LEMMA InvTypes == IInv /\ whole \in BOOLEAN => TypeOK
<1> SUFFICES ASSUME IInv, whole \in BOOLEAN PROVE TypeOK
    OBVIOUS
<1>1. held \in Seq(Copies) /\ Len(held) <= 1
    <2>1. CASE held = <<>>
        BY <2>1
    <2>2. ASSUME held = <<held[1]>>, held[1] \in Copies PROVE held \in Seq(Copies) /\ Len(held) <= 1
        <3>1. PICK c \in Copies : held = <<c>>
            BY <2>2
        <3> QED BY <3>1, Single
    <2> QED BY <2>1, <2>2 DEF IInv, Typed, CopyTyped
<1>2. sending \in Seq(Write) /\ (sendStage = "idle" <=> sending = <<>>)
    <2>1. CASE sendStage = "idle"
        BY <2>1 DEF IInv, Typed, BoxTyped
    <2>2. CASE sendStage # "idle"
        <3>1. PICK w \in Write : sending = <<w>>
            BY <2>2 DEF IInv, Typed, BoxTyped
        <3> QED BY <2>2, <3>1, Single
    <2> QED BY <2>1, <2>2
<1> QED BY <1>1, <1>2 DEF IInv, Typed, ApiTyped, LogTyped, BoxTyped, CallTyped, CodeTyped, TypeOK, Copies

-----------------------------------------------------------------------------
(* The operators *)

LEMMA Records ==
    /\ Empty \in Bodies /\ Empty.mine = 0
    /\ NoWrite \in Write
    /\ NoReply \in Replies /\ NoReply.body = Empty
    /\ Rejected \in Replies
BY ConstantsAssumption DEF Empty, NoWrite, NoReply, Rejected, Bodies, Write, Replies, Any

LEMMA WriteParts ==
    ASSUME NEW w \in Write
    PROVE  /\ w.n \in 0 .. MaxPuts /\ w.n \in Nat /\ w.mode \in {"merge_by_key", "cas"}
           /\ w.if \in Nat \cup {Any} /\ w.theirs \in 0 .. MaxOthers
BY ConstantsAssumption DEF Write

LEMMA BodyParts ==
    ASSUME NEW b \in Bodies
    PROVE  b.mine \in 0 .. MaxPuts /\ b.mine \in Nat /\ b.theirs \in 0 .. MaxOthers
BY ConstantsAssumption DEF Bodies

LEMMA ReplyParts ==
    ASSUME NEW r \in Replies
    PROVE  r.version \in Nat /\ r.body \in Bodies /\ r.body.mine \in Nat
BY BodyParts DEF Replies

LEMMA Applied ==
    ASSUME NEW b \in Bodies, NEW w \in Write
    PROVE  Apply(b, w) \in Bodies /\ Apply(b, w).mine = w.n
BY DEF Apply, Bodies, Write

LEMMA Replied ==
    ASSUME NEW w, version \in Nat
    PROVE  ReplyTo(w) \in Replies /\ ReplyTo(w).body.mine = 0
BY Records DEF ReplyTo, Replies

\* What the API stores of a write.
LEMMA StoreEffect ==
    ASSUME ApiTyped, NEW w \in Write, w.n \in 1 .. MaxPuts, Store(w)
    PROVE  ApiTyped' /\ body'.mine \in {body.mine, w.n}
<1>1. Apply(body, w) \in Bodies /\ Apply(body, w).mine = w.n
    BY Applied DEF ApiTyped
<1>2. CASE Accepts(w)
    <2>1. version' = version + 1 /\ body' = Apply(body, w) /\ stored' = stored \cup {w.n}
        BY <1>2 DEF Store
    <2>2. version' \in Nat /\ body' \in Bodies /\ body'.mine = w.n
        BY <1>1, <2>1 DEF ApiTyped
    <2>3. stored' \subseteq 1 .. MaxPuts
        BY <2>1 DEF ApiTyped
    <2> QED BY <2>2, <2>3 DEF ApiTyped
<1>3. CASE ~Accepts(w)
    <2>1. UNCHANGED <<version, body, stored>>
        BY <1>3 DEF Store, api
    <2> QED BY <2>1 DEF ApiTyped
<1> QED BY <1>2, <1>3

\* The copy, or the empty one.
LEMMA CopyParts ==
    ASSUME CopyTyped
    PROVE  /\ HasCopy => Copy \in Copies /\ held = <<Copy>>
           /\ HeldOr0 \in Copies /\ (HasCopy => HeldOr0 = Copy)
           /\ HeldOr0.body \in Bodies /\ HeldOr0.version \in Nat /\ HeldOr0.pending \in Nat
<1>1. HasCopy => Copy \in Copies /\ held = <<Copy>>
    BY DEF CopyTyped, HasCopy, Copy
<1>2. HeldOr0 \in Copies /\ (HasCopy => HeldOr0 = Copy)
    BY <1>1, Records DEF HeldOr0, Copies
<1> QED BY <1>1, <1>2 DEF Copies

LEMMA KeepEffect ==
    ASSUME NEW b \in Bodies, NEW v \in Nat, NEW p \in Nat, Keep(b, v, p)
    PROVE  CopyTyped' /\ HasCopy' /\ Copy'.body = b /\ Copy'.version = v /\ Copy'.pending = p
BY DEF Keep, CopyTyped, HasCopy, Copy, Copies

\* A queue without its first write.
LEMMA Shorter ==
    ASSUME NEW S, NEW q \in Seq(S), q # <<>>
    PROVE  /\ Tail(q) \in Seq(S) /\ Len(Tail(q)) = Len(q) - 1 /\ Len(q) \in Nat \ {0}
           /\ \A i \in 1 .. Len(Tail(q)) : Tail(q)[i] = q[i + 1] /\ i + 1 \in 1 .. Len(q)
           /\ Head(q) = q[1] /\ Head(q) \in S
<1>1. Len(q) \in Nat \ {0}
    BY EmptySeq, LenProperties
<1>2. Tail(q) \in Seq(S) /\ Len(Tail(q)) = Len(q) - 1
    BY HeadTailProperties
<1>3. \A i \in 1 .. Len(Tail(q)) : Tail(q)[i] = q[i + 1]
    BY HeadTailProperties
<1>4. \A i \in 1 .. Len(Tail(q)) : i + 1 \in 1 .. Len(q)
    BY <1>1, <1>2
<1>5. Head(q) = q[1] /\ Head(q) \in S
    BY HeadTailProperties
<1> QED BY <1>1, <1>2, <1>3, <1>4, <1>5

\* put() on the outbox: one write more, or as many as before when it was full.
LEMMA Enqueued ==
    ASSUME BoxTyped, NEW w \in Write, Enqueue(w)
    PROVE  /\ writes' \in Seq(Write) /\ Len(writes') <= Capacity
           /\ Len(writes') \in {Len(writes), Len(writes) + 1}
           /\ Len(writes) < Capacity => Len(writes') = Len(writes) + 1
           /\ \A i \in 1 .. Len(writes') : writes'[i] = w \/ \E j \in 1 .. Len(writes) : writes'[i] = writes[j]
<1> DEFINE all == Append(writes, w)
<1>1. writes \in Seq(Write) /\ Len(writes) <= Capacity /\ Len(writes) \in Nat /\ Capacity \in Nat
    BY ConstantsAssumption, LenProperties DEF BoxTyped
<1>2. /\ all \in Seq(Write) /\ Len(all) = Len(writes) + 1
      /\ \A i \in 1 .. Len(writes) : all[i] = writes[i]
      /\ all[Len(writes) + 1] = w
    BY <1>1, AppendProperties
<1>3. \A i \in 1 .. Len(all) : all[i] = w \/ \E j \in 1 .. Len(writes) : all[i] = writes[j]
    <2> HIDE DEF all
    <2>1. \A i \in 1 .. Len(writes) + 1 : i \in 1 .. Len(writes) \/ i = Len(writes) + 1
        BY <1>1
    <2> QED BY <1>2, <2>1
<1>4. writes' = IF Len(all) > Capacity THEN Tail(all) ELSE all
    BY DEF Enqueue
<1> HIDE DEF all
<1>5. CASE Len(all) > Capacity
    <2>1. writes' = Tail(all) /\ all # <<>>
        BY <1>1, <1>2, <1>4, <1>5, EmptySeq
    <2>2. /\ Tail(all) \in Seq(Write) /\ Len(Tail(all)) = Len(all) - 1
          /\ \A i \in 1 .. Len(Tail(all)) : Tail(all)[i] = all[i + 1] /\ i + 1 \in 1 .. Len(all)
        BY <1>2, <2>1, Shorter
    <2> QED BY <1>1, <1>2, <1>3, <1>5, <2>1, <2>2
<1>6. CASE ~(Len(all) > Capacity)
    BY <1>1, <1>2, <1>3, <1>4, <1>6
<1> QED BY <1>5, <1>6

\* A put() or get() that ends.
LEMMA ReturnEffect ==
    ASSUME Return, CodeTyped, UNCHANGED <<acked, others>>
    PROVE  CallTyped' /\ call' = "idle" /\ reply' = NoReply /\ puts' = puts
BY Records DEF Return, CallTyped

-----------------------------------------------------------------------------
(* The steps of the agent's code *)

LEMMA Facts ==
    ASSUME IInv
    PROVE  /\ ApiTyped /\ CopyTyped /\ LogTyped /\ BoxTyped /\ CallTyped /\ CodeTyped /\ Numbered /\ Room
           /\ Len(writes) \in Nat /\ puts \in Nat /\ body \in Bodies /\ body.mine \in Nat /\ version \in Nat
           /\ reply \in Replies /\ reply.body \in Bodies /\ reply.body.mine \in Nat /\ reply.version \in Nat
           /\ HasCopy => /\ Copy \in Copies /\ Copy.body.mine \in Nat /\ Copy.version \in Nat /\ Copy.pending \in Nat
                         /\ Copy.body \in Bodies
           /\ call = "put" => write \in Write /\ write.n = puts /\ write.n \in 1 .. MaxPuts /\ write.n \in Nat
           /\ sendStage # "idle" => sending[1] \in Write /\ sending[1].n \in 1 .. MaxPuts /\ sending[1].n \in 1 .. puts
<1>1. ApiTyped /\ CopyTyped /\ LogTyped /\ BoxTyped /\ CallTyped /\ CodeTyped /\ Numbered /\ Room
    BY DEF IInv, Typed
<1>2. Len(writes) \in Nat /\ puts \in Nat /\ body \in Bodies /\ body.mine \in Nat /\ version \in Nat
    BY <1>1, LenProperties, BodyParts DEF BoxTyped, CodeTyped, ApiTyped
<1>3. reply \in Replies /\ reply.body \in Bodies /\ reply.body.mine \in Nat /\ reply.version \in Nat
    BY <1>1, ReplyParts DEF CallTyped
<1>4. HasCopy => /\ Copy \in Copies /\ Copy.body.mine \in Nat /\ Copy.version \in Nat /\ Copy.pending \in Nat
                 /\ Copy.body \in Bodies
    BY <1>1, CopyParts, BodyParts DEF Copies
<1>5. call = "put" => write \in Write /\ write.n = puts /\ write.n \in 1 .. MaxPuts /\ write.n \in Nat
    <2> SUFFICES ASSUME call = "put"
                 PROVE  write \in Write /\ write.n = puts /\ write.n \in 1 .. MaxPuts /\ write.n \in Nat
        OBVIOUS
    <2>1. write \in Write /\ write.n = puts /\ puts >= 1
        BY <1>1 DEF CallTyped, Numbered
    <2>2. write.n \in 0 .. MaxPuts
        BY <2>1, WriteParts
    <2> QED BY <1>2, <2>1, <2>2, ConstantsAssumption
<1>6. sendStage # "idle" => sending[1] \in Write /\ sending[1].n \in 1 .. MaxPuts /\ sending[1].n \in 1 .. puts
    <2> SUFFICES ASSUME sendStage # "idle"
                 PROVE  sending[1] \in Write /\ sending[1].n \in 1 .. MaxPuts /\ sending[1].n \in 1 .. puts
        OBVIOUS
    <2>1. sending[1] \in Write /\ sending[1].n \in 1 .. puts
        BY <1>1 DEF BoxTyped, Numbered
    <2>2. sending[1].n \in 0 .. MaxPuts
        BY <2>1, WriteParts
    <2> QED BY <1>2, <2>1, <2>2, ConstantsAssumption
<1> QED BY <1>1, <1>2, <1>3, <1>4, <1>5, <1>6

\* The outbox is left alone, and the copy too or its writes are no longer counted.
LEMMA BoxStill ==
    ASSUME IInv, UNCHANGED outbox, puts' \in {puts, puts + 1},
           UNCHANGED held \/ (HasCopy' => Copy'.pending = 0)
    PROVE  BoxTyped' /\ refused' \subseteq 1 .. MaxPuts /\ (puts' <= Capacity => PendingBacked')
<1>1. UNCHANGED <<writes, refused, sending, sendStage, sendReply, sender>>
    BY DEF outbox
<1>2. BoxTyped' /\ refused' \subseteq 1 .. MaxPuts
    BY <1>1 DEF IInv, Typed, BoxTyped, LogTyped
<1>3. ASSUME puts' <= Capacity PROVE PendingBacked'
    <2>1. puts <= Capacity
        BY <1>3, Facts, ConstantsAssumption
    <2>2. CASE UNCHANGED held
        BY <1>1, <2>1, <2>2 DEF IInv, PendingBacked, HasCopy, Copy
    <2>3. CASE HasCopy' => Copy'.pending = 0
        BY <1>1, <2>3, Facts DEF PendingBacked
    <2> QED BY <2>2, <2>3
<1> QED BY <1>2, <1>3

\* The outbox as it was holds no number that is ahead.
LEMMA BoxNumbers ==
    ASSUME IInv, UNCHANGED outbox, puts' \in {puts, puts + 1}
    PROVE  /\ \A i \in 1 .. Len(writes') : writes'[i].n \in 1 .. puts'
           /\ sendStage' # "idle" => sending'[1].n \in 1 .. puts'
<1>1. UNCHANGED <<writes, refused, sending, sendStage, sendReply, sender>>
    BY DEF outbox
<1>2. 1 .. puts \subseteq 1 .. puts'
    BY Facts
<1> QED BY <1>1, <1>2, Facts DEF Numbered

LEMMA GetKeeps ==
    ASSUME IInv, Get
    PROVE  IInv'
<1>1. /\ call' = "get" /\ stage' = "asked" /\ gets' = gets + 1
      /\ UNCHANGED <<api, held, whole, conflicts, outbox, write, reply, seen, acked, puts, others, faults>>
      /\ call = "idle"
    BY DEF Get
<1>2. BoxTyped' /\ refused' \subseteq 1 .. MaxPuts /\ (puts' <= Capacity => PendingBacked')
    BY <1>1, BoxStill
<1>3. ApiTyped' /\ CopyTyped' /\ LogTyped' /\ CallTyped' /\ CodeTyped'
    BY <1>1, <1>2, Facts DEF api, ApiTyped, CopyTyped, LogTyped, CallTyped, CodeTyped
<1>4. Numbered'
    BY <1>1, BoxNumbers, Facts DEF api, Numbered, HasCopy, Copy
<1>5. Room'
    BY <1>1, Facts DEF outbox, Room
<1> QED BY <1>2, <1>3, <1>4, <1>5 DEF IInv, Typed

LEMMA PutKeeps ==
    ASSUME IInv, Put
    PROVE  IInv'
<1>1. /\ call = "idle" /\ puts < MaxPuts /\ puts' = puts + 1 /\ call' = "put" /\ stage' = "asked"
      /\ UNCHANGED <<api, held, whole, conflicts, outbox, reply, seen, acked, gets, others, faults>>
    BY DEF Put
<1>2. PICK mode \in Modes, if \in {seen.version, Any} :
          write' = [n |-> puts + 1, mode |-> mode, if |-> if, theirs |-> seen.body.theirs]
    BY DEF Put
<1>3. write' \in Write /\ write'.n = puts' /\ puts' >= 1
    <2>1. seen.version \in Nat /\ seen.body.theirs \in 0 .. MaxOthers /\ puts + 1 \in 0 .. MaxPuts
        BY <1>1, Facts, BodyParts, ConstantsAssumption, SMTT(20) DEF CodeTyped
    <2>2. mode \in {"merge_by_key", "cas"}
        BY ConstantsAssumption
    <2> QED BY <1>1, <1>2, <2>1, <2>2, Facts DEF Write
<1>4. BoxTyped' /\ refused' \subseteq 1 .. MaxPuts /\ (puts' <= Capacity => PendingBacked')
    BY <1>1, BoxStill
<1>5. ApiTyped' /\ CopyTyped' /\ LogTyped' /\ CallTyped' /\ CodeTyped'
    BY <1>1, <1>3, <1>4, Facts, SMTT(20) DEF api, ApiTyped, CopyTyped, LogTyped, CallTyped, CodeTyped
<1>6. Numbered'
    <2>1. UNCHANGED <<body, reply, held>>
        BY <1>1 DEF api
    <2> QED BY <1>1, <1>3, <2>1, BoxNumbers, Facts DEF Numbered, HasCopy, Copy
<1>7. Room'
    <2>1. writes' = writes
        BY <1>1 DEF outbox
    <2> QED BY <1>1, <2>1, Facts DEF Room
<1> QED BY <1>4, <1>5, <1>6, <1>7 DEF IInv, Typed

LEMMA AnswerGetKeeps ==
    ASSUME IInv, AnswerGet
    PROVE  IInv'
<1>1. /\ call = "get" /\ reply' = [kind |-> "state", version |-> version, body |-> body] /\ stage' = "answered"
      /\ UNCHANGED <<api, held, whole, conflicts, outbox, call, write, seen, acked, puts, gets, others, faults>>
    BY DEF AnswerGet
<1>2. BoxTyped' /\ refused' \subseteq 1 .. MaxPuts /\ (puts' <= Capacity => PendingBacked')
    BY <1>1, BoxStill
<1>3. reply' \in Replies /\ reply'.body = body
    BY <1>1, Facts DEF Replies
<1>4. ApiTyped' /\ CopyTyped' /\ LogTyped' /\ CallTyped' /\ CodeTyped'
    BY <1>1, <1>2, <1>3, Facts DEF api, ApiTyped, CopyTyped, LogTyped, CallTyped, CodeTyped
<1>5. Numbered'
    BY <1>1, <1>3, BoxNumbers, Facts DEF api, Numbered, HasCopy, Copy
<1>6. Room'
    BY <1>1, Facts DEF outbox, Room
<1> QED BY <1>2, <1>4, <1>5, <1>6 DEF IInv, Typed

LEMMA AnswerPutKeeps ==
    ASSUME IInv, AnswerPut
    PROVE  IInv'
<1>1. /\ call = "put" /\ Store(write) /\ reply' = ReplyTo(write) /\ stage' = "answered"
      /\ UNCHANGED <<held, whole, conflicts, outbox, call, write, seen, acked, puts, gets, others, faults>>
    BY DEF AnswerPut
<1>2. BoxTyped' /\ refused' \subseteq 1 .. MaxPuts /\ (puts' <= Capacity => PendingBacked')
    BY <1>1, BoxStill
<1>3. ApiTyped' /\ body'.mine \in {body.mine, write.n}
    BY <1>1, Facts, StoreEffect
<1>4. reply' \in Replies /\ reply'.body.mine = 0
    BY <1>1, Facts, Replied
<1>5. CopyTyped' /\ LogTyped' /\ CallTyped' /\ CodeTyped'
    BY <1>1, <1>2, <1>4, Facts DEF CopyTyped, LogTyped, CallTyped, CodeTyped
<1>6. Numbered'
    <2>1. body'.mine <= puts' /\ reply'.body.mine <= puts'
        BY <1>1, <1>3, <1>4, Facts DEF Numbered
    <2>2. call' = call /\ write' = write /\ held' = held /\ puts' = puts
        BY <1>1
    <2> QED BY <2>1, <2>2, <1>1, BoxNumbers, Facts DEF Numbered, HasCopy, Copy
<1>7. Room'
    BY <1>1, Facts DEF outbox, Room
<1> QED BY <1>2, <1>3, <1>5, <1>6, <1>7 DEF IInv, Typed

\* A call of the agent's code ends, the outbox as it was and the copy with no number ahead.
LEMMA EndKeeps ==
    ASSUME IInv, Return, call # "idle", UNCHANGED <<api, conflicts, outbox, others>>, faults' \in Nat, acked' \in Nat,
           seen'.version \in Nat, seen'.body \in Bodies, seen'.degraded \in BOOLEAN, seen'.after \in Nat,
           \/ UNCHANGED held
           \/ CopyTyped' /\ (HasCopy' => Copy'.pending = 0 /\ Copy'.body.mine <= puts)
    PROVE  IInv'
<1>1. call' = "idle" /\ stage' = "idle" /\ reply' = NoReply /\ write' = NoWrite /\ UNCHANGED <<puts, gets>>
    BY DEF Return
<1>2. BoxTyped' /\ refused' \subseteq 1 .. MaxPuts /\ (puts' <= Capacity => PendingBacked')
    BY <1>1, BoxStill
<1>3. CopyTyped'
    BY Facts DEF CopyTyped
<1>4. ApiTyped' /\ LogTyped' /\ CallTyped' /\ CodeTyped'
    BY <1>1, <1>2, Facts, Records DEF api, ApiTyped, LogTyped, CallTyped, CodeTyped
<1>5. Numbered'
    <2>1. HasCopy' => Copy'.body.mine <= puts
        BY Facts DEF Numbered, HasCopy, Copy
    <2>2. body'.mine <= puts' /\ reply'.body.mine <= puts'
        BY <1>1, Facts, Records DEF Numbered, api
    <2> QED BY <1>1, <2>1, <2>2, BoxNumbers, Facts DEF Numbered
<1>6. Room'
    <2>1. writes' = writes
        BY DEF outbox
    <2> QED BY <1>1, <2>1, Facts DEF Room
<1> QED BY <1>2, <1>3, <1>4, <1>5, <1>6 DEF IInv, Typed

LEMMA Served ==
    ASSUME NEW copy, copy.version \in Nat, copy.body \in Bodies, NEW degraded \in BOOLEAN, CodeTyped,
           Serve(copy, degraded)
    PROVE  seen'.version \in Nat /\ seen'.body \in Bodies /\ seen'.degraded \in BOOLEAN /\ seen'.after \in Nat
BY DEF Serve, CodeTyped

LEMMA GetDoneKeeps ==
    ASSUME IInv, GetDone
    PROVE  IInv'
<1>1. /\ call = "get" /\ Return /\ UNCHANGED <<api, conflicts, outbox, acked, others, faults>>
    BY DEF GetDone
<1>2. CASE Takes(reply.version)
    <2>1. Keep(reply.body, reply.version, 0) /\ Serve(reply, FALSE)
        BY <1>2 DEF GetDone
    <2>2. CopyTyped' /\ Copy'.pending = 0 /\ Copy'.body = reply.body
        BY <2>1, Facts, KeepEffect
    <2>3. Copy'.body.mine <= puts
        BY <2>2, Facts DEF Numbered
    <2>4. /\ seen'.version \in Nat /\ seen'.body \in Bodies /\ seen'.degraded \in BOOLEAN /\ seen'.after \in Nat
          /\ faults' \in Nat /\ acked' \in Nat
        BY <1>1, <2>1, Facts, Served DEF CodeTyped
    <2> QED BY <1>1, <2>2, <2>3, <2>4, EndKeeps
<1>3. CASE ~Takes(reply.version)
    <2>1. Serve(Copy, FALSE) /\ UNCHANGED held /\ HasCopy
        BY <1>3 DEF GetDone, Takes
    <2>2. /\ seen'.version \in Nat /\ seen'.body \in Bodies /\ seen'.degraded \in BOOLEAN /\ seen'.after \in Nat
          /\ faults' \in Nat /\ acked' \in Nat
        BY <1>1, <2>1, Facts, Served DEF CodeTyped
    <2> QED BY <1>1, <2>1, <2>2, EndKeeps
<1> QED BY <1>2, <1>3

LEMMA GetFailsKeeps ==
    ASSUME IInv, GetFails
    PROVE  IInv'
<1>1. /\ call = "get" /\ faults' = faults + 1 /\ Serve(HeldOr0, TRUE) /\ Return
      /\ UNCHANGED <<api, held, whole, conflicts, outbox, acked, others>>
    BY DEF GetFails
<1>2. HeldOr0.version \in Nat /\ HeldOr0.body \in Bodies
    BY Facts, CopyParts
<1>3. /\ seen'.version \in Nat /\ seen'.body \in Bodies /\ seen'.degraded \in BOOLEAN /\ seen'.after \in Nat
      /\ faults' \in Nat /\ acked' \in Nat
    <2>1. CodeTyped
        BY Facts
    <2>2. PICK copy : copy = HeldOr0 /\ copy.version \in Nat /\ copy.body \in Bodies /\ Serve(copy, TRUE)
        BY <1>1, <1>2
    <2>3. seen'.version \in Nat /\ seen'.body \in Bodies /\ seen'.degraded \in BOOLEAN /\ seen'.after \in Nat
        BY <2>1, <2>2, Served
    <2> QED BY <1>1, <2>1, <2>3 DEF CodeTyped
<1> QED BY <1>1, <1>3, EndKeeps

LEMMA PutStoredKeeps ==
    ASSUME IInv, PutStored
    PROVE  IInv'
<1>1. /\ call = "put" /\ acked' = write.n /\ Return /\ UNCHANGED <<api, conflicts, outbox, seen, others, faults>>
    BY DEF PutStored
<1>2. /\ seen'.version \in Nat /\ seen'.body \in Bodies /\ seen'.degraded \in BOOLEAN /\ seen'.after \in Nat
      /\ faults' \in Nat /\ acked' \in Nat
    <2>1. acked' \in Nat
        BY <1>1, Facts
    <2>2. CodeTyped /\ seen' = seen /\ faults' = faults
        BY <1>1, Facts
    <2> QED BY <2>1, <2>2 DEF CodeTyped
<1>3. CASE UNCHANGED held
    BY <1>1, <1>2, <1>3, EndKeeps
<1>4. CASE Keep(Apply(HeldOr0.body, write), reply.version, 0)
    <2>1. Apply(HeldOr0.body, write) \in Bodies /\ Apply(HeldOr0.body, write).mine = write.n
        BY <1>1, Facts, CopyParts, Applied
    <2>2. CopyTyped' /\ Copy'.pending = 0 /\ Copy'.body = Apply(HeldOr0.body, write)
        BY <1>4, <2>1, Facts, KeepEffect
    <2>3. Copy'.body.mine <= puts
        BY <1>1, <2>1, <2>2, Facts
    <2> QED BY <1>1, <1>2, <2>2, <2>3, EndKeeps
<1> QED BY <1>3, <1>4 DEF PutStored

LEMMA PutRefusedKeeps ==
    ASSUME IInv, PutConflicts \/ PutRejected
    PROVE  IInv'
<1>1. /\ call = "put" /\ faults' \in {faults, faults + 1} /\ Return
      /\ UNCHANGED <<api, held, whole, conflicts, outbox, seen, acked, others>>
    BY DEF PutConflicts, PutRejected
<1>2. /\ seen'.version \in Nat /\ seen'.body \in Bodies /\ seen'.degraded \in BOOLEAN /\ seen'.after \in Nat
      /\ faults' \in Nat /\ acked' \in Nat
    BY <1>1, Facts DEF CodeTyped
<1> QED BY <1>1, <1>2, EndKeeps

\* later(): the write joins the outbox, and the copy counts it.
LEMMA PutFailsKeeps ==
    ASSUME IInv, PutFails
    PROVE  IInv'
<1>1. /\ call = "put" /\ faults' = faults + 1 /\ Return
      /\ UNCHANGED <<api, conflicts, refused, sending, sendStage, sendReply, seen, acked, others>>
    BY DEF PutFails
<1>2. CASE UNCHANGED <<held, writes, sender>>
    <2>1. UNCHANGED outbox
        BY <1>1, <1>2 DEF outbox
    <2>2. /\ seen'.version \in Nat /\ seen'.body \in Bodies /\ seen'.degraded \in BOOLEAN /\ seen'.after \in Nat
          /\ faults' \in Nat /\ acked' \in Nat
        BY <1>1, Facts DEF CodeTyped
    <2> QED BY <1>1, <1>2, <2>1, <2>2, EndKeeps
<1>3. CASE /\ Keep(Apply(HeldOr0.body, write), HeldOr0.version + 1, HeldOr0.pending + 1)
           /\ Enqueue(write) /\ WakeSender
    <2>1. call' = "idle" /\ stage' = "idle" /\ reply' = NoReply /\ write' = NoWrite /\ UNCHANGED <<puts, gets>>
        BY <1>1 DEF Return
    <2>2. Apply(HeldOr0.body, write) \in Bodies /\ Apply(HeldOr0.body, write).mine = puts
        BY <1>1, Facts, CopyParts, Applied
    <2>3. /\ CopyTyped' /\ Copy'.pending = HeldOr0.pending + 1 /\ Copy'.body.mine = puts
        <3>1. HeldOr0.version + 1 \in Nat /\ HeldOr0.pending + 1 \in Nat
            BY Facts, CopyParts
        <3> QED BY <1>3, <2>2, <3>1, KeepEffect
    <2>4. /\ writes' \in Seq(Write) /\ Len(writes') <= Capacity /\ Len(writes') \in {Len(writes), Len(writes) + 1}
          /\ Len(writes) < Capacity => Len(writes') = Len(writes) + 1
          /\ \A i \in 1 .. Len(writes') : writes'[i] = write \/ \E j \in 1 .. Len(writes) : writes'[i] = writes[j]
        BY <1>1, <1>3, Facts, Enqueued
    <2>5. ApiTyped' /\ LogTyped' /\ CallTyped' /\ CodeTyped'
        BY <1>1, <2>1, Facts, Records DEF api, ApiTyped, LogTyped, CallTyped, CodeTyped
    <2>6. BoxTyped'
        <3>1. sender' \in {"asleep", "awake"}
            BY <1>3, Facts DEF WakeSender, BoxTyped
        <3> QED BY <1>1, <2>4, <3>1, Facts DEF BoxTyped
    <2>7. Numbered'
        <3>1. body' = body /\ sending' = sending /\ sendStage' = sendStage
            BY <1>1 DEF api
        <3>2. \A i \in 1 .. Len(writes') : writes'[i].n \in 1 .. puts
            <4> TAKE i \in 1 .. Len(writes')
            <4>1. CASE writes'[i] = write
                BY <1>1, <4>1, Facts
            <4>2. ASSUME NEW j \in 1 .. Len(writes), writes'[i] = writes[j] PROVE writes'[i].n \in 1 .. puts
                BY <4>2, Facts DEF Numbered
            <4> QED BY <2>4, <4>1, <4>2
        <3>3. Copy'.body.mine <= puts /\ reply'.body.mine <= puts
            BY <2>1, <2>3, Facts, Records
        <3> QED BY <2>1, <3>1, <3>2, <3>3, Facts DEF Numbered
    <2>8. Room'
        BY <1>1, <2>1, <2>4, Facts DEF Room
    <2>9. ASSUME puts' <= Capacity PROVE PendingBacked'
        <3>1. Len(writes') = Len(writes) + 1
            BY <1>1, <2>1, <2>4, <2>9, Facts, ConstantsAssumption DEF Room
        <3>2. HeldOr0.pending <= Len(writes) + (IF sendStage = "settled" THEN 1 ELSE 0)
            <4>1. CASE HasCopy
                BY <2>1, <2>9, <4>1, Facts, CopyParts DEF IInv, PendingBacked
            <4>2. CASE ~HasCopy
                BY <4>2, Facts DEF HeldOr0
            <4> QED BY <4>1, <4>2
        <3> QED BY <1>1, <2>3, <3>1, <3>2, Facts, CopyParts DEF PendingBacked
    <2> QED BY <2>3, <2>5, <2>6, <2>7, <2>8, <2>9 DEF IInv, Typed
<1> QED BY <1>2, <1>3 DEF PutFails

-----------------------------------------------------------------------------
(* The steps of the outbox and of the API *)

\* A step that leaves the agent's code, the copy and the queue alone.
LEMMA SendKeepsAll ==
    ASSUME IInv, UNCHANGED <<held, conflicts, writes, refused, sender, code, others>>, faults' \in Nat,
           ApiTyped', body'.mine <= puts,
           sendStage' \in {"idle", "asked", "answered"}, sendStage # "settled",
           IF sendStage' = "idle" THEN sending' = <<>>
                                  ELSE sending' = <<sending'[1]>> /\ sending'[1] \in Write /\ sending'[1].n \in 1 .. puts,
           sendReply' \in Replies
    PROVE  IInv'
<1>1. UNCHANGED <<call, write, stage, reply, seen, acked, puts, gets>>
    BY DEF code
<1>2. BoxTyped'
    BY Facts DEF BoxTyped
<1>3. CopyTyped' /\ LogTyped' /\ CallTyped' /\ CodeTyped'
    BY <1>1, Facts DEF CopyTyped, LogTyped, CallTyped, CodeTyped
<1>4. Numbered'
    BY <1>1, Facts DEF Numbered, HasCopy, Copy
<1>5. Room'
    BY <1>1, Facts DEF Room
<1>6. puts' <= Capacity => PendingBacked'
    BY <1>1 DEF IInv, PendingBacked, HasCopy, Copy
<1> QED BY <1>2, <1>3, <1>4, <1>5, <1>6 DEF IInv, Typed

LEMMA StillApi ==
    ASSUME IInv, UNCHANGED <<api, faults>> \/ (UNCHANGED api /\ faults' = faults + 1)
    PROVE  ApiTyped' /\ body'.mine <= puts /\ faults' \in Nat
BY Facts DEF api, ApiTyped, Numbered, CodeTyped

LEMMA SendKeeps ==
    ASSUME IInv, Send
    PROVE  IInv'
<1>1. /\ sendStage = "idle" /\ writes # <<>> /\ sending' = <<Head(writes)>> /\ sendStage' = "asked"
      /\ UNCHANGED <<api, held, whole, conflicts, writes, refused, sendReply, sender, code, others, faults>>
    BY DEF Send
<1>2. writes \in Seq(Write) /\ sendReply' \in Replies
    BY <1>1, Facts DEF BoxTyped
<1>3. Head(writes) = writes[1] /\ Head(writes) \in Write /\ Len(writes) \in Nat \ {0}
    BY <1>1, <1>2, Shorter
<1>4. sending' = <<sending'[1]>> /\ sending'[1] \in Write /\ sending'[1].n \in 1 .. puts
    BY <1>1, <1>3, Facts DEF Numbered
<1> QED BY <1>1, <1>2, <1>4, StillApi, SendKeepsAll

LEMMA AnswerSendKeeps ==
    ASSUME IInv, AnswerSend
    PROVE  IInv'
<1>1. /\ sendStage = "asked" /\ Store(sending[1]) /\ sendReply' = ReplyTo(sending[1]) /\ sendStage' = "answered"
      /\ UNCHANGED <<held, whole, conflicts, writes, refused, sending, sender, code, others, faults>>
    BY DEF AnswerSend
<1>2. sending[1] \in Write /\ sending[1].n \in 1 .. MaxPuts /\ sending[1].n \in 1 .. puts /\ sending = <<sending[1]>>
    BY <1>1, Facts DEF BoxTyped
<1>3. ApiTyped' /\ body'.mine \in {body.mine, sending[1].n}
    BY <1>1, <1>2, Facts, StoreEffect
<1>4. body'.mine <= puts /\ faults' \in Nat
    BY <1>1, <1>2, <1>3, Facts DEF Numbered, CodeTyped
<1>5. sendReply' \in Replies
    BY <1>1, Facts, Replied
<1>6. sending' = <<sending'[1]>> /\ sending'[1] \in Write /\ sending'[1].n \in 1 .. puts
    BY <1>1, <1>2
<1> QED BY <1>1, <1>3, <1>4, <1>5, <1>6, SendKeepsAll

LEMMA RejectSendKeeps ==
    ASSUME IInv, RejectSend
    PROVE  IInv'
<1>1. /\ sendStage = "asked" /\ faults' = faults + 1 /\ sendReply' = Rejected /\ sendStage' = "answered"
      /\ UNCHANGED <<api, held, whole, conflicts, writes, refused, sending, sender, code, others>>
    BY DEF RejectSend
<1>2. sending' = <<sending'[1]>> /\ sending'[1] \in Write /\ sending'[1].n \in 1 .. puts
    BY <1>1, Facts DEF BoxTyped
<1> QED BY <1>1, <1>2, StillApi, Records, SendKeepsAll

LEMMA SendFailsKeeps ==
    ASSUME IInv, SendFails
    PROVE  IInv'
<1>1. /\ sendStage \in {"asked", "answered"} /\ faults' = faults + 1
      /\ sending' = <<>> /\ sendStage' = "idle" /\ sendReply' = NoReply
      /\ UNCHANGED <<api, held, whole, conflicts, writes, refused, sender, code, others>>
    BY DEF SendFails, Unsend
<1> QED BY <1>1, StillApi, Records, SendKeepsAll

LEMMA DozeKeeps ==
    ASSUME IInv, Doze
    PROVE  IInv'
<1>1. /\ sender' = "asleep"
      /\ UNCHANGED <<api, held, conflicts, writes, refused, sending, sendStage, sendReply, code, others, faults>>
    BY DEF Doze
<1>2. UNCHANGED <<version, body, stored, call, write, stage, reply, seen, acked, puts, gets>>
    BY <1>1 DEF api, code
<1>3. ApiTyped' /\ CopyTyped' /\ LogTyped' /\ BoxTyped' /\ CallTyped' /\ CodeTyped'
    BY <1>1, <1>2, Facts DEF ApiTyped, CopyTyped, LogTyped, BoxTyped, CallTyped, CodeTyped
<1>4. Numbered' /\ Room'
    BY <1>1, <1>2, Facts DEF Numbered, Room, HasCopy, Copy
<1>5. puts' <= Capacity => PendingBacked'
    BY <1>1, <1>2 DEF IInv, PendingBacked, HasCopy, Copy
<1> QED BY <1>3, <1>4, <1>5 DEF IInv, Typed

\* The write leaves the queue, and counts as pending until its callback ran.
LEMMA SettleKeeps ==
    ASSUME IInv, Settle
    PROVE  IInv'
<1>1. /\ sendStage = "answered" /\ sendStage' = "settled"
      /\ writes' = IF writes # <<>> /\ Head(writes) = sending[1] THEN Tail(writes) ELSE writes
      /\ refused' \subseteq refused \cup {sending[1].n}
      /\ UNCHANGED <<api, held, whole, conflicts, sending, sendReply, sender, code, others, faults>>
    BY DEF Settle
<1>2. UNCHANGED <<call, write, stage, reply, seen, acked, puts, gets>>
    BY <1>1 DEF code
<1>3. writes \in Seq(Write) /\ Len(writes) <= Capacity
    BY Facts DEF BoxTyped
<1>4. /\ writes' \in Seq(Write) /\ Len(writes') <= Len(writes) /\ Len(writes') >= Len(writes) - 1 /\ Len(writes') \in Nat
      /\ \A i \in 1 .. Len(writes') : \E j \in 1 .. Len(writes) : writes'[i] = writes[j]
    <2>1. CASE writes # <<>> /\ Head(writes) = sending[1]
        <3>1. writes' = Tail(writes)
            BY <1>1, <2>1
        <3>2. /\ Tail(writes) \in Seq(Write) /\ Len(Tail(writes)) = Len(writes) - 1 /\ Len(writes) \in Nat \ {0}
              /\ \A i \in 1 .. Len(Tail(writes)) : Tail(writes)[i] = writes[i + 1] /\ i + 1 \in 1 .. Len(writes)
            BY <1>3, <2>1, Shorter
        <3> QED BY <3>1, <3>2
    <2>2. CASE ~(writes # <<>> /\ Head(writes) = sending[1])
        <3>1. writes' = writes
            BY <1>1, <2>2
        <3> QED BY <1>3, <3>1, Facts
    <2> QED BY <2>1, <2>2
<1>5. BoxTyped'
    BY <1>1, <1>3, <1>4, Facts, ConstantsAssumption DEF BoxTyped
<1>6. LogTyped'
    BY <1>1, Facts DEF LogTyped
<1>7. ApiTyped' /\ CopyTyped' /\ CallTyped' /\ CodeTyped'
    BY <1>1, <1>2, Facts DEF api, ApiTyped, CopyTyped, CallTyped, CodeTyped
<1>8. Numbered'
    <2>1. \A i \in 1 .. Len(writes') : writes'[i].n \in 1 .. puts
        BY <1>4, Facts DEF Numbered
    <2>2. body' = body
        BY <1>1 DEF api
    <2> QED BY <1>1, <1>2, <2>1, <2>2, Facts DEF Numbered, HasCopy, Copy
<1>9. Room'
    BY <1>2, <1>4, Facts DEF Room
<1>10. ASSUME puts' <= Capacity PROVE PendingBacked'
    <2>1. HasCopy => Copy.pending <= Len(writes)
        BY <1>1, <1>2, <1>10, Facts DEF IInv, PendingBacked
    <2>2. held' = held /\ sendStage' = "settled"
        BY <1>1
    <2> QED BY <1>4, <2>1, <2>2, Facts DEF PendingBacked, HasCopy, Copy
<1> QED BY <1>5, <1>6, <1>7, <1>8, <1>9, <1>10 DEF IInv, Typed

LEMMA ResentEffect ==
    ASSUME IInv, HasCopy, Resent(sendReply)
    PROVE  /\ CopyTyped' /\ HasCopy' /\ Copy'.body = Copy.body /\ Copy'.version >= Copy.version
           /\ Copy'.pending = IF Copy.pending > 0 THEN Copy.pending - 1 ELSE 0
<1>1. PICK v \in Nat, p \in Nat :
          /\ v = IF sendReply.version > Copy.version THEN sendReply.version ELSE Copy.version
          /\ p = IF Copy.pending > 0 THEN Copy.pending - 1 ELSE 0
    BY Facts, ReplyParts DEF BoxTyped
<1>2. Keep(Copy.body, v, p)
    BY <1>1 DEF Resent
<1>3. CopyTyped' /\ HasCopy' /\ Copy'.body = Copy.body /\ Copy'.version = v /\ Copy'.pending = p
    BY <1>2, Facts, KeepEffect
<1>4. v >= Copy.version
    BY <1>1, Facts, ReplyParts DEF BoxTyped
<1> QED BY <1>1, <1>3, <1>4

LEMMA SettledKeeps ==
    ASSUME IInv, Settled
    PROVE  IInv'
<1>1. /\ sendStage = "settled" /\ sending' = <<>> /\ sendStage' = "idle" /\ sendReply' = NoReply
      /\ UNCHANGED <<api, writes, refused, sender, code, others, faults>>
      /\ conflicts' \subseteq conflicts \cup {sending[1].n}
    BY DEF Settled, Unsend
<1>2. UNCHANGED <<call, write, stage, reply, seen, acked, puts, gets>>
    BY <1>1 DEF code
<1>3. /\ CopyTyped'
      /\ HasCopy' => /\ HasCopy /\ Copy'.body = Copy.body
                     /\ Copy'.pending = IF Copy.pending > 0 THEN Copy.pending - 1 ELSE 0
    <2>1. CASE held' = <<>>
        BY <2>1 DEF CopyTyped, HasCopy
    <2>2. CASE held' # <<>>
        <3>1. Resent(sendReply)
            BY <2>2 DEF Settled
        <3>2. HasCopy
            BY <2>2, <3>1 DEF Resent, HasCopy
        <3> QED BY <3>1, <3>2, ResentEffect
    <2> QED BY <2>1, <2>2
<1>4. BoxTyped'
    BY <1>1, Facts, Records DEF BoxTyped
<1>5. ApiTyped' /\ CallTyped' /\ CodeTyped'
    BY <1>1, <1>2, Facts DEF api, ApiTyped, CallTyped, CodeTyped
<1>6. LogTyped'
    BY <1>1, Facts DEF LogTyped
<1>7. Numbered'
    <2>1. body' = body /\ (HasCopy' => Copy'.body.mine <= puts)
        BY <1>1, <1>3, Facts DEF api, Numbered
    <2> QED BY <1>1, <1>2, <2>1, Facts DEF Numbered
<1>8. Room'
    BY <1>1, <1>2, Facts DEF Room
<1>9. ASSUME puts' <= Capacity PROVE PendingBacked'
    <2>1. HasCopy => Copy.pending <= Len(writes) + 1
        BY <1>1, <1>2, <1>9 DEF IInv, PendingBacked
    <2> QED BY <1>1, <1>3, <2>1, Facts DEF PendingBacked
<1> QED BY <1>3, <1>4, <1>5, <1>6, <1>7, <1>8, <1>9 DEF IInv, Typed

LEMMA OtherKeeps ==
    ASSUME IInv, Other
    PROVE  IInv'
<1>1. /\ others < MaxOthers /\ others' = others + 1 /\ version' = version + 1
      /\ body' = [body EXCEPT !.theirs = others + 1]
      /\ UNCHANGED <<stored, held, whole, conflicts, outbox, code, faults>>
    BY DEF Other
<1>2. UNCHANGED <<call, write, stage, reply, seen, acked, puts, gets>>
    BY <1>1 DEF code
<1>3. BoxTyped' /\ refused' \subseteq 1 .. MaxPuts /\ (puts' <= Capacity => PendingBacked')
    BY <1>1, <1>2, BoxStill
<1>4. body' \in Bodies /\ body'.mine = body.mine
    <2>1. others \in Nat /\ MaxOthers \in Nat /\ body \in Bodies
        BY Facts, ConstantsAssumption DEF CodeTyped
    <2>2. others + 1 \in 0 .. MaxOthers
        BY <1>1, <2>1
    <2> QED BY <1>1, <2>1, <2>2 DEF Bodies
<1>5. ApiTyped' /\ CodeTyped'
    BY <1>1, <1>2, <1>4, Facts DEF ApiTyped, CodeTyped
<1>6. CopyTyped' /\ LogTyped' /\ CallTyped'
    BY <1>1, <1>2, <1>3, Facts DEF CopyTyped, LogTyped, CallTyped
<1>7. Numbered'
    BY <1>1, <1>2, <1>4, BoxNumbers, Facts DEF Numbered, HasCopy, Copy
<1>8. Room'
    BY <1>1, <1>2, Facts DEF outbox, Room
<1> QED BY <1>3, <1>5, <1>6, <1>7, <1>8 DEF IInv, Typed

-----------------------------------------------------------------------------
(* The theorems *)

LEMMA InitInv == Init => IInv
<1> SUFFICES ASSUME Init PROVE IInv
    OBVIOUS
<1>1. /\ writes = <<>> /\ <<>> \in Seq(Write) /\ Len(<<>>) = 0
    BY DEF Init
<1>2. ApiTyped /\ CopyTyped /\ LogTyped
    BY Records DEF Init, ApiTyped, CopyTyped, LogTyped
<1>3. BoxTyped /\ CallTyped
    BY <1>1, Records, ConstantsAssumption DEF Init, BoxTyped, CallTyped
<1>4. CodeTyped
    BY Records DEF Init, CodeTyped
<1>5. Numbered
    BY <1>1, Records DEF Init, Numbered, HasCopy
<1>6. Room /\ PendingBacked
    BY <1>1 DEF Init, Room, PendingBacked, HasCopy
<1> QED BY <1>2, <1>3, <1>4, <1>5, <1>6 DEF IInv, Typed

LEMMA NextInv == IInv /\ [Next]_vars => IInv'
<1> SUFFICES ASSUME IInv, [Next]_vars PROVE IInv'
    OBVIOUS
<1>1. CASE CodeStep
    BY <1>1, GetKeeps, PutKeeps, GetDoneKeeps, GetFailsKeeps, PutStoredKeeps, PutRefusedKeeps, PutFailsKeeps
    DEF CodeStep
<1>2. CASE AnswerGet \/ AnswerPut
    BY <1>2, AnswerGetKeeps, AnswerPutKeeps
<1>3. CASE Send \/ Settle \/ Settled \/ Doze
    BY <1>3, SendKeeps, SettleKeeps, SettledKeeps, DozeKeeps
<1>4. CASE AnswerSend \/ RejectSend \/ SendFails
    BY <1>4, AnswerSendKeeps, RejectSendKeeps, SendFailsKeeps
<1>5. CASE Other
    BY <1>5, OtherKeeps
<1>6. CASE UNCHANGED vars
    <2>1. UNCHANGED <<api, held, whole, conflicts, outbox, code, others, faults>>
        BY <1>6 DEF vars
    <2>2. UNCHANGED <<version, body, stored, writes, refused, sending, sendStage, sendReply, sender, call, write, stage, reply,
                      seen, acked, puts, gets>>
        BY <2>1 DEF api, outbox, code
    <2> QED BY <2>1, <2>2 DEF IInv, Typed, ApiTyped, CopyTyped, LogTyped, BoxTyped, CallTyped, CodeTyped, Numbered,
                              Room, PendingBacked, HasCopy, Copy
<1> QED BY <1>1, <1>2, <1>3, <1>4, <1>5, <1>6 DEF Next

LEMMA Invariant == Spec => []IInv
BY InitInv, NextInv, PTL DEF Spec

\* As long as no more writes were made than the outbox holds, a write that a copy counts as pending waits in the
\* outbox or its callback is about to run (AgentStates.later, _resent): the copy is not stuck on its own guess.
THEOREM PendingWritesAreBacked == Spec => [](puts <= Capacity => PendingBacked)
<1>1. IInv => (puts <= Capacity => PendingBacked)
    BY DEF IInv
<1> QED BY <1>1, Invariant, PTL

\* What any step makes of a copy: it keeps it or takes a version no older.
LEMMA CopySteps ==
    ASSUME IInv, [Next]_vars, HasCopy, held' # <<>>
    PROVE  held'[1].version >= Copy.version
<1> DEFINE Goal == held'[1].version >= Copy.version
<1>1. Copy' = held'[1]
    BY DEF Copy
<1>2. ASSUME UNCHANGED held PROVE Goal
    BY <1>2, Facts DEF Copy
<1>3. ASSUME GetDone PROVE Goal
    <2>1. CASE Takes(reply.version)
        <3>1. Keep(reply.body, reply.version, 0) /\ reply.version >= Copy.version /\ Copy.pending = 0
            BY <1>3, <2>1 DEF GetDone, Takes
        <3>2. Copy'.version = reply.version
            BY <3>1, Facts, KeepEffect
        <3> QED BY <1>1, <3>1, <3>2
    <2>2. CASE ~Takes(reply.version)
        BY <1>2, <1>3, <2>2 DEF GetDone
    <2> QED BY <2>1, <2>2
<1>4. ASSUME PutStored PROVE Goal
    <2>1. CASE reply.version >= Copy.version
        <3>1. call = "put" /\ Keep(Apply(HeldOr0.body, write), reply.version, 0)
            BY <1>4, <2>1 DEF PutStored
        <3>2. Apply(HeldOr0.body, write) \in Bodies /\ Apply(HeldOr0.body, write).mine = write.n
            BY <3>1, Facts, CopyParts, Applied
        <3>3. Copy'.version = reply.version /\ Copy'.body.mine = puts
            BY <3>1, <3>2, Facts, KeepEffect
        <3> QED BY <1>1, <2>1, <3>3, Facts DEF Numbered
    <2>2. CASE ~(reply.version >= Copy.version)
        BY <1>2, <1>4, <2>2 DEF PutStored
    <2> QED BY <2>1, <2>2
<1>5. ASSUME PutFails PROVE Goal
    <2>1. CASE UNCHANGED held
        BY <1>2, <2>1
    <2>2. CASE Keep(Apply(HeldOr0.body, write), HeldOr0.version + 1, HeldOr0.pending + 1)
        <3>1. call = "put"
            BY <1>5 DEF PutFails
        <3>2. Apply(HeldOr0.body, write) \in Bodies /\ Apply(HeldOr0.body, write).mine = puts
            BY <3>1, Facts, CopyParts, Applied
        <3>3. HeldOr0.version + 1 \in Nat /\ HeldOr0.pending + 1 \in Nat /\ HeldOr0.version = Copy.version
            BY Facts, CopyParts
        <3>4. Copy'.version = HeldOr0.version + 1 /\ Copy'.body.mine = puts
            BY <2>2, <3>2, <3>3, KeepEffect
        <3> QED BY <1>1, <3>3, <3>4, Facts DEF Numbered
    <2> QED BY <1>5, <2>1, <2>2 DEF PutFails
<1>6. ASSUME Settled PROVE Goal
    <2>1. Resent(sendReply)
        BY <1>6 DEF Settled
    <2> QED BY <1>1, <2>1, ResentEffect, Facts
<1>7. GetDone \/ PutStored \/ PutFails \/ Settled \/ UNCHANGED held
    BY DEF Next, CodeStep, Doze, Get, Put, GetFails, PutConflicts, PutRejected, AnswerGet, AnswerPut, Send, Settle,
       AnswerSend, RejectSend, SendFails, Other, vars
<1> QED BY <1>2, <1>3, <1>4, <1>5, <1>6, <1>7

\* In whatever order the answers to get(), put() and the outbox arrive, a copy never goes back to an older version
\* (AgentStates.read, written, later, _resent).
THEOREM CopyMovesOn == Spec => CopyNeverGoesBack
<1>1. IInv /\ [Next]_vars => [HasCopy /\ held' # <<>> => held'[1].version >= Copy.version]_vars
    BY CopySteps
<1> QED BY <1>1, Invariant, PTL DEF Spec, CopyNeverGoesBack

-----------------------------------------------------------------------------
(* The newest write that waits *)

\* The copy counts every write that waits and every callback to come.
Counted == whole /\ Owed > 0 => HasCopy /\ Copy.pending >= Owed

WInv == whole \in BOOLEAN /\ Counted /\ PendingServed

\* The count of what is owed, as a number.
LEMMA OwedParts ==
    ASSUME IInv
    PROVE  /\ Owed \in Nat /\ Owed >= Len(writes) /\ Owed <= Len(writes) + 1
           /\ Len(writes) \in Nat /\ (writes # <<>> <=> Len(writes) > 0)
<1>1. Len(writes) \in Nat /\ writes \in Seq(Write)
    BY Facts DEF BoxTyped
<1>2. writes # <<>> <=> Len(writes) > 0
    BY <1>1, EmptySeq, LenProperties
<1> QED BY <1>1, <1>2 DEF Owed

\* The last write that waits, where the queue is what it was.
LEMMA WholeStill ==
    ASSUME IInv, WInv, UNCHANGED <<held, whole, writes>>, Owed' <= Owed, Owed' \in Nat
    PROVE  WInv'
<1>1. Counted'
    BY OwedParts, Facts DEF WInv, Counted, HasCopy, Copy
<1>2. PendingServed'
    BY DEF WInv, PendingServed, HasCopy, Copy
<1> QED BY <1>1, <1>2 DEF WInv

\* A step that leaves the copy alone, and the outbox but for how its request stands.
LEMMA StillWhole ==
    ASSUME IInv, WInv, [Next]_vars,
           Get \/ Put \/ AnswerGet \/ AnswerPut \/ GetFails \/ PutConflicts \/ PutRejected \/ Other \/ UNCHANGED vars
              \/ Send \/ AnswerSend \/ RejectSend \/ SendFails \/ Doze
    PROVE  WInv'
<1>1. UNCHANGED <<held, whole, writes>>
    BY DEF Get, Put, AnswerGet, AnswerPut, GetFails, PutConflicts, PutRejected, Other, vars, outbox, Send, AnswerSend,
           RejectSend, SendFails, Doze
<1>2. \/ UNCHANGED <<sending, sendStage>>
      \/ sendStage' = "asked" /\ sending' = <<Head(writes)>> /\ writes # <<>>
      \/ sendStage = "asked" /\ sendStage' = "answered" /\ UNCHANGED sending
      \/ sendStage' = "idle"
    BY DEF Get, Put, AnswerGet, AnswerPut, GetFails, PutConflicts, PutRejected, Other, vars, outbox, Send, AnswerSend,
           RejectSend, SendFails, Unsend, Doze
<1>3. Owed' = Owed \/ Owed' = Len(writes)
    <2>1. CASE UNCHANGED <<sending, sendStage>>
        BY <1>1, <2>1 DEF Owed
    <2>2. CASE sendStage' = "asked" /\ sending' = <<Head(writes)>> /\ writes # <<>>
        <3>1. sending'[1] = Head(writes)
            BY <2>2
        <3> QED BY <1>1, <2>2, <3>1, OwedParts DEF Owed
    <2>3. CASE sendStage = "asked" /\ sendStage' = "answered" /\ UNCHANGED sending
        BY <1>1, <2>3 DEF Owed
    <2>4. CASE sendStage' = "idle"
        BY <1>1, <2>4, OwedParts DEF Owed
    <2> QED BY <1>2, <2>1, <2>2, <2>3, <2>4
<1>4. Owed' <= Owed /\ Owed' \in Nat
    BY <1>3, OwedParts
<1> QED BY <1>1, <1>4, WholeStill

\* read() replaces a copy only when nothing is owed.
LEMMA GetDoneWhole ==
    ASSUME IInv, WInv, GetDone
    PROVE  WInv'
<1>1. /\ UNCHANGED <<whole, writes, sending, sendStage>>
      /\ IF Takes(reply.version) THEN Keep(reply.body, reply.version, 0) ELSE UNCHANGED held
    BY DEF GetDone, outbox
<1>2. Owed' = Owed
    BY <1>1 DEF Owed
<1>3. CASE Takes(reply.version)
    <2>1. whole => Owed = 0
        BY <1>3, OwedParts, Facts DEF WInv, Counted, Takes
    <2>2. whole => writes = <<>>
        BY <2>1, OwedParts
    <2>3. Counted'
        BY <1>1, <1>2, <2>1 DEF Counted
    <2>4. PendingServed'
        BY <1>1, <2>2 DEF PendingServed
    <2> QED BY <1>1, <2>3, <2>4 DEF WInv
<1>4. CASE ~Takes(reply.version)
    BY <1>1, <1>2, <1>4, OwedParts, WholeStill
<1> QED BY <1>3, <1>4

\* written() counts nothing any more; the history says whether it mattered.
LEMMA PutStoredWhole ==
    ASSUME IInv, WInv, PutStored
    PROVE  WInv'
<1>1. /\ UNCHANGED <<writes, sending, sendStage>>
      /\ UNCHANGED <<held, whole>> \/ whole' = (whole /\ Owed = 0)
    BY DEF PutStored, outbox
<1>2. Owed' = Owed
    BY <1>1 DEF Owed
<1>3. CASE UNCHANGED <<held, whole>>
    BY <1>1, <1>2, <1>3, OwedParts, WholeStill
<1>4. CASE whole' = (whole /\ Owed = 0)
    <2>1. whole' => Owed = 0
        BY <1>4 DEF WInv
    <2>2. whole' => writes = <<>>
        BY <2>1, OwedParts
    <2>3. Counted'
        BY <1>2, <2>1 DEF Counted
    <2>4. PendingServed'
        BY <1>1, <2>2 DEF PendingServed
    <2> QED BY <1>4, <2>3, <2>4 DEF WInv
<1> QED BY <1>1, <1>3, <1>4

\* The write that put() adds is the last in the queue, and one more is owed at most.
LEMMA EnqueueOwes ==
    ASSUME IInv, NEW w \in Write, Enqueue(w), UNCHANGED <<sending, sendStage>>
    PROVE  Owed' \in Nat /\ Owed' <= Owed + 1 /\ writes' # <<>> /\ writes'[Len(writes')] = w
<1> DEFINE all == Append(writes, w)
<1>1. writes \in Seq(Write) /\ Len(writes) \in Nat /\ Capacity \in Nat \ {0}
    BY Facts, ConstantsAssumption DEF BoxTyped
<1>2. /\ all \in Seq(Write) /\ Len(all) = Len(writes) + 1 /\ all[Len(writes) + 1] = w
      /\ \A i \in 1 .. Len(writes) : all[i] = writes[i]
    BY <1>1, AppendProperties
<1>3. writes' = IF Len(all) > Capacity THEN Tail(all) ELSE all
    BY DEF Enqueue
<1> HIDE DEF all
<1>4. all # <<>>
    BY <1>1, <1>2, EmptySeq
<1>5. CASE Len(all) > Capacity
    <2>1. writes' = Tail(all)
        BY <1>3, <1>5
    <2>2. Len(Tail(all)) = Len(writes) /\ \A i \in 1 .. Len(Tail(all)) : Tail(all)[i] = all[i + 1]
        BY <1>1, <1>2, <1>4, Shorter
    <2>3. Len(writes) >= 1
        BY <1>1, <1>2, <1>5
    <2>4. Tail(all)[Len(writes)] = w
        <3>1. Len(writes) \in 1 .. Len(Tail(all))
            BY <1>1, <2>2, <2>3
        <3> QED BY <1>2, <2>2, <3>1
    <2>5. Tail(all) # <<>>
        BY <2>2, <2>3, EmptySeq
    <2>6. Owed' \in {Len(writes), Len(writes) + 1}
        <3> DEFINE one == IF sendStage' # "idle" /\ (sendStage' = "settled" \/ writes' = <<>> \/ Head(writes') # sending'[1])
                            THEN 1 ELSE 0
        <3>1. Len(writes') = Len(writes) /\ one \in {0, 1}
            BY <2>1, <2>2
        <3>2. Owed' = Len(writes') + one
            BY DEF Owed
        <3> HIDE DEF one
        <3> QED BY <1>1, <3>1, <3>2
    <2> QED BY <1>1, <2>1, <2>2, <2>4, <2>5, <2>6, OwedParts
<1>6. CASE ~(Len(all) > Capacity)
    <2>1. writes' = all
        BY <1>3, <1>6
    <2>2. Owed' \in Nat /\ Owed' <= Owed + 1
        <3>1. CASE sendStage # "idle" /\ (sendStage = "settled" \/ writes = <<>> \/ Head(writes) # sending[1])
            BY <1>1, <1>2, <2>1, <3>1 DEF Owed
        <3>2. CASE sendStage = "idle"
            BY <1>1, <1>2, <2>1, <3>2 DEF Owed
        <3>3. CASE sendStage # "settled" /\ writes # <<>> /\ Head(writes) = sending[1]
            <4>1. Head(writes) = writes[1] /\ Head(all) = all[1] /\ 1 \in 1 .. Len(writes)
                BY <1>1, <1>2, <1>4, <3>3, Shorter
            <4>2. Head(all) = sending[1]
                BY <1>2, <3>3, <4>1
            <4> QED BY <1>1, <1>2, <1>4, <2>1, <3>3, <4>2 DEF Owed
        <3> QED BY <3>1, <3>2, <3>3
    <2> QED BY <1>2, <1>4, <2>1, <2>2
<1> QED BY <1>5, <1>6

LEMMA PutFailsWhole ==
    ASSUME IInv, WInv, PutFails
    PROVE  WInv'
<1>1. UNCHANGED <<whole, sending, sendStage>> /\ call = "put"
    BY DEF PutFails
<1>2. CASE UNCHANGED <<held, writes>>
    <2>1. Owed' = Owed
        BY <1>1, <1>2 DEF Owed
    <2> QED BY <1>1, <1>2, <2>1, OwedParts, WholeStill
<1>3. CASE Keep(Apply(HeldOr0.body, write), HeldOr0.version + 1, HeldOr0.pending + 1) /\ Enqueue(write)
    <2>1. write \in Write
        BY <1>1, Facts
    <2>2. Owed' \in Nat /\ Owed' <= Owed + 1 /\ writes'[Len(writes')] = write
        BY <1>1, <1>3, <2>1, EnqueueOwes
    <2>3. Apply(HeldOr0.body, write) \in Bodies /\ Apply(HeldOr0.body, write).mine = write.n
        BY <2>1, Facts, CopyParts, Applied
    <2>4. HeldOr0.version + 1 \in Nat /\ HeldOr0.pending \in Nat /\ HeldOr0.pending + 1 \in Nat
        BY Facts, CopyParts
    <2>5. HasCopy' /\ Copy'.body.mine = write.n /\ Copy'.pending = HeldOr0.pending + 1
        BY <1>3, <2>3, <2>4, KeepEffect
    <2>6. whole => HeldOr0.pending >= Owed
        <3>1. CASE HasCopy
            BY <3>1, OwedParts, Facts, CopyParts DEF WInv, Counted
        <3>2. CASE ~HasCopy
            BY <2>4, <3>2, OwedParts DEF WInv, Counted
        <3> QED BY <3>1, <3>2
    <2>7. Counted'
        BY <1>1, <2>2, <2>4, <2>5, <2>6, OwedParts DEF Counted
    <2>8. PendingServed'
        BY <2>2, <2>5 DEF PendingServed
    <2> QED BY <1>1, <2>7, <2>8 DEF WInv
<1> QED BY <1>2, <1>3 DEF PutFails

\* The head leaves the queue and is owed still: its callback is to come.
LEMMA SettleWhole ==
    ASSUME IInv, WInv, Settle
    PROVE  WInv'
<1>1. /\ sendStage = "answered" /\ sendStage' = "settled" /\ UNCHANGED <<held, whole, sending>>
      /\ writes' = IF writes # <<>> /\ Head(writes) = sending[1] THEN Tail(writes) ELSE writes
    BY DEF Settle
<1>2. CASE writes # <<>> /\ Head(writes) = sending[1]
    <2>1. writes' = Tail(writes) /\ writes \in Seq(Write)
        BY <1>1, <1>2, Facts DEF BoxTyped
    <2>2. /\ Len(Tail(writes)) = Len(writes) - 1 /\ Len(writes) \in Nat \ {0} /\ Tail(writes) \in Seq(Write)
          /\ \A i \in 1 .. Len(Tail(writes)) : Tail(writes)[i] = writes[i + 1]
        BY <1>2, <2>1, Shorter
    <2>3. Owed' = Owed
        <3>1. Owed' = Len(writes') + 1
            BY <1>1 DEF Owed
        <3>2. Owed = Len(writes) + 0
            BY <1>1, <1>2 DEF Owed
        <3> QED BY <2>1, <2>2, <3>1, <3>2
    <2>4. Counted'
        BY <1>1, <2>3, OwedParts DEF WInv, Counted, HasCopy, Copy
    <2>5. ASSUME writes' # <<>> PROVE writes'[Len(writes')] = writes[Len(writes)]
        <3>1. Len(Tail(writes)) >= 1
            BY <2>1, <2>2, <2>5, EmptySeq
        <3> QED BY <2>1, <2>2, <3>1
    <2>6. PendingServed'
        BY <1>1, <1>2, <2>5 DEF WInv, PendingServed, HasCopy, Copy
    <2> QED BY <1>1, <2>4, <2>6 DEF WInv
<1>3. CASE ~(writes # <<>> /\ Head(writes) = sending[1])
    <2>1. writes' = writes
        BY <1>1, <1>3
    <2>2. Owed' = Owed
        BY <1>1, <1>3, <2>1 DEF Owed
    <2> QED BY <1>1, <2>1, <2>2, OwedParts, WholeStill
<1> QED BY <1>2, <1>3

\* _resent(): one pending write less, or no copy.
LEMMA SettledWhole ==
    ASSUME IInv, WInv, Settled
    PROVE  WInv'
<1>1. /\ sendStage = "settled" /\ sendStage' = "idle" /\ writes' = writes
      /\ whole' = (writes = <<>> \/ (whole /\ sendReply.kind = "stored"))
      /\ sendReply.kind = "stored" => Resent(sendReply)
    BY DEF Settled, Unsend
<1>2. Owed = Len(writes) + 1 /\ Owed' = Len(writes)
    BY <1>1, OwedParts DEF Owed
<1>3. CASE writes = <<>>
    BY <1>1, <1>2, <1>3, OwedParts DEF WInv, Counted, PendingServed
<1>4. CASE writes # <<>>
    <2>1. ASSUME whole' PROVE HasCopy' /\ Copy'.pending >= Owed' /\ Copy'.body = Copy.body /\ HasCopy /\ whole
        <3>1. whole /\ Resent(sendReply)
            BY <1>1, <1>4, <2>1
        <3>2. HasCopy /\ Copy.pending >= Owed
            BY <1>2, <3>1, OwedParts DEF WInv, Counted
        <3>3. HasCopy' /\ Copy'.body = Copy.body /\ Copy'.pending = IF Copy.pending > 0 THEN Copy.pending - 1 ELSE 0
            BY <3>1, <3>2, ResentEffect
        <3> QED BY <1>2, <3>1, <3>2, <3>3, OwedParts, Facts
    <2>2. Counted'
        BY <2>1 DEF Counted
    <2>3. PendingServed'
        BY <1>1, <1>4, <2>1 DEF WInv, PendingServed
    <2>4. whole' \in BOOLEAN
        BY <1>1, <1>4, Zenon DEF WInv
    <2> QED BY <2>2, <2>3, <2>4 DEF WInv
<1> QED BY <1>3, <1>4

LEMMA NextWhole == IInv /\ WInv /\ [Next]_vars => WInv'
<1> SUFFICES ASSUME IInv, WInv, [Next]_vars PROVE WInv'
    OBVIOUS
<1> QED BY StillWhole, GetDoneWhole, PutStoredWhole, PutFailsWhole, SettleWhole, SettledWhole DEF Next, CodeStep

LEMMA WholeInvariant == Spec => []WInv
<1>1. Init => WInv
    BY DEF Init, WInv, Counted, PendingServed, Owed
<1> QED BY <1>1, NextWhole, Invariant, PTL DEF Spec

\* Every state of the copy, the outbox and the calls is well formed.
THEOREM TypeCorrect == Spec => []TypeOK
<1>1. WInv => whole \in BOOLEAN
    BY DEF WInv
<1> QED BY <1>1, Invariant, WholeInvariant, InvTypes, PTL

\* What a get() serves shows the newest write that waits in the outbox, however the answers cross and whether or not
\* the outbox overflows, until an older write is refused or a put() that was stored resets the count
\* (AgentStates.read, later, written, _resent).
THEOREM NewestWriteServed == Spec => []PendingServed
<1>1. WInv => PendingServed
    BY DEF WInv
<1> QED BY <1>1, WholeInvariant, PTL
=============================================================================
