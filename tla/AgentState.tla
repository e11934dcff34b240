----------------------------- MODULE AgentState -----------------------------
(***************************************************************************)
(* The agent's working state: the copy the client keeps of it and the      *)
(* writes made while Niadra was out of reach (niadra/agent_state.py), the  *)
(* outbox that sends those (niadra/_outbox.py), and the API that stores    *)
(* the state, as the emulator does (niadra_mock/state.py).                 *)
(*                                                                         *)
(* One state of one scope and agent.  Its code reads and writes it from    *)
(* one thread, and owns the field `mine`; a sub-agent elsewhere owns       *)
(* `theirs`.  A value is the number of the write that set it.  The steps   *)
(* of the outbox's thread are Outbox's: here flush() may send at any time, *)
(* and the thread, or task, sends while it is awake.                       *)
(***************************************************************************)
EXTENDS Integers, Sequences, FiniteSets

CONSTANTS
  Modes,       \* the modes put() is called with: "merge_by_key", "cas"
  MaxPuts,     \* bound: calls of put()
  MaxGets,     \* bound: calls of get()
  MaxOthers,   \* bound: writes of the sub-agent
  MaxFaults,   \* bound: requests that fail or are rejected
  Capacity     \* CAPACITY of the outbox

ASSUME ConstantsAssumption ==
  /\ Modes \subseteq {"merge_by_key", "cas"}
  /\ MaxPuts \in Nat /\ MaxGets \in Nat /\ MaxOthers \in Nat /\ MaxFaults \in Nat
  /\ Capacity \in Nat \ {0}

Any == -1     \* no if_version

VARIABLES
  version, body,    \* the state stored by the API
  stored,           \* the writes it applied (history)
  held,             \* AgentStates._held: a sequence of at most one copy
  conflicts,        \* AgentStates.conflicts, by write
  refused,          \* the deferred writes whose refusal was logged (history)
  writes,           \* Outbox._writes
  sending,          \* the write the outbox has in flight: a sequence of at most one
  sendStage, sendReply,   \* where its request stands, and what the API answered it
  sender,           \* the outbox's thread or task: "awake", or "asleep" until a put() wakes it
  whole,            \* the copy has counted every write that waits (history)
  call,             \* what the agent's code is doing: "idle", "get" or "put"
  write,            \* the write of its put()
  stage, reply,     \* where that request stands, and what the API answered it
  seen,             \* what the last get() served, whether degraded, and `acked` then
  acked,            \* the last write a put() saw stored (history)
  puts, gets, others, faults   \* bounded counters

api    == <<version, body, stored>>
outbox == <<writes, refused, sending, sendStage, sendReply, sender>>
code   == <<call, write, stage, reply, seen, acked, puts, gets>>
vars   == <<api, held, whole, conflicts, outbox, code, others, faults>>

Empty   == [mine |-> 0, theirs |-> 0]
NoWrite == [n |-> 0, mode |-> "cas", if |-> Any, theirs |-> 0]
NoReply == [kind |-> "none", version |-> 0, body |-> Empty]

Init ==
  /\ version = 0 /\ body = Empty /\ stored = {}
  /\ held = <<>> /\ conflicts = {} /\ refused = {}
  /\ writes = <<>> /\ sending = <<>> /\ sendStage = "idle" /\ sendReply = NoReply
  /\ sender = "asleep" /\ whole = TRUE
  /\ call = "idle" /\ write = NoWrite /\ stage = "idle" /\ reply = NoReply
  /\ seen = [version |-> 0, body |-> Empty, degraded |-> FALSE, after |-> 0] /\ acked = 0
  /\ puts = 0 /\ gets = 0 /\ others = 0 /\ faults = 0
-----------------------------------------------------------------------------
(* The API. *)

\* A whole new body, or the fields a write names.
Apply(base, w) ==
  IF w.mode = "cas" THEN [mine |-> w.n, theirs |-> w.theirs] ELSE [base EXCEPT !.mine = w.n]

Accepts(w) == w.if = Any \/ w.if = version

Store(w) ==
  IF Accepts(w)
    THEN /\ version' = version + 1 /\ body' = Apply(body, w) /\ stored' = stored \cup {w.n}
    ELSE UNCHANGED api

ReplyTo(w) ==
  [kind |-> IF Accepts(w) THEN "stored" ELSE "conflict", version |-> version + 1, body |-> Empty]

Rejected == [kind |-> "rejected", version |-> 0, body |-> Empty]

\* The sub-agent writes its field.
Other ==
  /\ others < MaxOthers /\ others' = others + 1
  /\ version' = version + 1 /\ body' = [body EXCEPT !.theirs = others + 1]
  /\ UNCHANGED <<stored, held, whole, conflicts, outbox, code, faults>>
-----------------------------------------------------------------------------
(* The copy. *)

Copy       == held[1]
HasCopy    == held # <<>>
\* The writes that wait, and the one that left the queue and whose callback is to come.
Owed ==
  Len(writes) + (IF sendStage # "idle" /\ (sendStage = "settled" \/ writes = <<>> \/ Head(writes) # sending[1])
                   THEN 1 ELSE 0)
HeldOr0    == IF HasCopy THEN Copy ELSE [body |-> Empty, version |-> 0, pending |-> 0]
Keep(b, v, pending) == held' = <<[body |-> b, version |-> v, pending |-> pending]>>

Serve(copy, degraded) ==
  seen' = [version |-> copy.version, body |-> copy.body, degraded |-> degraded, after |-> acked]

\* Mutants: a read replaces a newer copy; a read replaces a copy that waits for its writes.
TakesOlder(v)   == ~HasCopy \/ Copy.pending = 0
TakesPending(v) == ~HasCopy \/ v >= Copy.version

\* read() takes what Niadra answered unless the copy is newer or waits for its own writes.
Takes(v) == ~HasCopy \/ (v >= Copy.version /\ Copy.pending = 0)
-----------------------------------------------------------------------------
(* get() and put(), called by the agent's code. *)

Get ==
  /\ call = "idle" /\ gets < MaxGets /\ gets' = gets + 1
  /\ call' = "get" /\ stage' = "asked"
  /\ UNCHANGED <<api, held, whole, conflicts, outbox, write, reply, seen, acked, puts, others, faults>>

\* A merge names its field, at any version or at the one last read; a compare-and-swap rewrites
\* the whole state last read.
Put ==
  /\ call = "idle" /\ puts < MaxPuts /\ puts' = puts + 1
  /\ \E mode \in Modes :
       \E if \in {seen.version} \cup (IF mode = "cas" THEN {} ELSE {Any}) :
         write' = [n |-> puts + 1, mode |-> mode, if |-> if, theirs |-> seen.body.theirs]
  /\ call' = "put" /\ stage' = "asked"
  /\ UNCHANGED <<api, held, whole, conflicts, outbox, reply, seen, acked, gets, others, faults>>

AnswerGet ==
  /\ call = "get" /\ stage = "asked"
  /\ reply' = [kind |-> "state", version |-> version, body |-> body]
  /\ stage' = "answered"
  /\ UNCHANGED <<api, held, whole, conflicts, outbox, call, write, seen, acked, puts, gets, others, faults>>

AnswerPut ==
  /\ call = "put" /\ stage = "asked"
  /\ Store(write)
  /\ reply' = ReplyTo(write)
  /\ stage' = "answered"
  /\ UNCHANGED <<held, whole, conflicts, outbox, call, write, seen, acked, puts, gets, others, faults>>

Return ==
  /\ call' = "idle" /\ stage' = "idle" /\ reply' = NoReply /\ write' = NoWrite
  /\ UNCHANGED <<puts, gets>>

GetDone ==
  /\ call = "get" /\ stage = "answered"
  /\ IF Takes(reply.version)
       THEN Keep(reply.body, reply.version, 0) /\ Serve(reply, FALSE)
       ELSE Serve(Copy, FALSE) /\ UNCHANGED held
  /\ Return
  /\ UNCHANGED <<api, whole, conflicts, outbox, acked, others, faults>>

\* Niadra did not answer: the copy, or an empty state.
GetFails ==
  /\ call = "get" /\ faults < MaxFaults /\ faults' = faults + 1
  /\ Serve(HeldOr0, TRUE)
  /\ Return
  /\ UNCHANGED <<api, held, whole, conflicts, outbox, acked, others>>

\* written(): a copy that takes the write counts none that waits.
PutStored ==
  /\ call = "put" /\ stage = "answered" /\ reply.kind = "stored"
  /\ IF ~HasCopy \/ reply.version >= Copy.version
       THEN Keep(Apply(HeldOr0.body, write), reply.version, 0) /\ whole' = (whole /\ Owed = 0)
       ELSE UNCHANGED <<held, whole>>
  /\ acked' = write.n
  /\ Return
  /\ UNCHANGED <<api, conflicts, outbox, seen, others, faults>>

\* A conflict is the code's to handle.
PutConflicts ==
  /\ call = "put" /\ stage = "answered" /\ reply.kind = "conflict"
  /\ Return
  /\ UNCHANGED <<api, held, whole, conflicts, outbox, seen, acked, others, faults>>

\* Any other refusal.
PutRejected ==
  /\ call = "put" /\ stage = "asked" /\ faults < MaxFaults /\ faults' = faults + 1
  /\ Return
  /\ UNCHANGED <<api, held, whole, conflicts, outbox, seen, acked, others>>

\* Outbox.put(): past its capacity the oldest write goes, and nobody is told.
Enqueue(w) ==
  LET all == Append(writes, w) IN
  writes' = IF Len(all) > Capacity THEN Tail(all) ELSE all

\* It wakes the thread or task, or starts it; or it does not: after stop(), or when an AsyncOutbox has no
\* running loop (a task that is at work sends this write too).
WakeSender == sender' \in {"awake", IF writes = <<>> THEN "asleep" ELSE sender}

\* later(): no answer to a put(), stored or not.  The write applies to the copy, at the version
\* it guesses, and joins the outbox; a compare-and-swap at another version is a conflict at once.
PutFails ==
  /\ call = "put" /\ faults < MaxFaults /\ faults' = faults + 1
  /\ IF write.mode = "cas" /\ write.if # HeldOr0.version
       THEN UNCHANGED <<held, writes, sender>>
       ELSE /\ Keep(Apply(HeldOr0.body, write), HeldOr0.version + 1, HeldOr0.pending + 1)
            /\ Enqueue(write) /\ WakeSender
  /\ Return
  /\ UNCHANGED <<api, whole, conflicts, refused, sending, sendStage, sendReply, seen, acked, others>>
-----------------------------------------------------------------------------
(* The outbox: one write in flight, the oldest first. *)

Send ==
  /\ sendStage = "idle" /\ writes # <<>>
  /\ sending' = <<Head(writes)>> /\ sendStage' = "asked"
  /\ UNCHANGED <<api, held, whole, conflicts, writes, refused, sendReply, sender, code, others, faults>>

AnswerSend ==
  /\ sendStage = "asked"
  /\ Store(sending[1])
  /\ sendReply' = ReplyTo(sending[1]) /\ sendStage' = "answered"
  /\ UNCHANGED <<held, whole, conflicts, writes, refused, sending, sender, code, others, faults>>

RejectSend ==
  /\ sendStage = "asked" /\ faults < MaxFaults /\ faults' = faults + 1
  /\ sendReply' = Rejected /\ sendStage' = "answered"
  /\ UNCHANGED <<api, held, whole, conflicts, writes, refused, sending, sender, code, others>>

Unsend == sending' = <<>> /\ sendStage' = "idle" /\ sendReply' = NoReply

\* Mutant: a failure takes the write from the queue.
SendFailsAndDrops ==
  /\ sendStage \in {"asked", "answered"} /\ faults < MaxFaults /\ faults' = faults + 1
  /\ writes' = Tail(writes)
  /\ Unsend
  /\ UNCHANGED <<api, held, whole, conflicts, refused, sender, code, others>>

\* A failure that may pass: the write stays at the front.
SendFails ==
  /\ sendStage \in {"asked", "answered"} /\ faults < MaxFaults /\ faults' = faults + 1
  /\ Unsend
  /\ UNCHANGED <<api, held, whole, conflicts, writes, refused, sender, code, others>>

\* Mutant: an acknowledged write still counts as pending.
ResentUncounted(r) ==
  IF HasCopy
    THEN Keep(Copy.body, IF r.version > Copy.version THEN r.version ELSE Copy.version, Copy.pending)
    ELSE UNCHANGED held

\* _resent(): the copy counts one pending write less and never goes back.
Resent(r) ==
  IF HasCopy
    THEN Keep(Copy.body, IF r.version > Copy.version THEN r.version ELSE Copy.version,
              IF Copy.pending > 0 THEN Copy.pending - 1 ELSE 0)
    ELSE UNCHANGED held

\* The outcome leaves the queue, if the write still heads it; a refusal is logged.
Settle ==
  /\ sendStage = "answered" /\ sendStage' = "settled"
  /\ writes' = IF writes # <<>> /\ Head(writes) = sending[1] THEN Tail(writes) ELSE writes
  /\ refused' = IF sendReply.kind = "stored" THEN refused ELSE refused \cup {sending[1].n}
  /\ UNCHANGED <<api, held, whole, conflicts, sending, sendReply, sender, code, others, faults>>

\* The write's callback, once the queue's lock is free again.
Settled ==
  /\ sendStage = "settled"
  /\ IF sendReply.kind = "stored"
       THEN Resent(sendReply) /\ UNCHANGED conflicts
       ELSE /\ held' = <<>>
            /\ conflicts' = conflicts \cup (IF sendReply.kind = "conflict" THEN {sending[1].n} ELSE {})
  /\ Unsend
  /\ whole' = (writes = <<>> \/ (whole /\ sendReply.kind = "stored"))
  /\ UNCHANGED <<api, writes, refused, sender, code, others, faults>>

\* stop() ends the thread; and a flush() that lifts the pause and then fails, or gives up, can leave writes
\* with the thread asleep and no timeout to its sleep (how: Outbox, OutboxStalls.cfg).
Doze ==
  /\ sender = "awake" /\ writes # <<>> /\ sender' = "asleep"
  /\ UNCHANGED <<api, held, whole, conflicts, writes, refused, sending, sendStage, sendReply, code, others, faults>>

CodeStep ==
  \/ Get \/ Put \/ GetDone \/ GetFails
  \/ PutStored \/ PutConflicts \/ PutRejected \/ PutFails

SenderStep == (sender = "awake" /\ Send) \/ Settle \/ Settled

Next ==
  \/ CodeStep \/ AnswerGet \/ AnswerPut
  \/ Send \/ Settle \/ Settled \/ Doze \/ AnswerSend \/ RejectSend \/ SendFails
  \/ Other

Spec == Init /\ [][Next]_vars

\* The outbox's thread sends while it is awake, and what anybody began ends; flush() is called or not.
FairSpec == Spec /\ WF_vars(SenderStep) /\ WF_vars(AnswerSend)
-----------------------------------------------------------------------------
(* Properties. *)

Bodies   == [mine : 0..MaxPuts, theirs : 0..MaxOthers]
Write    == [n : 0..MaxPuts, mode : {"merge_by_key", "cas"}, if : Nat \cup {Any}, theirs : 0..MaxOthers]
Versions == [version : Nat, body : Bodies]
Replies  == [kind : {"none", "state", "stored", "conflict", "rejected"}, version : Nat, body : Bodies]

\* The shape of the state.
TypeOK ==
  /\ version \in Nat /\ body \in Bodies /\ stored \subseteq 1..MaxPuts
  /\ held \in Seq([body : Bodies, version : Nat, pending : Nat]) /\ Len(held) <= 1
  /\ conflicts \subseteq 1..MaxPuts /\ refused \subseteq 1..MaxPuts
  /\ writes \in Seq(Write) /\ Len(writes) <= Capacity
  /\ sending \in Seq(Write) /\ (sendStage = "idle" <=> sending = <<>>)
  /\ sendStage \in {"idle", "asked", "answered", "settled"} /\ sendReply \in Replies
  /\ sender \in {"asleep", "awake"} /\ whole \in BOOLEAN
  /\ call \in {"idle", "get", "put"} /\ write \in Write
  /\ stage \in {"idle", "asked", "answered"} /\ reply \in Replies
  /\ seen.version \in Nat /\ seen.body \in Bodies /\ seen.degraded \in BOOLEAN /\ seen.after \in Nat
  /\ acked \in Nat /\ puts \in Nat /\ gets \in Nat /\ others \in Nat /\ faults \in Nat

\* A write counted as pending waits in the outbox, or its callback is about to run: once the outbox
\* is empty, reads take Niadra's answers again.  It needs an outbox that never overflows.
PendingBacked ==
  HasCopy => Copy.pending <= Len(writes) + (IF sendStage = "settled" THEN 1 ELSE 0)

\* While the client holds a copy, its version never goes back, whatever order the answers to
\* get(), put() and the outbox arrive in ("serves the higher of that and what a read brings").
CopyNeverGoesBack == [][HasCopy /\ held' # <<>> => held'[1].version >= Copy.version]_vars

\* What get() serves shows the newest write that waits in the outbox, whatever the answers to reads and to
\* earlier writes say and in whatever order they come; until an older one is refused, which removes the copy
\* and what it counted (_resent), or a put() that was stored resets `pending` (written).  After either, the
\* count starts again from the writes still to come, until the outbox is empty.
PendingServed == whole /\ writes # <<>> => HasCopy /\ Copy.body.mine = writes[Len(writes)].n

Waits(n) == \E i \in DOMAIN writes : writes[i].n = n

\* A write the outbox holds, and has room for, is stored or its refusal is logged in the end; unless from
\* some time on the sender sleeps, or is stopped, for ever.
EveryWriteSettles ==
  (\A n \in 1..MaxPuts : Waits(n) ~> (n \in stored \cup refused)) \/ <>[](sender # "awake")

\* What the documentation says, and the code does not do.

\* "sending it again is harmless": a write the API applied is never reported as a conflict.
AppliedIsNoConflict == conflicts \cap stored = {}

\* "read your writes": what get() serves, with Niadra answering, has the last write stored.
ReadYourWrites == ~seen.degraded => seen.body.mine >= seen.after

\* "`cas` replaces the whole state at `if_version`", "`conflict` (412: the version moved; read and
\* try again)": with compare-and-swap alone, the sub-agent's field never goes back.
OthersNeverLose == [][body.theirs <= body'.theirs]_vars
=============================================================================
