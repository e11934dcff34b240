------------------------------ MODULE Effects ------------------------------
(***************************************************************************)
(* One effect key, asked for and declared by several sessions: check()     *)
(* (coordination/client.py), the declarations the write outbox sends       *)
(* (module Outbox), and Niadra's side of them, as the emulator has it      *)
(* (niadra_mock/coordinate.py). A session acts when it is allowed to and   *)
(* the effect was free, as the documentation of check() tells it, and then *)
(* declares how it went.                                                   *)
(***************************************************************************)
EXTENDS Integers, Sequences, FiniteSets, SequencesExt

CONSTANTS
    Sessions,
    MaxChecks, MaxFaults  \* bounds

ASSUME EffectsAssumption == {MaxChecks, MaxFaults} \subseteq Nat

States == {"free", "reserved", "done", "failed", "unknown_outcome"}
Outcomes == {"done", "failed", "unknown_outcome"}
NoAnswer == [decision |-> "none", effect |-> "none", attempt |-> 0]

VARIABLES
    held,      \* CoordinationStore.effects of the key: state, attempt
    owned,     \* another holder's claim of the subject holds
    step,      \* of each session: "idle", "asking", "answered", "allowed", "acting"
    answer,    \* the answer on its way to it
    attempts,  \* Checked.attempts of the key
    adriftChecks,  \* checks given up on that may still come in
    acts,      \* history: what was done, in order: by which attempt, and how it went
    mine,      \* the act each session is at, or 0
    writes,    \* its outbox: declarations, by the act they are about
    sending,   \* whether the first of them is on the wire
    adrift,    \* declarations given up on that may still come in
    stale,     \* history: a declaration of an attempt came in when another attempt had been reserved
    checks, faults

niadra == <<held, owned>>
session == <<step, answer, attempts, adriftChecks, acts, mine>>
outbox == <<writes, sending, adrift, stale>>
vars == <<niadra, session, outbox, checks, faults>>

Init ==
    /\ held = [state |-> "free", attempt |-> 0] /\ owned = FALSE
    /\ step = [s \in Sessions |-> "idle"] /\ answer = [s \in Sessions |-> NoAnswer]
    /\ attempts = [s \in Sessions |-> 1] /\ adriftChecks = 0
    /\ acts = <<>> /\ mine = [s \in Sessions |-> 0]
    /\ writes = [s \in Sessions |-> <<>>] /\ sending = [s \in Sessions |-> FALSE]
    /\ adrift = {} /\ stale = FALSE /\ checks = 0 /\ faults = 0

-----------------------------------------------------------------------------
(* Niadra *)

\* _decide of an outbound contact: an effect that is done, in flight or of unknown outcome denies, a free one
\* is reserved, and then a claim of another holder defers. A bug: one that failed is given out without a trace
Free == held.state \in {"free", "failed"}
Reserve == held' = [state |-> "reserved", attempt |-> held.attempt + 1]
ReserveNothing == held' = [held EXCEPT !.attempt = @ + 1]

Reserved == Reserve
Decision == IF ~Free THEN "deny" ELSE IF owned THEN "defer" ELSE "allow"

Decided(reply) ==
    /\ IF Free THEN Reserved ELSE UNCHANGED held
    /\ reply = [decision |-> Decision, effect |-> IF Free THEN "none" ELSE held.state,
                attempt |-> IF Free THEN held.attempt + 1 ELSE held.attempt]

\* another agent takes or releases the subject
Own == owned' = ~owned /\ UNCHANGED <<held, session, outbox, checks, faults>>

\* declare(): the state of the key, whatever the attempt
Declared(act) ==
    /\ held' = [held EXCEPT !.state = acts[act].outcome]
    /\ stale' = (stale \/ acts[act].attempt # held.attempt)

-----------------------------------------------------------------------------
(* check() *)

Ask(s) ==
    /\ step[s] = "idle" /\ checks < MaxChecks
    /\ checks' = checks + 1
    /\ step' = [step EXCEPT ![s] = "asking"]
    /\ UNCHANGED <<niadra, answer, attempts, adriftChecks, acts, mine, outbox, faults>>

Decide(s) ==
    /\ step[s] = "asking"
    /\ \E reply \in [decision : {"allow", "defer", "deny"}, effect : States \cup {"none"}, attempt : 0 .. checks] :
        /\ Decided(reply)
        /\ answer' = [answer EXCEPT ![s] = reply]
    /\ step' = [step EXCEPT ![s] = "answered"]
    /\ UNCHANGED <<owned, attempts, adriftChecks, acts, mine, outbox, checks, faults>>

\* decided(): the attempt reserved is remembered; the session acts when it is allowed
Answered(s) ==
    /\ step[s] = "answered"
    /\ attempts' = IF answer[s].effect = "none" THEN [attempts EXCEPT ![s] = answer[s].attempt] ELSE attempts
    /\ step' = [step EXCEPT ![s] = IF answer[s].decision = "allow" /\ answer[s].effect = "none" THEN "allowed" ELSE "idle"]
    /\ answer' = [answer EXCEPT ![s] = NoAnswer]
    /\ UNCHANGED <<niadra, adriftChecks, acts, mine, outbox, checks, faults>>

\* failed(), within the budget no answer: an effect with a key waits
TimesOut(s) ==
    /\ step[s] \in {"asking", "answered"} /\ faults < MaxFaults
    /\ faults' = faults + 1
    /\ step' = [step EXCEPT ![s] = "idle"] /\ answer' = [answer EXCEPT ![s] = NoAnswer]
    /\ adriftChecks' \in {adriftChecks} \cup (IF step[s] = "asking" THEN {adriftChecks + 1} ELSE {})
    /\ UNCHANGED <<niadra, attempts, acts, mine, outbox, checks>>

\* the check of a session that went on reserves for no one
DecideLate ==
    /\ adriftChecks > 0
    /\ adriftChecks' = adriftChecks - 1
    /\ IF Free THEN Reserved ELSE UNCHANGED held
    /\ UNCHANGED <<owned, step, answer, attempts, acts, mine, outbox, checks, faults>>

-----------------------------------------------------------------------------
(* The effect, and declare.effect() *)

Act(s) ==
    /\ step[s] = "allowed"
    /\ step' = [step EXCEPT ![s] = "acting"]
    /\ acts' = Append(acts, [attempt |-> attempts[s], outcome |-> "acting"])
    /\ mine' = [mine EXCEPT ![s] = Len(acts) + 1]
    /\ UNCHANGED <<niadra, answer, attempts, adriftChecks, outbox, checks, faults>>

Declare(s, outcome) ==
    /\ step[s] = "acting"
    /\ acts' = [acts EXCEPT ![mine[s]].outcome = outcome]
    /\ writes' = [writes EXCEPT ![s] = Append(@, mine[s])]
    /\ step' = [step EXCEPT ![s] = "idle"] /\ mine' = [mine EXCEPT ![s] = 0]
    /\ UNCHANGED <<niadra, answer, attempts, adriftChecks, sending, adrift, stale, checks, faults>>

-----------------------------------------------------------------------------
(* The outbox of a session's client: the first write, again and again until it has an answer *)

Send(s) ==
    /\ writes[s] # <<>> /\ ~sending[s]
    /\ sending' = [sending EXCEPT ![s] = TRUE]
    /\ UNCHANGED <<niadra, session, writes, adrift, stale, checks, faults>>

Land(s) ==
    /\ sending[s]
    /\ Declared(Head(writes[s]))
    /\ writes' = [writes EXCEPT ![s] = Tail(@)] /\ sending' = [sending EXCEPT ![s] = FALSE]
    /\ UNCHANGED <<owned, session, adrift, checks, faults>>

\* no answer: it stays at the front, and may come in yet. A bug: it is settled
GiveUpAndDrop(s) ==
    /\ sending[s] /\ faults < MaxFaults
    /\ faults' = faults + 1
    /\ adrift' \in {adrift, adrift \cup {Head(writes[s])}}
    /\ writes' = [writes EXCEPT ![s] = Tail(@)] /\ sending' = [sending EXCEPT ![s] = FALSE]
    /\ UNCHANGED <<niadra, session, stale, checks>>

GiveUp(s) ==
    /\ sending[s] /\ faults < MaxFaults
    /\ faults' = faults + 1
    /\ adrift' \in {adrift, adrift \cup {Head(writes[s])}}
    /\ sending' = [sending EXCEPT ![s] = FALSE]
    /\ UNCHANGED <<niadra, session, writes, stale, checks>>

LandLate ==
    \E act \in adrift :
        /\ Declared(act)
        /\ adrift' = adrift \ {act}
        /\ UNCHANGED <<owned, session, writes, sending, checks, faults>>

-----------------------------------------------------------------------------
Next ==
    \/ Own \/ DecideLate \/ LandLate
    \/ \E s \in Sessions :
        \/ Ask(s) \/ Decide(s) \/ Answered(s) \/ TimesOut(s) \/ Act(s)
        \/ \E outcome \in Outcomes : Declare(s, outcome)
        \/ Send(s) \/ Land(s) \/ GiveUp(s)

Spec == Init /\ [][Next]_vars

-----------------------------------------------------------------------------
(* Properties *)

\* The shapes of the state.
TypeOK ==
    /\ held.state \in States /\ held.attempt \in Nat /\ owned \in BOOLEAN
    /\ \A s \in Sessions :
        /\ step[s] \in {"idle", "asking", "answered", "allowed", "acting"}
        /\ attempts[s] \in Nat /\ mine[s] \in 0 .. Len(acts) /\ (mine[s] # 0 <=> step[s] = "acting")
        /\ writes[s] \in Seq(1 .. Len(acts)) /\ (sending[s] => writes[s] # <<>>)
    /\ \A a \in DOMAIN acts : acts[a].outcome \in Outcomes \cup {"acting"}
    /\ adrift \subseteq 1 .. Len(acts)

\* what went out, or may have
Out == {a \in DOMAIN acts : acts[a].outcome # "failed"}

\* "What may have gone out is never sent again on its own": whichever sessions ask, whatever check or
\* declaration is lost or late, one attempt at most is under way, done or of unknown outcome. No declaration
\* is to come in after the key was reserved anew, which is SentOnce.
NeverSentAgain == ~stale => Cardinality(Out) <= 1

\* Once the outboxes are empty, Niadra knows how the last attempt ended, or reserved the key after it failed.
NiadraKnows ==
    (\A s \in Sessions : writes[s] = <<>> /\ step[s] # "acting") /\ adrift = {} /\ ~stale /\ acts # <<>> =>
        LET last == Last(acts).outcome
        IN  held.state = last \/ (last = "failed" /\ held.state = "reserved")

\* "A write carries its `Idempotency-Key`, so sending it again is harmless" (_outbox.py): no effect goes out
\* twice.
SentOnce == Cardinality(Out) <= 1
=============================================================================
