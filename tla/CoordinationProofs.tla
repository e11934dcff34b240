------------------------- MODULE CoordinationProofs -------------------------
(***************************************************************************)
(* What holds of coordination: of an effect key, for every set of sessions *)
(* and any number of checks and of faults, and of the local copy of the    *)
(* suppression list, for every set of entries and callers, every size of a *)
(* page and any number of changes, of new logs and of reads that fail.     *)
(***************************************************************************)
EXTENDS Effects, Suppressions, SequenceTheorems, FiniteSetTheorems, WellFoundedInduction, TLAPS

(***************************************************************************)
(*                            The effect key                               *)
(***************************************************************************)

Acts == [attempt : Nat, outcome : Outcomes \cup {"acting"}]
Answers == [decision : {"none", "allow", "defer", "deny"}, effect : States \cup {"none"}, attempt : Nat]
Ended == {a \in DOMAIN acts : acts[a].outcome # "acting"}

\* The type invariant with functions in the place of its quantifiers; what is declared has ended.
Typed ==
    /\ held \in [state : States, attempt : Nat] /\ owned \in BOOLEAN
    /\ step \in [Sessions -> {"idle", "asking", "answered", "allowed", "acting"}]
    /\ answer \in [Sessions -> Answers] /\ attempts \in [Sessions -> Nat] /\ adriftChecks \in Nat
    /\ acts \in Seq(Acts) /\ mine \in [Sessions -> 0 .. Len(acts)]
    /\ \A s \in Sessions : mine[s] # 0 <=> step[s] = "acting"
    /\ DOMAIN writes = Sessions /\ \A s \in Sessions : writes[s] \in Seq(Ended)
    /\ sending \in [Sessions -> BOOLEAN] /\ \A s \in Sessions : sending[s] => writes[s] # <<>>
    /\ adrift \subseteq Ended /\ stale \in BOOLEAN /\ checks \in Nat /\ faults \in Nat

-----------------------------------------------------------------------------
(* Type correctness *)

\* The acts are numbered from 1.
LEMMA ActNumbers ==
    ASSUME Typed
    PROVE  /\ Len(acts) \in Nat /\ DOMAIN acts = 1 .. Len(acts)
           /\ \A a \in DOMAIN acts : acts[a] \in Acts
<1>1. acts \in Seq(Acts)
    BY DEF Typed
<1> QED BY <1>1, ElementOfSeq

\* A sequence over a set is one over a larger set.
LEMMA SeqGrows ==
    ASSUME NEW S, NEW T, S \subseteq T, NEW q \in Seq(S)
    PROVE  q \in Seq(T)
<1>1. Len(q) \in Nat /\ q \in [1 .. Len(q) -> S]
    OBVIOUS
<1>2. q \in [1 .. Len(q) -> T]
    BY <1>1
<1> QED BY <1>1, <1>2

\* Before anything is asked the state is well formed.
LEMMA TypedInit == Init => Typed
<1> SUFFICES ASSUME Init PROVE Typed
    OBVIOUS
<1> USE DEF Init
<1>1. acts = <<>> /\ acts \in Seq(Acts) /\ Len(acts) = 0
    OBVIOUS
<1>2. \A s \in Sessions : writes[s] \in Seq(Ended) /\ DOMAIN writes = Sessions
    OBVIOUS
<1>3. answer \in [Sessions -> Answers]
    BY DEF NoAnswer, Answers, States
<1>4. held \in [state : States, attempt : Nat]
    BY DEF States
<1>5. step \in [Sessions -> {"idle", "asking", "answered", "allowed", "acting"}] /\ attempts \in [Sessions -> Nat]
    OBVIOUS
<1>6. mine \in [Sessions -> 0 .. Len(acts)] /\ \A s \in Sessions : mine[s] # 0 <=> step[s] = "acting"
    BY <1>1
<1>7. sending \in [Sessions -> BOOLEAN] /\ \A s \in Sessions : sending[s] => writes[s] # <<>>
    OBVIOUS
<1> QED BY <1>1, <1>2, <1>3, <1>4, <1>5, <1>6, <1>7 DEF Typed

\* A check of Niadra's leaves its key well formed.
LEMMA ReserveTyped ==
    ASSUME held \in [state : States, attempt : Nat], Reserved \/ UNCHANGED held
    PROVE  held' \in [state : States, attempt : Nat]
<1>1. CASE Reserved
    <2>1. held' = [state |-> "reserved", attempt |-> held.attempt + 1] /\ held.attempt + 1 \in Nat
        BY <1>1 DEF Reserved, Reserve
    <2> QED BY <2>1 DEF States
<1>2. CASE UNCHANGED held
    BY <1>2
<1> QED BY <1>1, <1>2

\* A declaration does too, and only what ended is declared.
LEMMA DeclaredTyped ==
    ASSUME Typed, NEW act \in Ended, Declared(act)
    PROVE  held' \in [state : States, attempt : Nat] /\ stale' \in BOOLEAN
<1>1. acts[act].outcome \in Outcomes
    BY ActNumbers DEF Ended, Acts
<1>2. held' = [held EXCEPT !.state = acts[act].outcome] /\ held \in [state : States, attempt : Nat]
    BY DEF Declared, Typed
<1> QED BY <1>1, <1>2 DEF Declared, Outcomes, States, Typed

\* No step leaves the shapes.
LEMMA TypedStep == Typed /\ [Next]_vars => Typed'
<1> SUFFICES ASSUME Typed, [Next]_vars PROVE Typed'
    OBVIOUS
<1>0. /\ Len(acts) \in Nat /\ DOMAIN acts = 1 .. Len(acts) /\ \A a \in DOMAIN acts : acts[a] \in Acts
      /\ acts \in Seq(Acts) /\ checks \in Nat /\ faults \in Nat /\ adriftChecks \in Nat
    BY ActNumbers DEF Typed
<1>1. ASSUME acts' = acts PROVE Ended' = Ended /\ Len(acts') = Len(acts)
    BY <1>1 DEF Ended
<1>2. CASE Own
    BY <1>1, <1>2 DEF Own, session, outbox, Typed
<1>3. CASE DecideLate
    <2>1. held' \in [state : States, attempt : Nat]
        BY <1>3, ReserveTyped DEF DecideLate, Typed
    <2>2. adriftChecks' \in Nat
        BY <1>0, <1>3 DEF DecideLate
    <2> QED BY <1>1, <1>3, <2>1, <2>2 DEF DecideLate, outbox, Typed
<1>4. CASE LandLate
    <2>1. PICK act \in adrift : Declared(act) /\ adrift' = adrift \ {act}
                                /\ UNCHANGED <<owned, session, writes, sending, checks, faults>>
        BY <1>4 DEF LandLate
    <2>2. held' \in [state : States, attempt : Nat] /\ stale' \in BOOLEAN
        BY <2>1, DeclaredTyped DEF Typed
    <2> QED BY <1>1, <2>1, <2>2 DEF session, Typed
<1>5. ASSUME NEW s \in Sessions, Ask(s) PROVE Typed'
    <2>1. step' = [step EXCEPT ![s] = "asking"] /\ step[s] = "idle" /\ checks' \in Nat
        BY <1>0, <1>5 DEF Ask
    <2> QED BY <1>1, <1>5, <2>1 DEF Ask, niadra, outbox, Typed
<1>6. ASSUME NEW s \in Sessions, Decide(s) PROVE Typed'
    <2>1. PICK reply \in [decision : {"allow", "defer", "deny"}, effect : States \cup {"none"}, attempt : 0 .. checks] :
              Decided(reply) /\ answer' = [answer EXCEPT ![s] = reply]
        BY <1>6 DEF Decide
    <2>2. reply \in Answers
        BY <1>0 DEF Answers
    <2>3. answer' \in [Sessions -> Answers]
        <3>1. answer' = [answer EXCEPT ![s] = reply] /\ answer \in [Sessions -> Answers]
            BY <2>1 DEF Typed
        <3> QED BY <2>2, <3>1
    <2>4. held' \in [state : States, attempt : Nat]
        BY <2>1, ReserveTyped DEF Decided, Typed
    <2>5. step' = [step EXCEPT ![s] = "answered"] /\ step[s] = "asking"
        BY <1>6 DEF Decide
    <2> QED BY <1>1, <1>6, <2>3, <2>4, <2>5 DEF Decide, outbox, Typed
<1>7. ASSUME NEW s \in Sessions, Answered(s) PROVE Typed'
    <2>1. answer[s] \in Answers
        BY DEF Typed
    <2>2. attempts' \in [Sessions -> Nat]
        BY <1>7, <2>1 DEF Answered, Answers, Typed
    <2>3. NoAnswer \in Answers
        BY DEF NoAnswer, Answers
    <2>4. PICK next \in {"allowed", "idle"} : step' = [step EXCEPT ![s] = next] /\ step[s] = "answered"
        BY <1>7 DEF Answered
    <2>5. answer' \in [Sessions -> Answers]
        BY <1>7, <2>3 DEF Answered, Typed
    <2> QED BY <1>1, <1>7, <2>2, <2>4, <2>5 DEF Answered, niadra, outbox, Typed
<1>8. ASSUME NEW s \in Sessions, TimesOut(s) PROVE Typed'
    <2>1. NoAnswer \in Answers
        BY DEF NoAnswer, Answers
    <2>2. answer' \in [Sessions -> Answers]
        BY <1>8, <2>1 DEF TimesOut, Typed
    <2>3. adriftChecks' \in Nat /\ faults' \in Nat
        BY <1>0, <1>8 DEF TimesOut
    <2>4. step' = [step EXCEPT ![s] = "idle"] /\ step[s] # "acting"
        BY <1>8 DEF TimesOut
    <2> QED BY <1>1, <1>8, <2>2, <2>3, <2>4 DEF TimesOut, niadra, outbox, Typed
<1>9. ASSUME NEW s \in Sessions, Act(s) PROVE Typed'
    <2>1. acts' = Append(acts, [attempt |-> attempts[s], outcome |-> "acting"])
        BY <1>9 DEF Act
    <2>2. [attempt |-> attempts[s], outcome |-> "acting"] \in Acts
        BY DEF Acts, Typed
    <2>3. acts' \in Seq(Acts) /\ Len(acts') = Len(acts) + 1
        BY <1>0, <2>1, <2>2, AppendProperties
    <2>4. Ended \subseteq Ended'
        BY <1>0, <2>1, <2>2, AppendProperties DEF Ended
    <2>5. DOMAIN writes' = Sessions /\ \A t \in Sessions : writes'[t] \in Seq(Ended')
        BY <1>9, <2>4, SeqGrows DEF Act, outbox, Typed
    <2>6. mine' \in [Sessions -> 0 .. Len(acts')] /\ step' = [step EXCEPT ![s] = "acting"]
          /\ mine' = [mine EXCEPT ![s] = Len(acts) + 1]
        BY <1>0, <1>9, <2>3 DEF Act, Typed
    <2>7. \A t \in Sessions : mine'[t] # 0 <=> step'[t] = "acting"
        BY <1>0, <2>6 DEF Typed
    <2> QED BY <1>9, <2>3, <2>4, <2>5, <2>6, <2>7 DEF Act, niadra, outbox, Typed
<1>10. ASSUME NEW s \in Sessions, NEW outcome \in Outcomes, Declare(s, outcome) PROVE Typed'
    <2>1. mine[s] \in DOMAIN acts /\ acts' = [acts EXCEPT ![mine[s]].outcome = outcome]
        BY <1>0, <1>10 DEF Declare, Typed
    <2>2. acts[mine[s]] \in Acts /\ [acts[mine[s]] EXCEPT !.outcome = outcome] \in Acts
        BY <1>0, <2>1 DEF Acts
    <2>3. acts' = [acts EXCEPT ![mine[s]] = [acts[mine[s]] EXCEPT !.outcome = outcome]]
        BY <2>1
    <2>4. acts' \in Seq(Acts) /\ Len(acts') = Len(acts) /\ DOMAIN acts' = DOMAIN acts
        BY <1>0, <2>1, <2>2, <2>3, ExceptSeq
    <2>5. Ended' = Ended \cup {mine[s]}
        BY <1>0, <2>1, <2>2, <2>3, <2>4 DEF Ended, Outcomes, Acts
    <2>6. DOMAIN writes' = Sessions /\ \A t \in Sessions : writes'[t] \in Seq(Ended')
        <3>1. \A t \in Sessions : writes[t] \in Seq(Ended')
            BY <2>5, SeqGrows DEF Typed
        <3>2. writes' = [writes EXCEPT ![s] = Append(@, mine[s])] /\ DOMAIN writes = Sessions
            BY <1>10 DEF Declare, Typed
        <3> QED BY <2>5, <3>1, <3>2, AppendProperties
    <2>7. \A t \in Sessions : sending'[t] => writes'[t] # <<>>
        <3>1. sending' = sending /\ writes' = [writes EXCEPT ![s] = Append(@, mine[s])]
            BY <1>10 DEF Declare
        <3>2. Append(writes[s], mine[s]) # <<>>
            <4>1. writes[s] \in Seq(Ended') /\ mine[s] \in Ended'
                BY <2>5, SeqGrows DEF Typed
            <4> QED BY <4>1, AppendProperties
        <3> QED BY <3>1, <3>2 DEF Typed
    <2>8. step' = [step EXCEPT ![s] = "idle"] /\ mine' = [mine EXCEPT ![s] = 0]
        BY <1>10 DEF Declare
    <2>9. mine' \in [Sessions -> 0 .. Len(acts')] /\ \A t \in Sessions : mine'[t] # 0 <=> step'[t] = "acting"
        BY <1>0, <2>4, <2>8 DEF Typed
    <2>10. step' \in [Sessions -> {"idle", "asking", "answered", "allowed", "acting"}]
        BY <2>8 DEF Typed
    <2>11. adrift' \subseteq Ended'
        BY <1>10, <2>5 DEF Declare, Typed
    <2>12. /\ held' = held /\ owned' = owned /\ answer' = answer /\ attempts' = attempts
           /\ adriftChecks' = adriftChecks /\ sending' = sending /\ stale' = stale /\ checks' = checks /\ faults' = faults
        BY <1>10 DEF Declare, niadra
    <2> QED BY <2>4, <2>6, <2>7, <2>9, <2>10, <2>11, <2>12 DEF Typed
<1>11. ASSUME NEW s \in Sessions, Send(s) PROVE Typed'
    BY <1>1, <1>11 DEF Send, niadra, session, Typed
<1>12. ASSUME NEW s \in Sessions, Land(s) PROVE Typed'
    <2>1. writes[s] \in Seq(Ended) /\ writes[s] # <<>>
        BY <1>12 DEF Land, Typed
    <2>2. Head(writes[s]) \in Ended /\ Tail(writes[s]) \in Seq(Ended)
        BY <2>1, HeadTailProperties
    <2>3. held' \in [state : States, attempt : Nat] /\ stale' \in BOOLEAN
        BY <1>12, <2>2, DeclaredTyped DEF Land
    <2>4. DOMAIN writes' = Sessions /\ \A t \in Sessions : writes'[t] \in Seq(Ended)
        BY <1>12, <2>2 DEF Land, Typed
    <2>5. sending' \in [Sessions -> BOOLEAN] /\ \A t \in Sessions : sending'[t] => writes'[t] # <<>>
        BY <1>12 DEF Land, Typed
    <2> QED BY <1>1, <1>12, <2>3, <2>4, <2>5 DEF Land, session, Typed
<1>13. ASSUME NEW s \in Sessions, GiveUp(s) PROVE Typed'
    <2>1. writes[s] \in Seq(Ended) /\ writes[s] # <<>>
        BY <1>13 DEF GiveUp, Typed
    <2>2. Head(writes[s]) \in Ended
        BY <2>1, HeadTailProperties
    <2>3. adrift' \subseteq Ended /\ faults' \in Nat
        BY <1>0, <1>13, <2>2 DEF GiveUp, Typed
    <2> QED BY <1>1, <1>13, <2>3 DEF GiveUp, niadra, session, Typed
<1>14. CASE UNCHANGED vars
    BY <1>1, <1>14 DEF vars, niadra, session, outbox, Typed
<1> QED BY <1>2, <1>3, <1>4, <1>5, <1>6, <1>7, <1>8, <1>9, <1>10, <1>11, <1>12, <1>13, <1>14 DEF Next

\* The shapes of the key, the sessions and their outboxes, whatever is lost, late or sent twice.
THEOREM TypeCorrect == Spec => []TypeOK
<1>1. Typed => TypeOK
    <2> SUFFICES ASSUME Typed PROVE TypeOK
        OBVIOUS
    <2>1. Len(acts) \in Nat /\ DOMAIN acts = 1 .. Len(acts) /\ \A a \in DOMAIN acts : acts[a] \in Acts
        BY ActNumbers
    <2>2. \A s \in Sessions : writes[s] \in Seq(1 .. Len(acts))
        <3>1. Ended \subseteq 1 .. Len(acts) /\ \A s \in Sessions : writes[s] \in Seq(Ended)
            BY <2>1 DEF Typed, Ended
        <3> QED BY <3>1, SeqGrows
    <2> QED BY <2>1, <2>2 DEF Typed, TypeOK, Ended, Acts
<1> QED BY <1>1, TypedInit, TypedStep, PTL DEF Spec

-----------------------------------------------------------------------------
(* What went out: each attempt is given to one session at most, and while an attempt is given, acted on or  *)
(* out, it is the one Niadra holds the key for.                                                              *)

Holds(s) ==
    step[s] = "allowed" \/ (step[s] = "answered" /\ answer[s].decision = "allow" /\ answer[s].effect = "none")

Given(s) == IF step[s] = "answered" THEN answer[s].attempt ELSE attempts[s]

Attempts ==
    /\ \A s \in Sessions : Holds(s) => held.state = "reserved" /\ Given(s) = held.attempt
    /\ \A s, t \in Sessions : Holds(s) /\ Holds(t) => s = t
    /\ \A a \in DOMAIN acts : acts[a].attempt <= held.attempt
    /\ \A a, b \in DOMAIN acts : a < b => acts[a].attempt < acts[b].attempt
    /\ \A a \in DOMAIN acts, s \in Sessions : Holds(s) => acts[a].attempt < held.attempt
    /\ \A a \in Out : acts[a].attempt = held.attempt /\ held.state \notin {"free", "failed"}

AttemptsInv == ~stale => Attempts

\* Sessions that hold no more than before keep it, as long as the key and the acts are what they were.
LEMMA FewerHold ==
    ASSUME Typed, Attempts, UNCHANGED <<held, acts>>,
           \A s \in Sessions : Holds(s)' => Holds(s) /\ Given(s)' = Given(s)
    PROVE  Attempts'
BY DEF Attempts, Out

\* A key that is given out anew was nobody's.
LEMMA ReserveAnew ==
    ASSUME Typed, Attempts, Free, Reserved
    PROVE  /\ held'.state = "reserved" /\ held'.attempt = held.attempt + 1 /\ held.attempt \in Nat
           /\ Out = {} /\ \A s \in Sessions : ~Holds(s)
<1>1. held' = [state |-> "reserved", attempt |-> held.attempt + 1]
    BY DEF Reserved, Reserve
<1> QED BY <1>1 DEF Attempts, Free, Typed

\* A declaration that comes in while its attempt is the last one says of that attempt how it went.
LEMMA DeclaredInTime ==
    ASSUME Typed, Attempts, NEW act \in Ended, Declared(act), ~stale'
    PROVE  /\ acts[act].attempt = held.attempt /\ held'.attempt = held.attempt /\ held'.state = acts[act].outcome
           /\ act = Len(acts) /\ Out \subseteq {act} /\ \A s \in Sessions : ~Holds(s)
<1>1. /\ Len(acts) \in Nat /\ DOMAIN acts = 1 .. Len(acts) /\ held.attempt \in Nat /\ act \in 1 .. Len(acts)
      /\ \A a \in DOMAIN acts : acts[a].attempt \in Nat
    BY ActNumbers DEF Acts, Typed, Ended
<1>2. acts[act].attempt = held.attempt
    BY DEF Declared
<1>3. held' = [held EXCEPT !.state = acts[act].outcome] /\ held \in [state : States, attempt : Nat]
    BY DEF Declared, Typed
<1>4. act = Len(acts)
    <2>1. Len(acts) \in DOMAIN acts /\ acts[Len(acts)].attempt <= held.attempt
        BY <1>1 DEF Attempts
    <2>2. act < Len(acts) => acts[act].attempt < acts[Len(acts)].attempt
        BY <1>1, <2>1 DEF Attempts
    <2>3. acts[act].attempt \in Nat /\ acts[Len(acts)].attempt \in Nat
        BY <1>1, <2>1
    <2>4. ~(act < Len(acts))
        BY <1>1, <1>2, <2>1, <2>2, <2>3
    <2>5. act \in 1 .. Len(acts) /\ Len(acts) \in Nat
        BY <1>1
    <2> QED BY <2>4, <2>5
<1>5. Out \subseteq {act}
    <2>1. \A a \in Out : a \in DOMAIN acts /\ acts[a].attempt = held.attempt
        BY DEF Attempts, Out
    <2> QED BY <1>1, <1>2, <2>1 DEF Attempts
<1> QED BY <1>1, <1>2, <1>3, <1>4, <1>5 DEF Attempts

\* It leaves the attempts as they should be.
LEMMA DeclaredKeeps ==
    ASSUME Typed, Attempts, NEW act \in Ended, Declared(act), ~stale', UNCHANGED <<acts, step, answer, attempts>>
    PROVE  Attempts'
<1>1. /\ acts[act].attempt = held.attempt /\ held'.attempt = held.attempt /\ held'.state = acts[act].outcome
      /\ Out \subseteq {act} /\ \A s \in Sessions : ~Holds(s)
    BY DeclaredInTime
<1>2. Out' = Out /\ \A s \in Sessions : ~Holds(s)'
    BY <1>1 DEF Out, Holds
<1>3. act \in Out => acts[act].outcome \in {"done", "unknown_outcome"}
    BY ActNumbers DEF Out, Ended, Acts, Outcomes
<1> QED BY <1>1, <1>2, <1>3 DEF Attempts

\* An act under way is some session's, and of one only.
Acting ==
    /\ \A s \in Sessions : mine[s] # 0 => acts[mine[s]].outcome = "acting"
    /\ \A s, t \in Sessions : mine[s] = mine[t] /\ mine[s] # 0 => s = t

\* No two sessions come to be at one act.
LEMMA ActingStep == Typed /\ Acting /\ [Next]_vars => Acting'
<1> SUFFICES ASSUME Typed, Acting, [Next]_vars PROVE Acting'
    OBVIOUS
<1>0. /\ Len(acts) \in Nat /\ DOMAIN acts = 1 .. Len(acts) /\ acts \in Seq(Acts)
      /\ \A t \in Sessions : mine[t] \in 0 .. Len(acts)
    BY ActNumbers DEF Typed
<1>1. CASE UNCHANGED <<acts, mine>>
    BY <1>1 DEF Acting
<1>2. ASSUME NEW s \in Sessions, Act(s) PROVE Acting'
    <2>1. /\ acts' = Append(acts, [attempt |-> attempts[s], outcome |-> "acting"])
          /\ mine' = [mine EXCEPT ![s] = Len(acts) + 1] /\ [attempt |-> attempts[s], outcome |-> "acting"] \in Acts
        BY <1>2 DEF Act, Typed, Acts
    <2>2. mine'[s] = Len(acts) + 1 /\ \A t \in Sessions \ {s} : mine'[t] = mine[t]
        BY <2>1 DEF Typed
    <2>3. acts'[Len(acts) + 1].outcome = "acting" /\ \A a \in 1 .. Len(acts) : acts'[a] = acts[a]
        BY <1>0, <2>1, AppendProperties
    <2> QED BY <1>0, <2>2, <2>3 DEF Acting
<1>3. ASSUME NEW s \in Sessions, NEW outcome \in Outcomes, Declare(s, outcome) PROVE Acting'
    <2>1. /\ acts' = [acts EXCEPT ![mine[s]].outcome = outcome] /\ mine' = [mine EXCEPT ![s] = 0]
          /\ mine[s] # 0
        BY <1>3 DEF Declare, Typed
    <2>2. mine'[s] = 0 /\ \A t \in Sessions \ {s} : mine'[t] = mine[t] /\ (mine[t] # 0 => mine[t] # mine[s])
        BY <2>1 DEF Acting, Typed
    <2>3. \A a \in 1 .. Len(acts) : a # mine[s] => acts'[a] = acts[a]
        BY <1>0, <2>1
    <2> QED BY <1>0, <2>2, <2>3 DEF Acting
<1> QED BY <1>1, <1>2, <1>3 DEF Next, Own, DecideLate, LandLate, Ask, Decide, Answered, TimesOut, Send, Land, GiveUp,
                                session, vars

\* While no declaration came in too late, no step gives an attempt to two.
LEMMA AttemptsStep == Typed /\ Typed' /\ Acting /\ AttemptsInv /\ [Next]_vars => AttemptsInv'
<1> SUFFICES ASSUME Typed, Typed', Acting, AttemptsInv, [Next]_vars, ~stale' PROVE Attempts'
    BY DEF AttemptsInv
<1>1. ~stale
    BY DEF Next, Own, DecideLate, LandLate, Ask, Decide, Answered, TimesOut, Act, Declare, Send, Land, GiveUp,
           Declared, outbox, vars, Typed
<1>2. Attempts
    BY <1>1 DEF AttemptsInv
<1>0. /\ Len(acts) \in Nat /\ DOMAIN acts = 1 .. Len(acts) /\ held.attempt \in Nat
      /\ \A a \in DOMAIN acts : acts[a] \in Acts /\ acts[a].attempt \in Nat
    BY ActNumbers DEF Acts, Typed
<1>3. CASE Own \/ UNCHANGED vars
    BY <1>2, <1>3, FewerHold DEF Own, session, vars, niadra, Holds, Given
<1>4. CASE DecideLate
    <2>1. CASE Free
        <3>1. Out' = Out /\ \A s \in Sessions : Holds(s)' = Holds(s)
            BY <1>4 DEF DecideLate, Out, Holds
        <3>2. /\ held'.state = "reserved" /\ held'.attempt = held.attempt + 1
              /\ Out = {} /\ \A s \in Sessions : ~Holds(s)
            BY <1>2, <1>4, <2>1, ReserveAnew DEF DecideLate
        <3>3. acts' = acts
            BY <1>4 DEF DecideLate
        <3> QED BY <1>0, <1>2, <3>1, <3>2, <3>3 DEF Attempts
    <2>2. CASE ~Free
        BY <1>2, <1>4, <2>2, FewerHold DEF DecideLate, Holds, Given
    <2> QED BY <2>1, <2>2
<1>5. CASE LandLate
    <2>1. PICK act \in adrift : Declared(act) /\ UNCHANGED session
        BY <1>5 DEF LandLate, session
    <2> QED BY <1>2, <2>1, DeclaredKeeps DEF session, Typed
<1>6. ASSUME NEW s \in Sessions, Ask(s) PROVE Attempts'
    BY <1>2, <1>6, FewerHold DEF Ask, niadra, Holds, Given, Typed
<1>7. ASSUME NEW s \in Sessions, Decide(s) PROVE Attempts'
    <2>1. PICK reply \in [decision : {"allow", "defer", "deny"}, effect : States \cup {"none"}, attempt : 0 .. checks] :
              Decided(reply) /\ answer' = [answer EXCEPT ![s] = reply]
        BY <1>7 DEF Decide
    <2>2. /\ step' = [step EXCEPT ![s] = "answered"] /\ step[s] = "asking" /\ UNCHANGED <<attempts, acts>>
          /\ answer'[s] = reply /\ \A t \in Sessions \ {s} : answer'[t] = answer[t] /\ step'[t] = step[t]
          /\ step'[s] = "answered" /\ Out' = Out
        BY <1>7, <2>1 DEF Decide, Typed, Out
    <2>3. \A t \in Sessions \ {s} : Holds(t)' = Holds(t) /\ Given(t)' = Given(t)
        BY <2>2 DEF Holds, Given
    <2>4. CASE Free
        <3>1. /\ held'.state = "reserved" /\ held'.attempt = held.attempt + 1
              /\ Out = {} /\ \A t \in Sessions : ~Holds(t)
            BY <1>2, <2>1, <2>4, ReserveAnew DEF Decided
        <3>2. Given(s)' = held'.attempt
            BY <2>1, <2>2, <2>4, <3>1 DEF Decided, Given
        <3> QED BY <1>0, <1>2, <2>2, <2>3, <3>1, <3>2 DEF Attempts
    <2>5. CASE ~Free
        <3>1. held' = held /\ reply.effect = held.state /\ held.state \in States
            BY <2>1, <2>5 DEF Decided, Typed
        <3>2. ~Holds(s)'
            BY <2>2, <3>1 DEF Holds, States
        <3> QED BY <1>2, <2>2, <2>3, <3>1, <3>2, FewerHold
    <2> QED BY <2>4, <2>5
<1>8. ASSUME NEW s \in Sessions, Answered(s) PROVE Attempts'
    <2>1. /\ step[s] = "answered" /\ UNCHANGED <<held, acts>>
          /\ \A t \in Sessions \ {s} : answer'[t] = answer[t] /\ step'[t] = step[t] /\ attempts'[t] = attempts[t]
        BY <1>8 DEF Answered, niadra, Typed
    <2>2. Holds(s)' => Holds(s) /\ Given(s)' = Given(s)
        BY <1>8 DEF Answered, Holds, Given, Typed
    <2>3. \A t \in Sessions \ {s} : Holds(t)' = Holds(t) /\ Given(t)' = Given(t)
        BY <2>1 DEF Holds, Given
    <2> QED BY <1>2, <2>1, <2>2, <2>3, FewerHold
<1>9. ASSUME NEW s \in Sessions, TimesOut(s) PROVE Attempts'
    <2>1. /\ UNCHANGED <<held, acts, attempts>> /\ step'[s] = "idle"
          /\ \A t \in Sessions \ {s} : answer'[t] = answer[t] /\ step'[t] = step[t]
        BY <1>9 DEF TimesOut, niadra, Typed
    <2>2. \A t \in Sessions : Holds(t)' => Holds(t) /\ Given(t)' = Given(t)
        BY <2>1 DEF Holds, Given
    <2> QED BY <1>2, <2>1, <2>2, FewerHold
<1>10. ASSUME NEW s \in Sessions, Act(s) PROVE Attempts'
    <2>1. /\ UNCHANGED <<held, answer, attempts>> /\ step[s] = "allowed" /\ step'[s] = "acting"
          /\ \A t \in Sessions \ {s} : step'[t] = step[t]
          /\ acts' = Append(acts, [attempt |-> attempts[s], outcome |-> "acting"])
        BY <1>10 DEF Act, niadra, Typed
    <2>2. Holds(s) /\ Given(s) = attempts[s]
        BY <2>1 DEF Holds, Given
    <2>3. held.state = "reserved" /\ attempts[s] = held.attempt /\ \A a \in DOMAIN acts : acts[a].attempt < held.attempt
        BY <1>2, <2>2 DEF Attempts
    <2>4. \A t \in Sessions : ~Holds(t)'
        <3>1. \A t \in Sessions \ {s} : ~Holds(t)
            BY <1>2, <2>2 DEF Attempts
        <3> QED BY <2>1, <3>1 DEF Holds
    <2>5. /\ DOMAIN acts' = 1 .. Len(acts) + 1 /\ \A a \in DOMAIN acts : acts'[a] = acts[a]
          /\ acts'[Len(acts) + 1] = [attempt |-> attempts[s], outcome |-> "acting"]
        <3>1. acts \in Seq(Acts) /\ [attempt |-> attempts[s], outcome |-> "acting"] \in Acts
            BY DEF Acts, Typed
        <3> QED BY <1>0, <2>1, <3>1, AppendProperties
    <2>6. Out = {}
        BY <1>0, <1>2, <2>3 DEF Attempts, Out
    <2>7. Out' \subseteq {Len(acts) + 1}
        BY <1>0, <2>5, <2>6 DEF Out
    <2> QED BY <1>0, <2>1, <2>3, <2>4, <2>5, <2>7, <1>2 DEF Attempts
<1>11. ASSUME NEW s \in Sessions, NEW outcome \in Outcomes, Declare(s, outcome) PROVE Attempts'
    <2>1. mine[s] \in DOMAIN acts /\ acts' = [acts EXCEPT ![mine[s]].outcome = outcome] /\ held' = held
        BY <1>0, <1>11 DEF Declare, niadra, Typed
    <2>2. DOMAIN acts' = DOMAIN acts /\ \A a \in DOMAIN acts : acts'[a].attempt = acts[a].attempt
        BY <1>0, <2>1 DEF Acts
    <2>3. acts[mine[s]].outcome = "acting"
        BY <1>11 DEF Declare, Acting, Typed
    <2>4. Out' \subseteq Out
        BY <1>0, <2>1, <2>2, <2>3 DEF Out, Acts
    <2>5. \A t \in Sessions : Holds(t)' => Holds(t) /\ Given(t)' = Given(t)
        BY <1>11 DEF Declare, Holds, Given, Typed
    <2> QED BY <1>2, <2>1, <2>2, <2>4, <2>5 DEF Attempts
<1>12. ASSUME NEW s \in Sessions, Send(s) \/ GiveUp(s) PROVE Attempts'
    BY <1>2, <1>12, FewerHold DEF Send, GiveUp, niadra, session, Holds, Given
<1>13. ASSUME NEW s \in Sessions, Land(s) PROVE Attempts'
    <2>1. Head(writes[s]) \in Ended
        BY <1>13, HeadTailProperties DEF Land, Typed
    <2>2. Declared(Head(writes[s])) /\ UNCHANGED session
        BY <1>13 DEF Land
    <2> QED BY <1>2, <2>1, <2>2, DeclaredKeeps DEF session
<1> QED BY <1>3, <1>4, <1>5, <1>6, <1>7, <1>8, <1>9, <1>10, <1>11, <1>12, <1>13 DEF Next

\* A set without two different members has one at most.
LEMMA AtMostOne == ASSUME NEW S, \A x, y \in S : x = y PROVE Cardinality(S) <= 1
<1>1. CASE S = {}
    BY <1>1, FS_EmptySet
<1>2. CASE S # {}
    <2>1. PICK x \in S : S = {x}
        BY <1>2
    <2> QED BY <2>1, FS_Singleton
<1> QED BY <1>1, <1>2

\* Before anything is asked no attempt is anyone's.
LEMMA AttemptsInit == Init => Acting /\ AttemptsInv
BY DEF Init, Acting, AttemptsInv, Attempts, Holds, Out, NoAnswer

\* What may have gone out goes out once, whatever is asked, lost and late, for any number of sessions.
THEOREM NothingTwice == Spec => []NeverSentAgain
<1>1. Typed /\ AttemptsInv => NeverSentAgain
    <2> SUFFICES ASSUME Typed, Attempts PROVE Cardinality(Out) <= 1
        BY DEF AttemptsInv, NeverSentAgain
    <2>1. \A a \in DOMAIN acts : a \in 1 .. Len(acts) /\ acts[a].attempt \in Nat
        BY ActNumbers DEF Acts
    <2>2. \A a, b \in Out : a = b
        BY <2>1 DEF Attempts, Out
    <2> QED BY <2>2, AtMostOne
<1> QED BY <1>1, TypedInit, TypedStep, AttemptsInit, ActingStep, AttemptsStep, PTL DEF Spec

-----------------------------------------------------------------------------
(* What Niadra knows: how the last act went is on its way, or was said, and then at most a new attempt was  *)
(* given out after a failure.                                                                                *)

Coming(a) == \E s \in Sessions : mine[s] = a \/ \E i \in 1 .. Len(writes[s]) : writes[s][i] = a
Said(a) == held.state = acts[a].outcome \/ (acts[a].outcome = "failed" /\ held.state = "reserved")
KnownInv == ~stale /\ acts # <<>> => Coming(Len(acts)) \/ Said(Len(acts))

\* A check of a free key keeps what was said of the last act.
LEMMA CheckKeeps ==
    ASSUME Typed, KnownInv, UNCHANGED <<acts, mine, writes, stale>>, (Free /\ Reserved) \/ UNCHANGED held
    PROVE  KnownInv'
<1>1. CASE UNCHANGED held
    BY <1>1 DEF KnownInv, Coming, Said
<1>2. CASE Free /\ Reserved
    <2>1. acts # <<>> => acts[Len(acts)].outcome \in Outcomes \cup {"acting"}
        BY ActNumbers DEF Acts
    <2>2. held'.state = "reserved" /\ held.state \in {"free", "failed"}
        BY <1>2 DEF Free, Reserved, Reserve
    <2> QED BY <2>1, <2>2 DEF KnownInv, Coming, Said, Outcomes
<1> QED BY <1>1, <1>2

\* A step that moves the last act on tells Niadra of it, or leaves the telling to an outbox.
LEMMA KnownStep == Typed /\ Typed' /\ Acting /\ AttemptsInv /\ KnownInv /\ [Next]_vars => KnownInv'
<1> SUFFICES ASSUME Typed, Typed', Acting, AttemptsInv, KnownInv, [Next]_vars, ~stale' PROVE KnownInv'
    BY DEF KnownInv
<1>1. ~stale
    BY DEF Next, Own, DecideLate, LandLate, Ask, Decide, Answered, TimesOut, Act, Declare, Send, Land, GiveUp,
           Declared, outbox, vars, Typed
<1>2. Attempts
    BY <1>1 DEF AttemptsInv
<1>0. Len(acts) \in Nat /\ DOMAIN acts = 1 .. Len(acts) /\ acts \in Seq(Acts) /\ (acts # <<>> => Len(acts) > 0)
    BY ActNumbers, EmptySeq DEF Typed
<1>3. CASE Own \/ UNCHANGED vars \/ DecideLate
    BY <1>3, CheckKeeps DEF Own, session, vars, niadra, outbox, DecideLate
<1>4. CASE LandLate
    <2>1. PICK act \in adrift : Declared(act) /\ UNCHANGED <<acts, mine, writes>>
        BY <1>4 DEF LandLate, session
    <2>2. held'.state = acts[act].outcome /\ act = Len(acts)
        BY <1>2, <2>1, DeclaredInTime DEF Typed
    <2> QED BY <2>1, <2>2 DEF KnownInv, Said
<1>5. ASSUME NEW s \in Sessions, Ask(s) \/ Answered(s) \/ TimesOut(s) \/ Send(s) \/ GiveUp(s) PROVE KnownInv'
    BY <1>5, CheckKeeps DEF Ask, Answered, TimesOut, Send, GiveUp, niadra, outbox, session
<1>6. ASSUME NEW s \in Sessions, Decide(s) PROVE KnownInv'
    <2>1. (Free /\ Reserved) \/ UNCHANGED held
        BY <1>6 DEF Decide, Decided
    <2> QED BY <1>6, <2>1, CheckKeeps DEF Decide, outbox
<1>7. ASSUME NEW s \in Sessions, Act(s) PROVE KnownInv'
    <2>1. Len(acts') = Len(acts) + 1
        <3>1. acts' = Append(acts, [attempt |-> attempts[s], outcome |-> "acting"])
              /\ [attempt |-> attempts[s], outcome |-> "acting"] \in Acts
            BY <1>7 DEF Act, Typed, Acts
        <3> QED BY <1>0, <3>1, AppendProperties
    <2>2. mine'[s] = Len(acts')
        BY <1>7, <2>1 DEF Act, Typed
    <2> QED BY <2>2 DEF KnownInv, Coming
<1>8. ASSUME NEW s \in Sessions, NEW outcome \in Outcomes, Declare(s, outcome) PROVE KnownInv'
    <2>1. /\ mine[s] \in 1 .. Len(acts) /\ acts' = [acts EXCEPT ![mine[s]].outcome = outcome] /\ held' = held
          /\ mine' = [mine EXCEPT ![s] = 0] /\ writes' = [writes EXCEPT ![s] = Append(@, mine[s])]
          /\ stale' = stale
        BY <1>8 DEF Declare, niadra, Typed
    <2>2. Len(acts') = Len(acts) /\ \A a \in 1 .. Len(acts) : a # mine[s] => acts'[a] = acts[a]
        BY <1>0, <2>1
    <2>3. /\ writes'[s] = Append(writes[s], mine[s]) /\ Len(writes'[s]) = Len(writes[s]) + 1
          /\ writes'[s][Len(writes[s]) + 1] = mine[s] /\ Len(writes[s]) \in Nat
          /\ \A i \in 1 .. Len(writes[s]) : writes'[s][i] = writes[s][i]
        <3>1. writes[s] \in Seq(Nat) /\ mine[s] \in Nat
            <4>1. Ended \subseteq Nat /\ writes[s] \in Seq(Ended)
                BY <1>0 DEF Ended, Typed
            <4> QED BY <2>1, <4>1, SeqGrows
        <3>2. writes'[s] = Append(writes[s], mine[s])
            BY <2>1 DEF Typed
        <3> QED BY <3>1, <3>2, AppendProperties
    <2>4. \A t \in Sessions \ {s} : mine'[t] = mine[t] /\ writes'[t] = writes[t]
        BY <2>1 DEF Typed
    <2>5. \A a : Coming(a) => Coming(a)'
        <3> SUFFICES ASSUME NEW a, Coming(a) PROVE Coming(a)'
            OBVIOUS
        <3>1. PICK t \in Sessions : mine[t] = a \/ \E i \in 1 .. Len(writes[t]) : writes[t][i] = a
            BY DEF Coming
        <3>2. CASE t # s
            BY <2>4, <3>1, <3>2 DEF Coming
        <3>3. CASE t = s
            BY <2>3, <3>1, <3>3 DEF Coming
        <3> QED BY <3>2, <3>3
    <2>6. writes'[s][Len(writes[s]) + 1] = mine[s] /\ Len(writes[s]) + 1 \in 1 .. Len(writes'[s])
        BY <2>3
    <2>7. CASE mine[s] = Len(acts)
        <3>1. writes'[s][Len(writes[s]) + 1] = Len(acts')
            BY <2>2, <2>6, <2>7
        <3> QED BY <2>6, <3>1 DEF KnownInv, Coming
    <2>8. CASE mine[s] # Len(acts)
        <3>1. acts # <<>> /\ acts'[Len(acts')] = acts[Len(acts)]
            BY <1>0, <2>1, <2>2, <2>8
        <3> QED BY <1>1, <2>1, <2>2, <2>5, <3>1 DEF KnownInv, Said
    <2> QED BY <2>7, <2>8
<1>9. ASSUME NEW s \in Sessions, Land(s) PROVE KnownInv'
    <2>1. writes[s] \in Seq(Ended) /\ writes[s] # <<>>
        BY <1>9 DEF Land, Typed
    <2>2. Head(writes[s]) \in Ended
        BY <2>1, HeadTailProperties
    <2>3. Declared(Head(writes[s])) /\ UNCHANGED <<acts, mine>>
        BY <1>9 DEF Land, session
    <2>4. held'.state = acts[Head(writes[s])].outcome /\ Head(writes[s]) = Len(acts)
        BY <1>2, <2>2, <2>3, DeclaredInTime
    <2> QED BY <2>3, <2>4 DEF KnownInv, Said
<1> QED BY <1>3, <1>4, <1>5, <1>6, <1>7, <1>8, <1>9 DEF Next

\* Once all outboxes are empty Niadra knows how the last act went, for any number of sessions.
THEOREM WhatNiadraKnows == Spec => []NiadraKnows
<1>1. Init => KnownInv
    BY DEF Init, KnownInv
<1>2. Typed /\ KnownInv => NiadraKnows
    <2> SUFFICES ASSUME Typed, KnownInv, \A s \in Sessions : writes[s] = <<>> /\ step[s] # "acting", ~stale, acts # <<>>
                 PROVE  held.state = Last(acts).outcome \/ (Last(acts).outcome = "failed" /\ held.state = "reserved")
        BY DEF NiadraKnows
    <2>1. \A s \in Sessions : mine[s] = 0 /\ Len(writes[s]) = 0
        BY DEF Typed
    <2>2. Len(acts) \in Nat \ {0} /\ Last(acts) = acts[Len(acts)]
        BY ActNumbers, EmptySeq DEF Last, Typed
    <2>3. ~Coming(Len(acts))
        BY <2>1, <2>2 DEF Coming
    <2> QED BY <2>2, <2>3 DEF KnownInv, Said
<1> QED BY <1>1, <1>2, TypedInit, TypedStep, AttemptsInit, ActingStep, AttemptsStep, KnownStep, PTL DEF Spec
-----------------------------------------------------------------------------
(***************************************************************************)
(*               The local copy of the suppression list                    *)
(***************************************************************************)

(* The last change of an entry. *)

Changed == [entry : Entries, removed : BOOLEAN]

\* A set of numbers up to a bound has a greatest.
LEMMA MaxOf ==
    ASSUME NEW n \in Nat, NEW S \in SUBSET (0 .. n), S # {}
    PROVE  Max(S) \in S /\ \A y \in S : y <= Max(S)
<1> DEFINE T == {n - y : y \in S}
<1>1. T \in SUBSET Nat /\ T # {}
    <2>1. \A y \in S : n - y \in Nat
        OBVIOUS
    <2> QED BY <2>1
<1>2. PICK x \in T : \A y \in T : ~ (<<y, x>> \in OpToRel(<, Nat))
    <2> HIDE DEF T
    <2> QED BY <1>1, NatLessThanWellFounded, WFMin
<1>3. PICK z \in S : x = n - z
    BY <1>2
<1>4. \A y \in S : y <= z
    <2> SUFFICES ASSUME NEW y \in S PROVE y <= z
        OBVIOUS
    <2>1. n - y \in T /\ n - y \in Nat /\ x \in Nat
        BY <1>1
    <2>2. ~(n - y < x)
        BY <1>2, <2>1 DEF OpToRel
    <2> QED BY <1>3, <2>1, <2>2
<1>5. \A y \in S : z >= y
    BY <1>4
<1> QED BY <1>3, <1>4, <1>5 DEF Max

\* What LastOf finds.
LEMMA LastFound ==
    ASSUME NEW q \in Seq(Changed), NEW e
    PROVE  /\ LastOf(q, e) \in 0 .. Len(q)
           /\ LastOf(q, e) # 0 => q[LastOf(q, e)].entry = e
           /\ \A i \in 1 .. Len(q) : q[i].entry = e => i <= LastOf(q, e)
<1> DEFINE S == {i \in DOMAIN q : q[i].entry = e} \cup {0}
<1>1. Len(q) \in Nat /\ DOMAIN q = 1 .. Len(q)
    BY LenProperties
<1>2. S \in SUBSET (0 .. Len(q)) /\ S # {}
    BY <1>1
<1>3. LastOf(q, e) = Max(S)
    BY DEF LastOf
<1>4. Max(S) \in S /\ \A y \in S : y <= Max(S)
    <2> HIDE DEF S
    <2> QED BY <1>1, <1>2, MaxOf
<1> QED BY <1>1, <1>2, <1>3, <1>4

\* And that it is the only such.
LEMMA LastIs ==
    ASSUME NEW q \in Seq(Changed), NEW e, NEW i \in 0 .. Len(q),
           i # 0 => q[i].entry = e,
           \A j \in 1 .. Len(q) : q[j].entry = e => j <= i
    PROVE  LastOf(q, e) = i
<1>1. /\ LastOf(q, e) \in 0 .. Len(q) /\ Len(q) \in Nat
      /\ LastOf(q, e) # 0 => q[LastOf(q, e)].entry = e
      /\ \A j \in 1 .. Len(q) : q[j].entry = e => j <= LastOf(q, e)
    BY LastFound, LenProperties
<1> QED BY <1>1

\* What the changes of a log make of an entry.
Made(q, e) == IF LastOf(q, e) = 0 \/ q[LastOf(q, e)].removed THEN 0 ELSE salt

\* A part of a log.
LEMMA Slice ==
    ASSUME NEW q \in Seq(Changed), NEW m \in 0 .. Len(q), NEW k \in 0 .. m
    PROVE  /\ SubSeq(q, k + 1, m) \in Seq(Changed) /\ Len(SubSeq(q, k + 1, m)) = m - k
           /\ \A j \in 1 .. m - k : SubSeq(q, k + 1, m)[j] = q[k + j]
<1>1. Len(q) \in Nat /\ m \in Nat /\ k \in Nat /\ k <= m /\ m <= Len(q)
    BY LenProperties
<1> QED BY <1>1, SubSeqProperties, SMTT(30)

\* The first m changes of a log are its first k and a page with the others.
LEMMA PageAdds ==
    ASSUME NEW q \in Seq(Changed), NEW m \in 0 .. Len(q), NEW k \in 0 .. m, NEW e
    PROVE  LET page == SubSeq(q, k + 1, m)
               i == LastOf(page, e)
           IN  /\ page \in Seq(Changed) /\ Len(page) = m - k
               /\ Made(SubSeq(q, 1, m), e) = IF i = 0 THEN Made(SubSeq(q, 1, k), e)
                                             ELSE IF page[i].removed THEN 0 ELSE salt
<1> DEFINE page == SubSeq(q, k + 1, m)
           i == LastOf(page, e)
           old == SubSeq(q, 1, k)
           all == SubSeq(q, 1, m)
<1>0. Len(q) \in Nat /\ m \in Nat /\ k \in Nat /\ k <= m /\ m <= Len(q)
    BY LenProperties
<1>1. /\ page \in Seq(Changed) /\ Len(page) = m - k /\ \A j \in 1 .. m - k : page[j] = q[k + j]
    BY Slice
<1>2. old \in Seq(Changed) /\ Len(old) = k /\ \A j \in 1 .. k : old[j] = q[j]
    BY <1>0, SubSeqProperties
<1>3. all \in Seq(Changed) /\ Len(all) = m /\ \A j \in 1 .. m : all[j] = q[j]
    BY <1>0, SubSeqProperties
<1> HIDE DEF page, old, all
<1>4. /\ i \in 0 .. m - k /\ (i # 0 => page[i].entry = e)
      /\ \A j \in 1 .. m - k : page[j].entry = e => j <= i
    BY <1>1, LastFound
<1>5. CASE i = 0
    <2> DEFINE l == LastOf(old, e)
    <2>1. l \in 0 .. k /\ (l # 0 => old[l].entry = e) /\ \A j \in 1 .. k : old[j].entry = e => j <= l
        BY <1>2, LastFound
    <2> HIDE DEF l, i
    <2>2. \A j \in 1 .. m : all[j].entry = e => j <= l
        <3> SUFFICES ASSUME NEW j \in 1 .. m, all[j].entry = e PROVE j <= l
            OBVIOUS
        <3>1. CASE j <= k
            BY <1>0, <1>2, <1>3, <2>1, <3>1
        <3>2. CASE j > k
            <4>1. j - k \in 1 .. m - k /\ page[j - k] = q[k + (j - k)] /\ k + (j - k) = j
                BY <1>0, <1>1, <3>2
            <4> QED BY <1>0, <1>3, <1>4, <1>5, <4>1
        <3> QED BY <1>0, <3>1, <3>2
    <2>3. l \in 0 .. Len(all) /\ (l # 0 => all[l].entry = e) /\ (l # 0 => all[l] = old[l])
        BY <1>0, <1>2, <1>3, <2>1
    <2>4. LastOf(all, e) = l
        BY <1>3, <2>2, <2>3, LastIs
    <2>5. Made(all, e) = Made(old, e)
        BY <2>3, <2>4 DEF Made, l
    <2> QED BY <1>1, <1>5, <2>5 DEF page, old, all, i
<1>6. CASE i # 0
    <2> HIDE DEF i
    <2>1. k + i \in 1 .. m /\ all[k + i] = page[i]
        <3>1. i \in 1 .. m - k /\ k + i \in 1 .. m
            BY <1>0, <1>4, <1>6
        <3> QED BY <1>1, <1>3, <3>1
    <2>2. \A j \in 1 .. m : all[j].entry = e => j <= k + i
        <3> SUFFICES ASSUME NEW j \in 1 .. m, all[j].entry = e, j > k PROVE j <= k + i
            BY <1>0, <1>4
        <3>1. j - k \in 1 .. m - k /\ page[j - k] = q[k + (j - k)] /\ k + (j - k) = j
            BY <1>0, <1>1
        <3>2. j - k <= i
            BY <1>3, <1>4, <3>1
        <3> QED BY <1>0, <1>4, <3>2
    <2>3. LastOf(all, e) = k + i
        <3>1. k + i \in 0 .. Len(all) /\ all[k + i].entry = e
            BY <1>0, <1>3, <1>4, <1>6, <2>1
        <3>2. \A j \in 1 .. Len(all) : all[j].entry = e => j <= k + i
            BY <1>3, <2>2
        <3> QED BY <1>3, <3>1, <3>2, LastIs
    <2>4. Made(all, e) = IF page[i].removed THEN 0 ELSE salt
        BY <1>0, <1>4, <1>6, <2>1, <2>3 DEF Made
    <2> QED BY <1>1, <1>6, <2>4 DEF page, old, all, i
<1> QED BY <1>5, <1>6

\* A log that grew has the same first changes.
LEMMA PrefixStays ==
    ASSUME NEW q \in Seq(Changed), NEW x \in Changed, NEW k \in 0 .. Len(q)
    PROVE  SubSeq(Append(q, x), 1, k) = SubSeq(q, 1, k)
<1>1. Len(q) \in Nat /\ Append(q, x) \in Seq(Changed) /\ Len(Append(q, x)) = Len(q) + 1
      /\ \A i \in 1 .. Len(q) : Append(q, x)[i] = q[i]
    BY AppendProperties, LenProperties
<1>2. \A i \in 1 .. k : Append(q, x)[i] = q[i]
    BY <1>1
<1> QED BY <1>1, <1>2

-----------------------------------------------------------------------------
(* Type correctness of the copy and its readers *)

Readers == [who : Callers \cup {Later, "nobody"}, left : 0 .. Max({MaxPages, FirstRounds})]
Checks == [step : {"idle", "first", "waiting", "after", "answering"}, about : Entries \cup {Idle.about},
           answer : {"none", "go", "wait"}]

ListShape == listed \in BOOLEAN /\ log \in Seq(Changed) /\ logs \in Nat \ {0} /\ salt \in 1 .. logs

\* A copy is of one salt, and holds nothing without one.
CopyShape ==
    /\ known \in 0 .. salt /\ copy \in [Entries -> {0, known}]
    /\ cursor \in [log : 0 .. logs, at : Nat] /\ (cursor # NoCursor => known # 0)
    /\ readAt \in {"never", "fresh", "old"} /\ absent \in BOOLEAN

ReadShape == reader \in Readers /\ check \in [Callers -> Checks]

SureShape ==
    /\ sure \in SUBSET Entries /\ sureLog \in 1 .. logs
    /\ gone \in Nat

\* The type invariant, with the answers and the history.
ListTyped == ListShape /\ CopyShape /\ ReadShape /\ SureShape

LEMMA RoundsBound ==
    /\ 0 \in 0 .. Max({MaxPages, FirstRounds}) /\ MaxPages \in 0 .. Max({MaxPages, FirstRounds})
    /\ FirstRounds \in 0 .. Max({MaxPages, FirstRounds}) /\ Max({MaxPages, FirstRounds}) \in Nat
<1> DEFINE S == {MaxPages, FirstRounds}
<1>1. MaxPages \in Nat /\ FirstRounds \in Nat
    BY SuppressionsAssumption
<1>2. PICK n \in Nat : MaxPages <= n /\ FirstRounds <= n
    BY <1>1
<1>3. S \in SUBSET (0 .. n) /\ S # {}
    BY <1>1, <1>2
<1>4. Max(S) \in S /\ \A y \in S : y <= Max(S)
    <2> HIDE DEF S
    <2> QED BY <1>3, MaxOf
<1> QED BY <1>1, <1>4

\* One round trip more or the end of a read.
LEMMA GoonShape ==
    ASSUME ReadShape, NEW more, Goon(more)
    PROVE  ReadShape'
<1>1. Max({MaxPages, FirstRounds}) \in Nat
    BY RoundsBound
<1>2. reader' \in Readers
    <2>1. CASE reader.left > 1 /\ reader' = [reader EXCEPT !.left = @ - 1]
        BY <1>1, <2>1 DEF ReadShape, Readers
    <2>2. CASE reader' = NoReader
        BY <2>2, RoundsBound DEF Readers, NoReader
    <2> QED BY <2>1, <2>2 DEF Goon
<1>3. check' \in [Callers -> Checks]
    <2>1. \A c \in Callers : [check[c] EXCEPT !.step = "after"] \in Checks /\ check[c] \in Checks
        BY DEF ReadShape, Checks
    <2>2. CASE UNCHANGED check
        BY <2>2 DEF ReadShape
    <2>3. CASE check' = [c \in Callers |-> IF c = reader.who THEN [check[c] EXCEPT !.step = "after"] ELSE check[c]]
        BY <2>1, <2>3
    <2> QED BY <2>2, <2>3 DEF Goon
<1> QED BY <1>2, <1>3 DEF ReadShape

LEMMA ClaimShape ==
    ASSUME reader \in Readers, NEW c \in Callers, ReadLater \/ Claim(c, FirstRounds) \/ UNCHANGED reader
    PROVE  reader' \in Readers
BY RoundsBound DEF ReadLater, Claim, Readers

LEMMA ListTypedInit == ListInit => ListTyped
<1> SUFFICES ASSUME ListInit PROVE ListTyped
    OBVIOUS
<1>1. ListShape
    BY EmptySeq DEF ListInit, ListShape
<1>2. CopyShape
    <2>1. /\ absent = FALSE /\ known = 0 /\ salt = 1 /\ logs = 1 /\ copy = [e \in Entries |-> 0]
          /\ cursor = NoCursor /\ readAt = "never"
        BY DEF ListInit
    <2>2. absent \in BOOLEAN
        BY <2>1, Zenon
    <2> QED BY <2>1, <2>2 DEF CopyShape, NoCursor
<1>3. ReadShape
    BY RoundsBound DEF ListInit, ReadShape, Readers, Checks, NoReader, Idle
<1>4. SureShape
    BY DEF ListInit, SureShape
<1> QED BY <1>1, <1>2, <1>3, <1>4 DEF ListTyped

\* What is in force is as much as the log says, and can be counted.
LEMMA InForceFinite ==
    ASSUME ListShape
    PROVE  IsFiniteSet(InForce) /\ InForce \subseteq Entries /\ Cardinality(InForce) \in Nat
<1> DEFINE S == {log[i].entry : i \in 1 .. Len(log)}
<1>1. Len(log) \in Nat /\ log \in Seq(Changed)
    BY LenProperties DEF ListShape
<1>2. IsFiniteSet(1 .. Len(log))
    BY <1>1, FS_Interval
<1>3. IsFiniteSet(S)
    <2> DEFINE f == [i \in 1 .. Len(log) |-> log[i].entry]
    <2>1. f \in Surjection(1 .. Len(log), S)
        BY DEF Surjection
    <2> HIDE DEF f, S
    <2> QED BY <1>2, <2>1, FS_Surjection
<1>4. InForce \subseteq S
    <2> SUFFICES ASSUME NEW e \in InForce PROVE e \in S
        OBVIOUS
    <2>1. LastOf(log, e) \in 0 .. Len(log) /\ LastOf(log, e) # 0 /\ log[LastOf(log, e)].entry = e
        BY <1>1, LastFound DEF InForce
    <2> QED BY <1>1, <2>1
<1>5. IsFiniteSet(InForce)
    <2> HIDE DEF S
    <2> QED BY <1>3, <1>4, FS_Subset
<1> QED BY <1>5, FS_CardinalityType DEF InForce

\* The page after a cursor: where it begins and ends.
PageStart == IF cursor.log = logs THEN cursor.at ELSE 0
PageEnd == Min({PageStart + Page, Len(log)})

LEMMA PageBounds ==
    ASSUME ListShape, CopyShape
    PROVE  /\ PageStart \in Nat /\ PageEnd \in Nat /\ PageEnd <= Len(log) /\ PageEnd <= PageStart + Page
           /\ PageEnd = PageStart + Page \/ PageEnd = Len(log)
<1>1. Len(log) \in Nat /\ PageStart \in Nat /\ Page \in Nat /\ logs \in Nat \ {0}
    BY LenProperties, SuppressionsAssumption DEF ListShape, CopyShape, PageStart
<1>2. PageEnd = IF PageStart + Page <= Len(log) THEN PageStart + Page ELSE Len(log)
    BY <1>1 DEF Min, PageEnd
<1> QED BY <1>1, <1>2

LEMMA PageItems ==
    /\ PageAfter(cursor).items = SubSeq(log, PageStart + 1, PageEnd)
    /\ PageAfter(cursor).next = [log |-> logs, at |-> PageEnd]
BY DEF PageAfter, PageStart, PageEnd

\* What a page makes of an entry it does not name, of one it does.
Kept(e) == IF cursor # NoCursor /\ cursor.log # logs THEN 0 ELSE copy[e]
AsPaged(e) == LET i == LastOf(SubSeq(log, PageStart + 1, PageEnd), e)
             IN  IF i = 0 THEN Kept(e) ELSE IF SubSeq(log, PageStart + 1, PageEnd)[i].removed THEN 0 ELSE salt

LEMMA PageMakes ==
    ASSUME ListShape, CopyShape
    PROVE  /\ Absorbed(PageAfter(cursor)) = [e \in Entries |-> AsPaged(e)]
           /\ \A e \in Entries : AsPaged(e) \in {0, known, salt}
<1>1. Absorbed(PageAfter(cursor)) = [e \in Entries |-> AsPaged(e)]
    BY DEF Absorbed, Applied, PageAfter, AsPaged, Kept, Nobody, PageStart, PageEnd
<1>2. \A e \in Entries : copy[e] \in {0, known}
    BY DEF CopyShape
<1>3. \A e \in Entries : AsPaged(e) \in {0, known, salt}
    BY <1>2 DEF AsPaged, Kept
<1> QED BY <1>1, <1>3

\* A copy that nobody touches.
LEMMA CopyStays ==
    ASSUME ListShape, CopyShape, UNCHANGED local, salt' \in Nat, salt <= salt', logs' \in Nat, logs <= logs'
    PROVE  CopyShape'
<1>1. salt \in Nat /\ logs \in Nat
    BY DEF ListShape
<1>2. known' = known /\ copy' = copy /\ cursor' = cursor /\ readAt' = readAt /\ absent' = absent
    BY DEF local
<1>3. known' \in 0 .. salt' /\ copy' \in [Entries -> {0, known'}]
    BY <1>1, <1>2 DEF CopyShape
<1>4. cursor' \in [log : 0 .. logs', at : Nat] /\ (cursor' # NoCursor => known' # 0)
    BY <1>1, <1>2 DEF CopyShape
<1> QED BY <1>2, <1>3, <1>4 DEF CopyShape

\* What a step of the list leaves alone, and what a step of the readers does.
LEMMA ListStays ==
    ASSUME ListShape, UNCHANGED list
    PROVE  ListShape' /\ salt' = salt /\ logs' = logs /\ log' = log /\ listed' = listed
           /\ salt' \in Nat /\ logs' \in Nat /\ salt <= salt' /\ logs <= logs'
BY DEF ListShape, list

LEMMA ChangeTyped == ASSUME ListTyped, NEW e \in Entries, Change(e) PROVE ListTyped'
<1> USE DEF ListTyped
<1>1. ListShape'
    <2>1. [entry |-> e, removed |-> e \in InForce] \in Changed
        BY DEF Changed
    <2>2. log' \in Seq(Changed)
        BY <2>1, AppendProperties DEF Change, ListShape
    <2> QED BY <2>2 DEF Change, ListShape
<1>2. CopyShape'
    BY CopyStays DEF Change, ListShape
<1>3. ReadShape'
    BY DEF Change, ReadShape
<1>4. SureShape'
    BY DEF Change, SureShape
<1> QED BY <1>1, <1>2, <1>3, <1>4

LEMMA TurnoverTyped == ASSUME ListTyped, Turnover PROVE ListTyped'
<1> USE DEF ListTyped
<1>1. salt' \in {salt, salt + 1} /\ logs' = logs + 1 /\ salt \in 1 .. logs /\ logs \in Nat
    BY DEF Turnover, ListShape
<1>2. ListShape'
    <2>1. PICK kept \in [1 .. Cardinality(InForce) -> InForce] :
            log' = [i \in DOMAIN kept |-> [entry |-> kept[i], removed |-> FALSE]]
        BY DEF Turnover
    <2>2. InForce \subseteq Entries /\ Cardinality(InForce) \in Nat
        BY InForceFinite
    <2>3. log' \in [1 .. Cardinality(InForce) -> Changed]
        BY <2>1, <2>2 DEF Changed
    <2>4. log' \in Seq(Changed)
        BY <2>2, <2>3, SeqDef
    <2> QED BY <1>1, <2>4 DEF ListShape, Turnover
<1>3. CopyShape'
    BY <1>1, CopyStays DEF Turnover
<1>4. ReadShape' /\ SureShape'
    BY <1>1 DEF Turnover, ReadShape, SureShape, history, bounds
<1> QED BY <1>2, <1>3, <1>4

LEMMA ToggleTyped == ASSUME ListTyped, Toggle PROVE ListTyped'
<1> USE DEF ListTyped
<1>1. ListShape' /\ ReadShape' /\ SureShape'
    BY DEF Toggle, ListShape, ReadShape, SureShape
<1>2. CopyShape'
    BY CopyStays DEF Toggle, ListShape
<1> QED BY <1>1, <1>2

\* A check: only the checks and the reader change.
LEMMA CheckTyped ==
    ASSUME ListTyped, UNCHANGED list, UNCHANGED local, UNCHANGED <<sure, sureLog, bounds>>, ReadShape'
    PROVE  ListTyped'
<1> USE DEF ListTyped
<1>1. ListShape' /\ CopyShape'
    BY ListStays, CopyStays
<1>2. SureShape'
    BY ListStays DEF SureShape, bounds
<1> QED BY <1>1, <1>2

LEMMA MayContactTyped == ASSUME ListTyped, NEW c \in Callers, NEW e \in Entries, MayContact(c, e) PROVE ListTyped'
<1>1. PICK next \in {"answering", "waiting", "first"} :
        /\ check' = [check EXCEPT ![c] = [step |-> next, about |-> e, answer |-> "none"]]
        /\ ReadLater \/ Claim(c, FirstRounds) \/ UNCHANGED reader
    BY DEF MayContact
<1>2. check' \in [Callers -> Checks]
    BY <1>1 DEF ListTyped, ReadShape, Checks
<1>3. reader' \in Readers
    BY <1>1, ClaimShape DEF ListTyped, ReadShape
<1>4. ReadShape'
    BY <1>2, <1>3 DEF ReadShape
<1> QED BY <1>4, CheckTyped DEF MayContact, history

LEMMA GoesOnTyped == ASSUME ListTyped, NEW c \in Callers, GoesOn(c) PROVE ListTyped'
<1>1. ReadShape'
    <2>1. check' \in [Callers -> Checks]
        <3>1. check \in [Callers -> Checks] /\ check[c] \in Checks
            BY DEF ListTyped, ReadShape
        <3>2. CASE WaitEnds(c)
            BY <3>1, <3>2 DEF WaitEnds, Checks
        <3>3. CASE After(c)
            BY <3>1, <3>3 DEF After, Checks
        <3>4. CASE Answer(c)
            <4>1. [Idle EXCEPT !.answer = IF Goes(check[c].about) THEN "go" ELSE "wait"] \in Checks
                BY DEF Idle, Checks
            <4> QED BY <3>1, <3>4, <4>1 DEF Answer
        <3> QED BY <3>2, <3>3, <3>4 DEF GoesOn
    <2>2. reader' \in Readers
        <3>1. ReadLater \/ UNCHANGED reader
            BY DEF GoesOn, WaitEnds, After, Answer
        <3> QED BY <3>1, ClaimShape DEF ListTyped, ReadShape
    <2> QED BY <2>1, <2>2 DEF ReadShape
<1>2. UNCHANGED list /\ UNCHANGED local /\ UNCHANGED <<sure, sureLog, bounds>>
    BY DEF GoesOn, WaitEnds, After, Answer, history
<1> QED BY <1>1, <1>2, CheckTyped

\* A round trip that reads the salt, finds another one, or a page.
LEMMA TakeSaltTyped == ASSUME ListTyped, TakeSalt PROVE ListTyped'
<1> USE DEF ListTyped
<1>1. ListShape' /\ salt' = salt /\ logs' = logs /\ salt \in Nat
    BY ListStays DEF TakeSalt, ListShape
<1>2. CopyShape'
    BY <1>1 DEF TakeSalt, CopyShape
<1>3. ReadShape'
    BY GoonShape DEF TakeSalt
<1>4. SureShape'
    BY <1>1 DEF TakeSalt, SureShape, history, bounds
<1> QED BY <1>1, <1>2, <1>3, <1>4

\* The two ends of a round trip with a salt.
NewSalt ==
    /\ salt # known /\ known' = 0 /\ cursor' = NoCursor /\ copy' = Nobody /\ UNCHANGED <<readAt, absent, history>>

Paged ==
    /\ salt = known /\ known' = known /\ absent' = FALSE
    /\ copy' = [e \in Entries |-> AsPaged(e)]
    /\ cursor' = [log |-> logs, at |-> PageEnd]
    /\ PageEnd \in Nat /\ PageEnd <= Len(log)
    /\ \/ UNCHANGED <<readAt, sure, sureLog>>
       \/ /\ PageEnd = Len(log) /\ readAt' = "fresh"
          /\ sure' = {e \in InForce : copy'[e] = salt} /\ sureLog' = logs

LEMMA ApplyPageIs ==
    ASSUME ListTyped, ApplyPage
    PROVE  /\ known # 0 /\ listed /\ Reading
           /\ NewSalt \/ Paged
           /\ \E more \in BOOLEAN : Goon(more)
           /\ UNCHANGED list /\ UNCHANGED bounds
<1> DEFINE page == PageAfter(cursor)
<1>1. known # 0 /\ listed /\ Reading /\ UNCHANGED list /\ UNCHANGED bounds
    BY DEF ApplyPage
<1>2. CASE salt # known
    BY <1>1, <1>2 DEF ApplyPage, NewSalt, OfNewSalt
<1>3. CASE salt = known
    <2>1. /\ copy' = Absorbed(page) /\ cursor' = page.next /\ absent' = FALSE
          /\ Goon(Len(page.items) = Page) /\ UNCHANGED known
          /\ IF Len(page.items) = Page
             THEN UNCHANGED <<readAt, sure, sureLog>>
             ELSE readAt' = "fresh" /\ sure' = {e \in InForce : copy'[e] = salt} /\ sureLog' = logs
        BY <1>3 DEF ApplyPage
    <2>2. copy' = [e \in Entries |-> AsPaged(e)] /\ cursor' = [log |-> logs, at |-> PageEnd]
        BY <2>1, PageMakes, PageItems DEF ListTyped
    <2>3. PageEnd \in Nat /\ PageEnd <= Len(log)
        BY PageBounds DEF ListTyped
    <2>4. Len(page.items) # Page => PageEnd = Len(log)
        <3> SUFFICES ASSUME PageEnd = PageStart + Page PROVE Len(page.items) = Page
            BY PageBounds DEF ListTyped
        <3>1. /\ PageStart \in Nat /\ PageEnd \in Nat /\ PageEnd <= Len(log)
              /\ Page \in Nat \ {0} /\ log \in Seq(Changed)
            BY PageBounds, SuppressionsAssumption DEF ListTyped, ListShape
        <3>2. Len(SubSeq(log, PageStart + 1, PageEnd)) = PageEnd - PageStart
            <4>1. PageEnd \in 0 .. Len(log) /\ PageStart \in 0 .. PageEnd /\ PageEnd - PageStart = Page
                BY <3>1, LenProperties
            <4> QED BY <3>1, <4>1, Slice
        <3> QED BY <3>1, <3>2, PageItems
    <2>5. Paged
        <3> HIDE DEF page
        <3> QED BY <1>3, <2>1, <2>2, <2>3, <2>4 DEF Paged
    <2>6. (Len(page.items) = Page) \in BOOLEAN
        OBVIOUS
    <2> QED BY <1>1, <2>1, <2>5, <2>6
<1> QED BY <1>2, <1>3

LEMMA ApplyPageTyped == ASSUME ListTyped, ApplyPage PROVE ListTyped'
<1> USE DEF ListTyped
<1>1. ListShape' /\ salt' = salt /\ logs' = logs /\ salt \in Nat /\ logs \in Nat
    BY ListStays, ApplyPageIs DEF ListShape
<1>2. ReadShape'
    BY GoonShape, ApplyPageIs
<1>3. UNCHANGED bounds
    BY ApplyPageIs
<1>4. CASE NewSalt
    <2>1. CopyShape'
        BY <1>1, <1>4 DEF NewSalt, CopyShape, Nobody, NoCursor
    <2>2. SureShape'
        BY <1>1, <1>3, <1>4 DEF NewSalt, SureShape, history, bounds
    <2> QED BY <1>1, <1>2, <2>1, <2>2
<1>5. CASE Paged
    <2>1. known' \in 0 .. salt' /\ copy' \in [Entries -> {0, known'}]
        <3>1. \A e \in Entries : AsPaged(e) \in {0, known}
            BY <1>5, PageMakes DEF Paged
        <3> QED BY <1>1, <1>5, <3>1 DEF Paged, CopyShape
    <2>2. cursor' \in [log : 0 .. logs', at : Nat] /\ known' # 0
        BY <1>1, <1>5, ApplyPageIs DEF Paged
    <2>3. readAt' \in {"never", "fresh", "old"}
        BY <1>5 DEF Paged, CopyShape
    <2>4. absent' = FALSE
        BY <1>5 DEF Paged
    <2>5. absent' \in BOOLEAN
        BY <2>4, Zenon
    <2>6. CopyShape'
        BY <2>1, <2>2, <2>3, <2>5 DEF CopyShape
    <2>7. SureShape'
        BY <1>1, <1>3, <1>5 DEF Paged, SureShape, InForce, bounds
    <2> QED BY <1>1, <1>2, <2>6, <2>7
<1> QED BY <1>4, <1>5, ApplyPageIs

LEMMA NoListTyped == ASSUME ListTyped, NoList PROVE ListTyped'
<1> USE DEF ListTyped
<1>1. ListShape' /\ salt' = salt /\ logs' = logs
    BY ListStays DEF NoList
<1>2. absent' = TRUE
    BY DEF NoList
<1>3. absent' \in BOOLEAN
    BY <1>2, Zenon
<1>4. CopyShape'
    BY <1>1, <1>3 DEF NoList, CopyShape, Nobody
<1>5. ReadShape'
    BY GoonShape DEF NoList
<1>6. SureShape'
    BY <1>1 DEF NoList, SureShape, history, bounds
<1> QED BY <1>1, <1>4, <1>5, <1>6

LEMMA FailsTyped == ASSUME ListTyped, Fails PROVE ListTyped'
<1> USE DEF ListTyped
<1>1. ListShape' /\ CopyShape'
    BY ListStays, CopyStays DEF Fails
<1>2. ReadShape'
    BY GoonShape DEF Fails
<1>3. SureShape'
    BY ListStays DEF Fails, SureShape, history
<1> QED BY <1>1, <1>2, <1>3

LEMMA AgeTyped == ASSUME ListTyped, Age PROVE ListTyped'
<1> USE DEF ListTyped
<1>1. ListShape' /\ salt' = salt /\ logs' = logs
    BY ListStays DEF Age
<1>2. CopyShape'
    BY <1>1 DEF Age, CopyShape
<1>3. ReadShape' /\ SureShape'
    BY <1>1 DEF Age, ReadShape, SureShape, history
<1> QED BY <1>1, <1>2, <1>3

LEMMA ListTypedStep == ListTyped /\ [ListNext]_list_vars => ListTyped'
<1> SUFFICES ASSUME ListTyped, [ListNext]_list_vars PROVE ListTyped'
    OBVIOUS
<1>1. CASE \E e \in Entries : Change(e)
    BY <1>1, ChangeTyped
<1>2. CASE Turnover \/ Toggle \/ Age
    BY <1>2, TurnoverTyped, ToggleTyped, AgeTyped
<1>3. CASE Round
    BY <1>3, TakeSaltTyped, ApplyPageTyped, NoListTyped, FailsTyped DEF Round
<1>4. CASE Asks
    BY <1>4, MayContactTyped DEF Asks
<1>5. CASE \E c \in Callers : GoesOn(c)
    BY <1>5, GoesOnTyped
<1>6. CASE UNCHANGED list_vars
    BY <1>6 DEF list_vars, list, local, history, bounds, ListTyped, ListShape, CopyShape, ReadShape, SureShape
<1> QED BY <1>1, <1>2, <1>3, <1>4, <1>5, <1>6 DEF ListNext

-----------------------------------------------------------------------------
(* The copy is what the log comes to, as far as its cursor goes *)

\* Without a cursor the copy is empty; with one of the log of now, and as long as the list never went away,
\* it is what the log came to at the cursor, under the salt of now.
CopyFollows ==
    /\ cursor = NoCursor => copy = Nobody
    /\ cursor.log = logs => cursor.at <= Len(log) /\ known = salt
    /\ gone = 0 => listed
    /\ gone = 0 /\ cursor.log = logs => \A e \in Entries : copy[e] = Made(SubSeq(log, 1, cursor.at), e)

\* The entries read in full and in force since are in the copy, and no change to come is about them.
SureHolds ==
    /\ sure # {} => listed /\ ~absent /\ readAt # "never"
    /\ \A e \in sure : sureLog = logs =>
        /\ cursor.log = logs /\ copy[e] = salt
        /\ \A i \in cursor.at + 1 .. Len(log) : log[i].entry # e

ListInv == ListTyped /\ CopyFollows /\ SureHolds

LEMMA ListInvInit == ListInit => CopyFollows /\ SureHolds
BY DEF ListInit, CopyFollows, SureHolds, Nobody, NoCursor

\* A step of a check, a failed read, time.
LEMMA Undisturbed ==
    ASSUME ListInv, UNCHANGED <<list, known, copy, cursor, absent, sure, sureLog, gone>>,
           readAt' = "never" => readAt = "never"
    PROVE  CopyFollows' /\ SureHolds'
<1>1. /\ listed' = listed /\ log' = log /\ logs' = logs /\ salt' = salt /\ known' = known /\ copy' = copy
      /\ cursor' = cursor /\ absent' = absent /\ sure' = sure /\ sureLog' = sureLog /\ gone' = gone
    BY DEF list
<1>2. CopyFollows'
    BY <1>1 DEF ListInv, CopyFollows, Made, Nobody
<1>3. SureHolds'
    BY <1>1 DEF ListInv, SureHolds
<1> QED BY <1>2, <1>3

LEMMA ChangeFollows ==
    ASSUME ListInv, NEW e \in Entries, Change(e)
    PROVE  CopyFollows' /\ SureHolds'
<1> DEFINE x == [entry |-> e, removed |-> e \in InForce]
<1>1. /\ x \in Changed /\ x.entry = e /\ log \in Seq(Changed) /\ Len(log) \in Nat
      /\ cursor.at \in Nat /\ sure \in SUBSET Entries
    BY LenProperties DEF Changed, ListInv, ListTyped, ListShape, CopyShape, SureShape
<1>2. /\ listed' = listed /\ log' = Append(log, x) /\ logs' = logs /\ salt' = salt /\ known' = known
      /\ copy' = copy /\ cursor' = cursor /\ absent' = absent /\ readAt' = readAt
      /\ sure' = sure \ {e} /\ sureLog' = sureLog /\ gone' = gone
    BY DEF Change, local
<1> HIDE DEF x
<1>3. Len(log') = Len(log) + 1 /\ log'[Len(log) + 1] = x /\ \A i \in 1 .. Len(log) : log'[i] = log[i]
    BY <1>1, <1>2, AppendProperties
<1>4. CopyFollows'
    <2>1. cursor.log = logs => SubSeq(log', 1, cursor.at) = SubSeq(log, 1, cursor.at)
        BY <1>1, <1>2, PrefixStays DEF ListInv, CopyFollows
    <2>2. cursor' = NoCursor => copy' = Nobody
        BY <1>2 DEF ListInv, CopyFollows
    <2>3. cursor'.log = logs' => cursor'.at <= Len(log') /\ known' = salt'
        BY <1>1, <1>2, <1>3 DEF ListInv, CopyFollows
    <2>4. gone' = 0 => listed'
        BY <1>2 DEF ListInv, CopyFollows
    <2>5. gone' = 0 /\ cursor'.log = logs' =>
            \A e1 \in Entries : copy'[e1] = Made(SubSeq(log, 1, cursor.at), e1)'
        BY <1>2, <2>1 DEF ListInv, CopyFollows, Made
    <2>6. Nobody' = Nobody
        BY DEF Nobody
    <2> QED BY <2>2, <2>3, <2>4, <2>5, <2>6 DEF CopyFollows
<1>5. SureHolds'
    <2>1. \A e1 \in sure' : sureLog' = logs' =>
            cursor'.log = logs' /\ copy'[e1] = salt' /\ \A i \in cursor'.at + 1 .. Len(log') : log'[i].entry # e1
        <3> SUFFICES ASSUME NEW e1 \in sure', sureLog' = logs'
                     PROVE  cursor'.log = logs' /\ copy'[e1] = salt'
                            /\ \A i \in cursor'.at + 1 .. Len(log') : log'[i].entry # e1
            OBVIOUS
        <3>1. e1 \in sure /\ e1 # e /\ cursor.log = logs /\ copy[e1] = salt
              /\ \A i \in cursor.at + 1 .. Len(log) : log[i].entry # e1
            BY <1>2 DEF ListInv, SureHolds
        <3>2. \A i \in cursor.at + 1 .. Len(log) + 1 : log'[i].entry # e1
            BY <1>1, <1>3, <3>1
        <3> QED BY <1>2, <1>3, <3>1, <3>2
    <2>2. sure' # {} => listed' /\ ~absent' /\ readAt' # "never"
        BY <1>2 DEF ListInv, SureHolds
    <2> QED BY <2>1, <2>2 DEF SureHolds
<1> QED BY <1>4, <1>5

LEMMA TurnoverFollows == ASSUME ListInv, Turnover PROVE CopyFollows' /\ SureHolds'
<1>1. /\ logs' = logs + 1 /\ listed' = listed /\ known' = known /\ copy' = copy /\ cursor' = cursor
      /\ readAt' = readAt /\ absent' = absent /\ sure' = sure /\ sureLog' = sureLog /\ gone' = gone
    BY DEF Turnover, local, history, bounds
<1>2. cursor.log # logs + 1 /\ sureLog # logs + 1
    BY DEF ListInv, ListTyped, ListShape, CopyShape, SureShape
<1>3. CopyFollows'
    BY <1>1, <1>2 DEF ListInv, CopyFollows, Nobody
<1>4. SureHolds'
    BY <1>1, <1>2 DEF ListInv, SureHolds
<1> QED BY <1>3, <1>4

LEMMA ToggleFollows == ASSUME ListInv, Toggle PROVE CopyFollows' /\ SureHolds'
<1>1. gone' # 0
    BY DEF Toggle, ListInv, ListTyped, SureShape
<1>2. CopyFollows'
    BY <1>1 DEF Toggle, local, ListInv, CopyFollows, Nobody
<1>3. SureHolds'
    BY DEF Toggle, SureHolds
<1> QED BY <1>2, <1>3

LEMMA TakeSaltFollows == ASSUME ListInv, TakeSalt PROVE CopyFollows' /\ SureHolds'
<1>1. cursor = NoCursor /\ cursor.log # logs /\ copy = Nobody
    BY DEF TakeSalt, ListInv, ListTyped, CopyShape, ListShape, CopyFollows, NoCursor
<1>2. /\ listed' = listed /\ logs' = logs /\ copy' = copy /\ cursor' = cursor /\ readAt' = readAt
      /\ absent' = absent /\ sure' = sure /\ sureLog' = sureLog /\ gone' = gone
    BY DEF TakeSalt, list, history, bounds
<1>3. CopyFollows'
    BY <1>1, <1>2 DEF ListInv, CopyFollows, Nobody
<1>4. SureHolds'
    BY <1>1, <1>2 DEF ListInv, SureHolds
<1> QED BY <1>3, <1>4

LEMMA NoListFollows == ASSUME ListInv, NoList PROVE CopyFollows' /\ SureHolds'
<1>1. /\ listed' = listed /\ log' = log /\ logs' = logs /\ salt' = salt /\ known' = known /\ copy' = Nobody
      /\ cursor' = cursor /\ sure' = sure /\ sureLog' = sureLog /\ gone' = gone /\ ~listed
    BY DEF NoList, list, history, bounds
<1>2. sure = {} /\ gone # 0
    BY <1>1 DEF ListInv, SureHolds, CopyFollows
<1>3. CopyFollows'
    BY <1>1, <1>2 DEF ListInv, CopyFollows, Nobody
<1>4. SureHolds'
    BY <1>1, <1>2 DEF SureHolds
<1> QED BY <1>3, <1>4

\* Where a page begins is what the copy stands for, or it begins anew.
LEMMA KeptIsMade ==
    ASSUME ListInv, gone = 0, NEW e \in Entries
    PROVE  PageStart \in 0 .. Len(log) /\ Kept(e) = Made(SubSeq(log, 1, PageStart), e)
<1>1. log \in Seq(Changed) /\ Len(log) \in Nat /\ cursor.at \in Nat
    BY LenProperties DEF ListInv, ListTyped, ListShape, CopyShape
<1>2. CASE cursor.log = logs
    <2>1. cursor.at <= Len(log) /\ copy[e] = Made(SubSeq(log, 1, cursor.at), e)
        BY <1>2 DEF ListInv, CopyFollows
    <2> QED BY <1>1, <1>2, <2>1 DEF PageStart, Kept
<1>3. CASE cursor.log # logs
    <2>1. Kept(e) = 0
        BY <1>3 DEF Kept, ListInv, CopyFollows, Nobody
    <2>2. SubSeq(log, 1, 0) \in Seq(Changed) /\ Len(SubSeq(log, 1, 0)) = 0
        BY <1>1, SubSeqProperties
    <2>3. LastOf(SubSeq(log, 1, 0), e) = 0
        <3> DEFINE none == SubSeq(log, 1, 0)
        <3> HIDE DEF none
        <3>1. LastOf(none, e) \in 0 .. Len(none) /\ Len(none) = 0
            BY <2>2, LastFound DEF none
        <3>2. LastOf(none, e) = 0
            BY <3>1
        <3> QED BY <3>2 DEF none
    <2>4. Made(SubSeq(log, 1, 0), e) = 0
        BY <2>3 DEF Made
    <2> QED BY <1>1, <1>3, <2>1, <2>4 DEF PageStart
<1> QED BY <1>2, <1>3

\* With the page, the copy is what the log comes to at the page's end.
LEMMA PagedIsMade ==
    ASSUME ListInv, gone = 0, NEW e \in Entries
    PROVE  AsPaged(e) = Made(SubSeq(log, 1, PageEnd), e)
<1>1. log \in Seq(Changed) /\ Len(log) \in Nat /\ Page \in Nat
    BY LenProperties, SuppressionsAssumption DEF ListInv, ListTyped, ListShape
<1>2. PageStart \in 0 .. Len(log) /\ Kept(e) = Made(SubSeq(log, 1, PageStart), e)
    BY KeptIsMade
<1>3. PageEnd \in 0 .. Len(log) /\ PageStart \in 0 .. PageEnd
    BY <1>1, <1>2, PageBounds DEF ListInv, ListTyped
<1> QED BY <1>1, <1>2, <1>3, PageAdds DEF AsPaged

\* An entry no change to come is about stays as it is.
LEMMA PagedStays ==
    ASSUME ListInv, NEW e \in sure, sureLog = logs
    PROVE  AsPaged(e) = salt /\ cursor.at <= PageEnd
<1>1. log \in Seq(Changed) /\ Len(log) \in Nat /\ cursor.at \in Nat /\ Page \in Nat
    BY LenProperties, SuppressionsAssumption DEF ListInv, ListTyped, ListShape, CopyShape
<1>2. cursor.log = logs /\ copy[e] = salt /\ (\A i \in cursor.at + 1 .. Len(log) : log[i].entry # e)
      /\ cursor.at <= Len(log)
    BY DEF ListInv, SureHolds, CopyFollows
<1>3. PageStart = cursor.at
    BY <1>2 DEF PageStart
<1>4. PageEnd \in Nat /\ PageEnd <= Len(log) /\ PageStart <= PageEnd
    BY <1>1, <1>2, <1>3, PageBounds DEF ListInv, ListTyped
<1> DEFINE page == SubSeq(log, PageStart + 1, PageEnd)
<1>5. page \in Seq(Changed) /\ Len(page) = PageEnd - PageStart
      /\ \A j \in 1 .. PageEnd - PageStart : page[j] = log[PageStart + j]
    <2>1. PageEnd \in 0 .. Len(log) /\ PageStart \in 0 .. PageEnd
        BY <1>1, <1>3, <1>4
    <2> QED BY <1>1, <2>1, Slice
<1>6. LastOf(page, e) = 0
    <2> HIDE DEF page
    <2>1. LastOf(page, e) \in 0 .. PageEnd - PageStart /\ (LastOf(page, e) # 0 => page[LastOf(page, e)].entry = e)
        BY <1>5, LastFound
    <2> DEFINE i == LastOf(page, e)
    <2> HIDE DEF i
    <2>2. i \in 0 .. PageEnd - PageStart /\ (i # 0 => page[i].entry = e)
        BY <2>1 DEF i
    <2>3. ASSUME i # 0 PROVE FALSE
        <3>1. i \in 1 .. PageEnd - PageStart /\ page[i].entry = e /\ page[i] = log[PageStart + i]
            BY <1>1, <1>3, <1>4, <1>5, <2>2, <2>3
        <3>2. PageStart + i \in cursor.at + 1 .. Len(log)
            BY <1>1, <1>3, <1>4, <3>1
        <3> QED BY <1>2, <3>1, <3>2
    <2> QED BY <2>3 DEF i
<1>7. Kept(e) = salt
    BY <1>2 DEF Kept
<1> QED BY <1>3, <1>4, <1>6, <1>7 DEF AsPaged

LEMMA ApplyPageFollows == ASSUME ListInv, ApplyPage PROVE CopyFollows' /\ SureHolds'
<1>1. /\ listed' = listed /\ log' = log /\ logs' = logs /\ salt' = salt /\ gone' = gone /\ listed
    BY ApplyPageIs DEF ListInv, list, bounds
<1>2. CASE NewSalt
    <2>1. /\ salt # known /\ cursor' = NoCursor /\ copy' = Nobody /\ readAt' = readAt /\ absent' = absent
          /\ sure' = sure /\ sureLog' = sureLog
        BY <1>2 DEF NewSalt, history
    <2>2. \A e \in sure : sureLog # logs
        BY <2>1 DEF ListInv, SureHolds, CopyFollows
    <2>3. NoCursor.log # logs
        BY DEF NoCursor, ListInv, ListTyped, ListShape
    <2>4. CopyFollows'
        BY <1>1, <2>1, <2>3 DEF ListInv, CopyFollows, Nobody
    <2>5. SureHolds'
        BY <1>1, <2>1, <2>2 DEF ListInv, SureHolds
    <2> QED BY <2>4, <2>5
<1>3. CASE Paged
    <2>1. /\ salt = known /\ known' = known /\ absent' = FALSE
          /\ copy' = [e \in Entries |-> AsPaged(e)] /\ cursor' = [log |-> logs, at |-> PageEnd]
          /\ PageEnd \in Nat /\ PageEnd <= Len(log)
        BY <1>3 DEF Paged
    <2>2. cursor'.log = logs /\ cursor'.at = PageEnd /\ cursor' # NoCursor
        BY <2>1 DEF NoCursor, ListInv, ListTyped, ListShape
    <2>3. CopyFollows'
        <3>1. gone = 0 => \A e \in Entries : copy'[e] = Made(SubSeq(log, 1, PageEnd), e)
            BY <2>1, PagedIsMade
        <3>2. \A e \in Entries : Made(SubSeq(log, 1, cursor.at), e)' = Made(SubSeq(log, 1, PageEnd), e)
            BY <1>1, <2>2 DEF Made
        <3>3. gone' = 0 => listed'
            BY <1>1
        <3> QED BY <1>1, <2>1, <2>2, <3>1, <3>2, <3>3 DEF CopyFollows
    <2>4. SureHolds'
        <3>1. CASE UNCHANGED <<readAt, sure, sureLog>>
            <4>1. ASSUME NEW e \in sure', sureLog' = logs'
                  PROVE  copy'[e] = salt /\ \A i \in PageEnd + 1 .. Len(log) : log[i].entry # e
                <5>1. e \in sure /\ sureLog = logs /\ e \in Entries
                    BY <1>1, <3>1, <4>1 DEF ListInv, ListTyped, SureShape
                <5>2. AsPaged(e) = salt /\ cursor.at <= PageEnd /\ cursor.at \in Nat
                    BY <5>1, PagedStays DEF ListInv, ListTyped, CopyShape
                <5>3. \A i \in cursor.at + 1 .. Len(log) : log[i].entry # e
                    BY <5>1 DEF ListInv, SureHolds
                <5>4. Len(log) \in Nat
                    BY LenProperties DEF ListInv, ListTyped, ListShape
                <5> QED BY <2>1, <5>1, <5>2, <5>3, <5>4
            <4>2. sure' # {} => listed' /\ ~absent' /\ readAt' # "never"
                BY <1>1, <2>1, <3>1 DEF ListInv, SureHolds
            <4> QED BY <1>1, <2>2, <4>1, <4>2 DEF SureHolds
        <3>2. CASE /\ PageEnd = Len(log) /\ readAt' = "fresh"
                   /\ sure' = {e \in InForce : copy'[e] = salt} /\ sureLog' = logs
            <4>1. \A i \in PageEnd + 1 .. Len(log) : FALSE
                BY <2>1, <3>2
            <4>2. \A e \in sure' : copy'[e] = salt
                BY <3>2
            <4>3. listed' /\ ~absent' /\ readAt' # "never"
                BY <1>1, <2>1, <3>2
            <4> QED BY <1>1, <2>2, <4>1, <4>2, <4>3 DEF SureHolds
        <3> QED BY <1>3, <3>1, <3>2 DEF Paged
    <2> QED BY <2>3, <2>4
<1> QED BY <1>2, <1>3, ApplyPageIs DEF ListInv

LEMMA ListInvStep == ListInv /\ [ListNext]_list_vars => ListInv'
<1> SUFFICES ASSUME ListInv, [ListNext]_list_vars PROVE CopyFollows' /\ SureHolds'
    BY ListTypedStep DEF ListInv
<1>1. CASE \E e \in Entries : Change(e)
    BY <1>1, ChangeFollows
<1>2. CASE Turnover \/ Toggle
    BY <1>2, TurnoverFollows, ToggleFollows
<1>3. CASE Age
    BY <1>3, Undisturbed DEF Age, history
<1>4. CASE Round
    <2>1. CASE Fails
        BY <2>1, Undisturbed DEF Fails, local, history
    <2> QED BY <1>4, <2>1, TakeSaltFollows, ApplyPageFollows, NoListFollows DEF Round
<1>5. CASE Asks
    <2>1. UNCHANGED <<list, local, history, bounds>>
        BY <1>5 DEF Asks, MayContact
    <2> QED BY <2>1, Undisturbed DEF local, history, bounds
<1>6. CASE \E c \in Callers : GoesOn(c)
    <2>1. UNCHANGED <<list, local, sure, sureLog, bounds>>
        BY <1>6 DEF GoesOn, WaitEnds, After, Answer, history
    <2> QED BY <2>1, Undisturbed DEF local, bounds
<1>7. CASE UNCHANGED list_vars
    BY <1>7, Undisturbed DEF list_vars, local, history, bounds
<1> QED BY <1>1, <1>2, <1>3, <1>4, <1>5, <1>6, <1>7 DEF ListNext

\* All three hold in every state: the copy follows the log whatever the list and the readers do.
LEMMA ListInvariant == ListSpec => []ListInv
<1>1. ListInit => ListInv
    BY ListTypedInit, ListInvInit DEF ListInv
<1> QED BY <1>1, ListInvStep, PTL DEF ListSpec

\* The shapes of the list, of its copy and of the readers hold in every state: a copy holds entries under
\* one salt, its own, and a cursor only with it.
THEOREM ListTypeCorrect == ListSpec => []ListTypeOK
<1>1. ListInv => ListTypeOK
    <2> SUFFICES ASSUME ListInv PROVE ListTypeOK
        OBVIOUS
    <2>1. {listed, absent} \subseteq BOOLEAN
        BY DEF ListInv, ListTyped, ListShape, CopyShape
    <2>2. salt \in 1 .. logs /\ known \in 0 .. salt /\ log \in Seq([entry : Entries, removed : BOOLEAN])
        BY DEF ListInv, ListTyped, ListShape, CopyShape, Changed
    <2>3. copy \in [Entries -> 0 .. salt] /\ \A e \in Entries : copy[e] \in {0, known}
        BY <2>2 DEF ListInv, ListTyped, ListShape, CopyShape
    <2>4. cursor.log \in 0 .. logs /\ (cursor # NoCursor => known # 0) /\ readAt \in {"never", "fresh", "old"}
        BY DEF ListInv, ListTyped, CopyShape
    <2>5. reader.who \in Callers \cup {Later, "nobody"} /\ reader.left \in 0 .. Max({MaxPages, FirstRounds})
        BY DEF ListInv, ListTyped, ReadShape, Readers
    <2>6. \A c \in Callers : check[c].step \in {"idle", "first", "waiting", "after", "answering"}
        BY DEF ListInv, ListTyped, ReadShape, Checks
    <2> QED BY <2>1, <2>2, <2>3, <2>4, <2>5, <2>6 DEF ListTypeOK
<1> QED BY <1>1, ListInvariant, PTL

\* What the log comes to is what is in force.
LEMMA MadeIsInForce ==
    ASSUME ListShape, NEW e \in Entries
    PROVE  Made(SubSeq(log, 1, Len(log)), e) = IF e \in InForce THEN salt ELSE 0
<1>1. SubSeq(log, 1, Len(log)) = log
    BY SubSeqFull DEF ListShape
<1> QED BY <1>1 DEF Made, InForce

\* A read that ends leaves the copy with what is in force and nothing else.
THEOREM CopyIsTheList == ListSpec => CopyInStep
<1>1. ListInv /\ [ListNext]_list_vars =>
        [Due /\ readAt' = "fresh" /\ ~absent' /\ gone = 0 =>
            \A e \in Entries : copy'[e] = IF e \in InForce THEN salt ELSE 0]_list_vars
    <2> SUFFICES ASSUME ListInv, [ListNext]_list_vars, readAt # "fresh", readAt' = "fresh", ~absent', gone = 0,
                        NEW e \in Entries
                 PROVE  copy'[e] = IF e \in InForce THEN salt ELSE 0
        BY DEF Due
    <2>1. ApplyPage
        <3>1. ~NoList
            BY DEF NoList
        <3> QED BY <3>1 DEF ListNext, Change, Turnover, Toggle, Age, Round, TakeSalt, Fails, Asks, MayContact,
                    GoesOn, WaitEnds, After, Answer, local, list_vars
    <2>2. Paged /\ PageEnd = Len(log)
        BY <2>1, ApplyPageIs DEF ListInv, NewSalt, Paged
    <2>3. copy'[e] = Made(SubSeq(log, 1, Len(log)), e)
        BY <2>2, PagedIsMade DEF Paged
    <2> QED BY <2>3, MadeIsInForce DEF ListInv, ListTyped
<1> QED BY <1>1, ListInvariant, PTL DEF ListSpec, CopyInStep

\* An opt-out read once forbids its contact for as long as it is in force.
THEOREM OptOutsForbid == ListSpec => OptOutHolds
<1>1. ListInv /\ [ListNext]_list_vars =>
        [\A c \in Callers : Told(c) /\ check[c].about \in sure /\ sureLog = logs
            => check'[c].answer = "wait"]_list_vars
    <2> SUFFICES ASSUME ListInv, [ListNext]_list_vars, NEW c \in Callers,
                        Told(c), check[c].about \in sure, sureLog = logs
                 PROVE  check'[c].answer = "wait"
        OBVIOUS
    <2> DEFINE e == check[c].about
    <2>1. Answer(c)
        <3>1. check \in [Callers -> Checks] /\ check[c].step = "answering" /\ check'[c].step = "idle"
            BY DEF ListInv, ListTyped, ReadShape, Told
        <3>2. ~(\E c1 \in Callers, e1 \in Entries : MayContact(c1, e1))
            BY <3>1 DEF MayContact
        <3>3. ASSUME NEW more, Goon(more) PROVE FALSE
            <4>1. \A c1 \in Callers : check[c1] \in Checks
                BY <3>1
            <4>2. [check[c] EXCEPT !.step = "after"].step = "after"
                BY <4>1 DEF Checks
            <4>3. CASE UNCHANGED check
                BY <3>1, <4>3
            <4>4. CASE check' = [c1 \in Callers |->
                                    IF c1 = reader.who THEN [check[c1] EXCEPT !.step = "after"] ELSE check[c1]]
                BY <3>1, <4>2, <4>4
            <4> QED BY <3>3, <4>3, <4>4 DEF Goon
        <3>4. ~Round
            BY <3>3 DEF Round, TakeSalt, ApplyPage, NoList, Fails
        <3>5. ASSUME NEW c1 \in Callers, GoesOn(c1) PROVE c1 = c /\ Answer(c1)
            BY <3>1, <3>5 DEF GoesOn, WaitEnds, After, Answer
        <3> QED BY <3>1, <3>2, <3>4, <3>5 DEF ListNext, Change, Turnover, Toggle, Age, Asks, list_vars
    <2>2. cursor.log = logs /\ copy[e] = salt /\ ~absent /\ readAt # "never"
        BY DEF ListInv, SureHolds
    <2>3. known = salt /\ known # 0
        BY <2>2 DEF ListInv, CopyFollows, ListTyped, ListShape
    <2>4. ~Goes(e)
        BY <2>2, <2>3 DEF Goes
    <2>5. check'[c] = [Idle EXCEPT !.answer = "wait"]
        BY <2>1, <2>4 DEF Answer, ListInv, ListTyped, ReadShape
    <2> QED BY <2>5 DEF Idle
<1> QED BY <1>1, ListInvariant, PTL DEF ListSpec, OptOutHolds

=============================================================================
