-------------------------- MODULE TransportProofs --------------------------
(***************************************************************************)
(* The time a request takes, and what an outage costs, for any callers,    *)
(* requests, budgets, answers and number of threads.                       *)
(***************************************************************************)
EXTENDS Transport, FiniteSetTheorems, TLAPS

Calls ==
    [step : {"idle", "send", "sending", "over", "moved", "sleeping"}, request : DOMAIN Budget \cup {"none"},
     tries : Nat, extra : Nat, left : Nat, timer : Int, took : Nat]

\* The shapes of the calls and of the clocks of Warmth.
Typed ==
    /\ call \in [Callers -> Calls]
    /\ \A c \in Callers : call[c].step # "idle" => call[c].request \in DOMAIN Budget
    /\ granted \in Never .. Allowance + 1 /\ spent \in Never .. Allowance + 1

\* The account of a call's time: what it took and what is left are its budget and what Warmth added, which a
\* ceiling forbids, and nothing it waits for lasts longer than what is left.
OnTime(x) ==
    /\ x.step # "idle" /\ Budget[x.request] # 0 =>
        /\ x.took + x.left = Budget[x.request] + x.extra
        /\ x.extra <= (IF x.request \in Voice THEN 0 ELSE Allowance)
        /\ x.step \in {"sending", "sleeping"} => x.timer <= x.left
    /\ x.step = "idle" => x.extra = 0

AllOnTime == \A c \in Callers : OnTime(call[c])

\* Calls may get the allowance although it was spent: Warmth has forgotten the window that counts, or there is none.
MayCost == granted = Never \/ spent = Never \/ granted < spent

\* The windows of an outage, the one that may still come included, are one and one for each new client.
Costs == windows \in Nat /\ renewals \in Nat /\ windows + (IF MayCost THEN 1 ELSE 0) <= 1 + renewals

Inv == Typed /\ AllOnTime /\ Costs

-----------------------------------------------------------------------------
(* The calls *)

\* A record of a call is one with its fields, and the fields of the two that are over.
LEMMA Fields ==
    /\ NoCall \in Calls /\ Over \in Calls /\ NoCall.step = "idle" /\ Over.step = "idle"
    /\ OnTime(NoCall) /\ OnTime(Over)
BY DEF NoCall, Over, Calls, OnTime

\* Budgets and timeouts are numbers.
LEMMA Numbers ==
    /\ Allowance \in Nat /\ MaxDelay \in Nat /\ MaxRetryAfter \in Nat
    /\ \A request \in DOMAIN Budget : Budget[request] \in Nat /\ Timeout[request] \in Nat
BY TransportAssumption DEF TransportAssumption

\* One call changes into a good one: all the calls are good.
LEMMA OneChanges ==
    ASSUME Typed, AllOnTime, NEW c \in Callers, NEW x \in Calls, x.step # "idle" => x.request \in DOMAIN Budget,
           OnTime(x), call' = [call EXCEPT ![c] = x]
    PROVE  /\ call' \in [Callers -> Calls] /\ AllOnTime'
           /\ \A k \in Callers : call'[k].step # "idle" => call'[k].request \in DOMAIN Budget
<1>1. \A k \in Callers : call'[k] = IF k = c THEN x ELSE call[k]
    BY DEF Typed
<1> QED BY <1>1 DEF Typed, AllOnTime, OnTime

\* What a call that goes on may become: the next step with a timer within what is left.
LEMMA GoesOn ==
    ASSUME Typed, AllOnTime, NEW c \in Callers, call[c].step # "idle",
           NEW next \in {"send", "sending", "over", "moved", "sleeping"}, NEW timer \in Int, NEW tries \in Nat,
           next \in {"sending", "sleeping"} /\ Budgeted(c) => timer <= call[c].left,
           call' = [call EXCEPT ![c].step = next, ![c].timer = timer, ![c].tries = tries]
    PROVE  /\ call' \in [Callers -> Calls] /\ AllOnTime'
           /\ \A k \in Callers : call'[k].step # "idle" => call'[k].request \in DOMAIN Budget
<1> DEFINE x == [call[c] EXCEPT !.step = next, !.timer = timer, !.tries = tries]
<1>1. call[c] \in Calls /\ call[c].request \in DOMAIN Budget
    BY DEF Typed
<1>2. x \in Calls /\ x.request = call[c].request /\ x.step = next
    BY <1>1 DEF Calls
<1>3. x.took = call[c].took /\ x.left = call[c].left /\ x.extra = call[c].extra /\ x.timer = timer
    BY <1>1 DEF Calls
<1>4. OnTime(x)
    BY <1>2, <1>3 DEF AllOnTime, OnTime, Budgeted
<1>5. call' = [call EXCEPT ![c] = x]
    BY <1>1 DEF Typed, Calls
<1> HIDE DEF x
<1> QED BY <1>1, <1>2, <1>4, <1>5, OneChanges

\* The end of a call.
LEMMA EndsEffect ==
    ASSUME Typed, AllOnTime, NEW c \in Callers, Ends(c)
    PROVE  /\ call' \in [Callers -> Calls] /\ AllOnTime'
           /\ \A k \in Callers : call'[k].step # "idle" => call'[k].request \in DOMAIN Budget
BY Fields, OneChanges DEF Ends

\* A call tries again within what is left, or ends.
LEMMA AgainEffect ==
    ASSUME Typed, AllOnTime, NEW c \in Callers, call[c].step # "idle",
           NEW delay \in Nat, NEW next \in {"moved", "sleeping"}, Again(c, delay, next)
    PROVE  /\ call' \in [Callers -> Calls] /\ AllOnTime'
           /\ \A k \in Callers : call'[k].step # "idle" => call'[k].request \in DOMAIN Budget
<1>1. CASE Ends(c)
    BY <1>1, EndsEffect
<1>2. CASE ~Ends(c)
    <2>1. ~(Budgeted(c) /\ delay >= call[c].left)
        BY <1>2 DEF Again
    <2>2. call' = [call EXCEPT ![c].step = next, ![c].timer = delay]
        BY <1>2 DEF Again
    <2>3. call[c] \in Calls /\ call[c].left \in Nat /\ call[c].tries \in Nat
        BY DEF Typed, Calls
    <2>4. call' = [call EXCEPT ![c].step = next, ![c].timer = delay, ![c].tries = call[c].tries]
        BY <2>2, <2>3 DEF Typed, Calls
    <2>5. next \in {"sending", "sleeping"} /\ Budgeted(c) => delay <= call[c].left
        BY <2>1, <2>3
    <2>6. next \in {"send", "sending", "over", "moved", "sleeping"} /\ delay \in Int
        OBVIOUS
    <2>7. call[c].tries \in Nat
        BY <2>3
    <2> QED BY <2>4, <2>5, <2>6, <2>7, GoesOn, Zenon
<1> QED BY <1>1, <1>2

\* So does one that backs off.
LEMMA BacksOffEffect ==
    ASSUME Typed, AllOnTime, NEW c \in Callers, call[c].step # "idle", BacksOff(c)
    PROVE  /\ call' \in [Callers -> Calls] /\ AllOnTime'
           /\ \A k \in Callers : call'[k].step # "idle" => call'[k].request \in DOMAIN Budget
<1>1. PICK delay \in Backoff(c) : Again(c, delay, "sleeping")
    BY DEF BacksOff
<1>2. delay \in Nat
    BY Numbers DEF Backoff
<1> QED BY <1>1, <1>2, AgainEffect

-----------------------------------------------------------------------------
(* The steps *)

Kept ==
    /\ call' \in [Callers -> Calls] /\ AllOnTime'
    /\ \A k \in Callers : call'[k].step # "idle" => call'[k].request \in DOMAIN Budget

\* A request begins with its budget and what Warmth adds.
LEMMA BeginKeeps ==
    ASSUME Inv, NEW c \in Callers, Begin(c)
    PROVE  /\ Kept /\ Costs'
           /\ granted' \in Never .. Allowance + 1 /\ spent' \in Never .. Allowance + 1
<1> DEFINE extra(request) == IF Budget[request] # 0 THEN Extra(request) ELSE 0
           x(request) == [step |-> "send", request |-> request, tries |-> 0, extra |-> extra(request),
                          left |-> Budget[request] + extra(request), timer |-> 0, took |-> 0]
<1>1. PICK request \in Makes[c] :
        /\ call' = [call EXCEPT ![c] = x(request)]
        /\ LET anew == extra(request) > 0 /\ spent \notin 0 .. Allowance
           IN  spent' = (IF anew THEN 0 ELSE spent) /\ windows' = (IF anew THEN windows + 1 ELSE windows)
        /\ renewals' = renewals
        /\ IF Budget[request] # 0 THEN Grant /\ inFlight' = inFlight + 1 ELSE UNCHANGED <<granted, inFlight>>
    BY DEF Begin
<1>2. request \in DOMAIN Budget /\ Budget[request] \in Nat
    BY Numbers, TransportAssumption DEF TransportAssumption
<1>3. /\ extra(request) \in {0, Allowance}
      /\ request \in Voice => extra(request) = 0
      /\ extra(request) > 0 => Cold /\ granted <= Allowance /\ Budget[request] # 0
    BY Numbers DEF Extra
<1>4. extra(request) \in Nat
    BY <1>3, Numbers
<1> HIDE DEF extra
<1>5. /\ x(request) \in Calls /\ x(request).request = request /\ x(request).step = "send"
      /\ x(request).extra = extra(request) /\ x(request).left = Budget[request] + extra(request)
      /\ x(request).took = 0
    BY <1>2, <1>4 DEF Calls
<1> HIDE DEF x
<1>6. OnTime(x(request))
    BY <1>2, <1>3, <1>4, <1>5, Numbers DEF OnTime
<1>7. Kept
    BY <1>1, <1>2, <1>5, <1>6, OneChanges DEF Inv, Kept
<1>8. granted' = granted \/ (granted = Never /\ granted' = 0)
    BY <1>1 DEF Grant
<1>9. extra(request) > 0 => granted' = IF granted = Never THEN 0 ELSE granted
    BY <1>1, <1>3 DEF Grant
<1>10. /\ granted \in Int /\ spent \in Int /\ Never <= granted /\ Never <= spent
       /\ granted <= Allowance + 1 /\ spent <= Allowance + 1
    BY Numbers DEF Inv, Typed, Never
<1>11. CASE extra(request) > 0 /\ spent \notin 0 .. Allowance
    <2>1. spent' = 0 /\ windows' = windows + 1 /\ renewals' = renewals
        BY <1>1, <1>11
    <2>2. MayCost
        BY <1>3, <1>10, <1>11, Numbers DEF MayCost, Never
    <2>3. granted' \in Nat /\ granted' <= Allowance + 1
        BY <1>9, <1>10, <1>11, Numbers DEF Never
    <2>4. ~MayCost'
        BY <2>1, <2>3 DEF MayCost, Never
    <2>5. Costs'
        BY <2>1, <2>2, <2>4 DEF Inv, Costs
    <2> QED BY <1>7, <2>1, <2>3, <2>5, Numbers DEF Never
<1>12. CASE ~(extra(request) > 0 /\ spent \notin 0 .. Allowance)
    <2>1. spent' = spent /\ windows' = windows /\ renewals' = renewals
        BY <1>1, <1>12
    <2>2. MayCost' => MayCost
        BY <1>8, <2>1 DEF MayCost
    <2>3. Costs'
        BY <2>1, <2>2 DEF Inv, Costs
    <2> QED BY <1>7, <1>8, <1>10, <2>1, <2>3, Numbers DEF Never
<1> QED BY <1>11, <1>12

\* Nothing that is waited for lasts when a tick goes by with nothing left.
LEMMA TickKeeps ==
    ASSUME Inv, Tick
    PROVE  /\ Kept /\ Costs'
           /\ granted' \in Never .. Allowance + 1 /\ spent' \in Never .. Allowance + 1
<1> DEFINE x(c) == IF call[c].step = "idle" THEN NoCall
                   ELSE [call[c] EXCEPT !.left = Down(@), !.timer = Down(@),
                                        !.took = Least(@ + 1, (IF Budgeted(c) THEN Limit(c) ELSE Patience) + 1)]
<1>1. call' = [c \in Callers |-> x(c)]
    BY DEF Tick
<1>2. ASSUME NEW c \in Callers
      PROVE  /\ x(c) \in Calls /\ OnTime(x(c))
             /\ x(c).step # "idle" => x(c).request \in DOMAIN Budget
    <2>1. CASE call[c].step = "idle"
        BY <2>1, Fields
    <2>2. CASE call[c].step # "idle"
        <3> DEFINE most == (IF Budgeted(c) THEN Limit(c) ELSE Patience) + 1
                   y == [call[c] EXCEPT !.left = Down(@), !.timer = Down(@), !.took = Least(@ + 1, most)]
        <3>1. x(c) = y
            BY <2>2
        <3>2. call[c] \in Calls /\ call[c].request \in DOMAIN Budget
            BY <2>2 DEF Inv, Typed
        <3>3. Budget[call[c].request] \in Nat /\ Allowance \in Nat /\ Patience \in Nat
            BY <3>2, Numbers, TransportAssumption DEF TransportAssumption
        <3>4. most \in Nat /\ (Budgeted(c) => most = Limit(c) + 1)
            BY <3>3 DEF Limit
        <3>5. call[c].took \in Nat /\ call[c].left \in Nat /\ call[c].timer \in Int /\ call[c].extra \in Nat
            BY <3>2 DEF Calls
        <3> HIDE DEF most
        <3>6. Least(call[c].took + 1, most) \in Nat /\ Down(call[c].left) \in Nat /\ Down(call[c].timer) \in Int
            BY <3>4, <3>5 DEF Least, Down
        <3>7. /\ y \in Calls /\ y.step = call[c].step /\ y.request = call[c].request /\ y.extra = call[c].extra
              /\ y.left = Down(call[c].left) /\ y.timer = Down(call[c].timer)
              /\ y.took = Least(call[c].took + 1, most)
            BY <3>2, <3>6 DEF Calls
        <3> HIDE DEF y
        <3>8. OnTime(y)
            <4> SUFFICES ASSUME Budgeted(c) PROVE OnTime(y)
                BY <2>2, <3>7 DEF OnTime, Budgeted
            <4>1. /\ call[c].took + call[c].left = Budget[call[c].request] + call[c].extra
                  /\ call[c].extra <= (IF call[c].request \in Voice THEN 0 ELSE Allowance)
                  /\ call[c].step \in {"sending", "sleeping"} => call[c].timer <= call[c].left
                BY <2>2 DEF Inv, AllOnTime, OnTime, Budgeted
            <4>2. call[c].step \in {"sending", "sleeping"} /\ call[c].timer > 0
                BY <2>2 DEF Tick, Waiting
            <4>3. call[c].took + 1 <= Limit(c)
                BY <3>3, <3>5, <4>1, <4>2 DEF Limit
            <4>4. y.took = call[c].took + 1 /\ y.left = call[c].left - 1 /\ y.timer = call[c].timer - 1
                BY <3>3, <3>4, <3>5, <3>7, <4>1, <4>2, <4>3 DEF Least, Down, Limit
            <4> QED BY <2>2, <3>3, <3>5, <3>7, <4>1, <4>2, <4>4 DEF OnTime
        <3> QED BY <3>1, <3>2, <3>7, <3>8
    <2> QED BY <2>1, <2>2
<1>3. Kept
    <2>1. \A c \in Callers : call'[c] = x(c)
        BY <1>1
    <2>2. \A c \in Callers : x(c) \in Calls /\ OnTime(x(c))
                            /\ (x(c).step # "idle" => x(c).request \in DOMAIN Budget)
        BY <1>2
    <2> HIDE DEF x
    <2>3. call' \in [Callers -> Calls]
        BY <1>1, <2>2
    <2>4. AllOnTime'
        BY <2>1, <2>2 DEF AllOnTime, OnTime
    <2> QED BY <2>1, <2>2, <2>3, <2>4 DEF Kept
<1>4. granted' = Later(granted) /\ spent' = Later(spent)
    BY DEF Tick
<1>5. granted \in Int /\ spent \in Int /\ Never <= granted /\ Never <= spent /\ Allowance \in Nat
    BY Numbers DEF Inv, Typed, Never
<1>6. /\ granted' \in Never .. Allowance + 1 /\ spent' \in Never .. Allowance + 1
      /\ MayCost' => MayCost
    BY <1>4, <1>5 DEF Inv, Typed, MayCost, Later, Least, Never
<1>7. windows' = windows /\ renewals' = renewals
    BY DEF Tick
<1>8. Costs'
    BY <1>6, <1>7 DEF Inv, Costs
<1> QED BY <1>3, <1>6, <1>8

\* An attempt goes out with a timer within what is left.
LEMMA SendKeeps ==
    ASSUME Inv, NEW c \in Callers, Send(c)
    PROVE  Kept
<1>1. CASE Ends(c)
    BY <1>1, EndsEffect DEF Inv, Kept
<1>2. CASE ~Ends(c)
    <2> DEFINE timer == IF Budgeted(c) THEN AttemptTimeout(c) ELSE 0
    <2>1. call' = [call EXCEPT ![c].step = "sending", ![c].tries = @ + 1, ![c].timer = timer]
        BY <1>2 DEF Send
    <2>2. call[c].step = "send" /\ call[c] \in Calls /\ call[c].request \in DOMAIN Budget
        BY DEF Send, Inv, Typed
    <2>3. call[c].extra \in Nat /\ call[c].left \in Nat /\ call[c].tries \in Nat /\ Timeout[call[c].request] \in Nat
        BY <2>2, Numbers DEF Calls
    <2>4. timer \in Int /\ (Budgeted(c) => timer <= call[c].left)
        BY <2>3 DEF AttemptTimeout, Least
    <2> HIDE DEF timer
    <2>5. call' = [call EXCEPT ![c].step = "sending", ![c].timer = timer, ![c].tries = call[c].tries + 1]
        BY <2>1, <2>2 DEF Inv, Typed, Calls
    <2>6. call[c].tries + 1 \in Nat /\ call[c].step # "idle" /\ Typed /\ AllOnTime
        BY <2>2, <2>3 DEF Inv
    <2>7. "sending" \in {"send", "sending", "over", "moved", "sleeping"} /\ timer \in Int
        BY <2>4
    <2>8. "sending" \in {"sending", "sleeping"} /\ Budgeted(c) => timer <= call[c].left
        BY <2>4
    <2> QED BY <2>5, <2>6, <2>7, <2>8, GoesOn, Zenon DEF Kept
<1> QED BY <1>1, <1>2

\* A step that changes nothing of a call but where it stands.
LEMMA MovesOn ==
    ASSUME Inv, NEW c \in Callers, call[c].step # "idle", NEW next \in {"send", "over"},
           call' = [call EXCEPT ![c].step = next]
    PROVE  Kept
<1> DEFINE timer == call[c].timer
           tries == call[c].tries
<1>1. call[c] \in Calls /\ timer \in Int /\ tries \in Nat
    BY DEF Inv, Typed, Calls
<1>2. call' = [call EXCEPT ![c].step = next, ![c].timer = timer, ![c].tries = tries]
    BY <1>1 DEF Inv, Typed, Calls
<1>3. next \in {"send", "sending", "over", "moved", "sleeping"} /\ Typed /\ AllOnTime
    BY DEF Inv
<1>4. next \in {"sending", "sleeping"} /\ Budgeted(c) => timer <= call[c].left
    OBVIOUS
<1>5. timer \in Int /\ tries \in Nat
    BY <1>1
<1> HIDE DEF timer, tries
<1> QED BY <1>2, <1>3, <1>4, <1>5, GoesOn, ZenonT(30) DEF Kept

\* The queued attempts of a pool that is shut down end their calls.
LEMMA ClosePoolKeeps ==
    ASSUME Inv, ClosePool
    PROVE  Kept
<1>1. PICK ended \in SUBSET Callers : call' = [c \in Callers |-> IF c \in ended THEN Over ELSE call[c]]
    BY DEF ClosePool
<1>2. \A c \in Callers : call'[c] = IF c \in ended THEN Over ELSE call[c]
    BY <1>1
<1>3. call' \in [Callers -> Calls]
    BY <1>1, Fields DEF Inv, Typed
<1>4. AllOnTime'
    BY <1>2, Fields DEF Inv, AllOnTime, OnTime
<1> QED BY <1>2, <1>3, <1>4, Fields DEF Inv, Typed, Kept

\* What an answer and a new client change of the account of the allowance; nothing else touches it.
AnsweredWarmth == granted' = Never /\ spent' = Never /\ windows' = 0 /\ renewals' = 0
RenewedWarmth == granted' = Never /\ renewals' = renewals + 1 /\ UNCHANGED <<spent, windows>>

LEMMA WarmthKept ==
    ASSUME Inv, UNCHANGED <<granted, outage>> \/ AnsweredWarmth \/ RenewedWarmth
    PROVE  /\ Costs'
           /\ granted' \in Never .. Allowance + 1 /\ spent' \in Never .. Allowance + 1
<1>1. Allowance \in Nat /\ Never \in Never .. Allowance + 1
    BY Numbers DEF Never
<1>2. CASE UNCHANGED <<granted, outage>>
    BY <1>2 DEF outage, Inv, Typed, Costs, MayCost
<1>3. CASE AnsweredWarmth
    <2>1. windows' + 1 <= 1 + renewals'
        BY <1>3 DEF AnsweredWarmth
    <2> QED BY <1>1, <1>3, <2>1 DEF AnsweredWarmth, Costs
<1>4. CASE RenewedWarmth
    <2>1. windows \in Nat /\ renewals \in Nat /\ windows <= 1 + renewals
        BY DEF Inv, Costs
    <2>2. windows' + 1 <= 1 + renewals' /\ windows' \in Nat /\ renewals' \in Nat
        BY <1>4, <2>1 DEF RenewedWarmth
    <2> QED BY <1>1, <1>4, <2>2 DEF RenewedWarmth, Inv, Typed, Costs
<1> QED BY <1>2, <1>3, <1>4

\* Every step keeps the invariant.
LEMMA InvNext == Inv /\ [Next]_vars => Inv'
<1> SUFFICES ASSUME Inv, [Next]_vars PROVE Inv'
    OBVIOUS
<1>1. ASSUME UNCHANGED call PROVE Kept
    BY <1>1 DEF Inv, Typed, AllOnTime, OnTime, Kept
<1>2. ASSUME Kept, UNCHANGED <<granted, outage>> \/ AnsweredWarmth \/ RenewedWarmth
      PROVE  Inv'
    BY <1>2, WarmthKept DEF Inv, Typed, Kept
<1>3. ASSUME Kept, Costs', granted' \in Never .. Allowance + 1, spent' \in Never .. Allowance + 1
      PROVE  Inv'
    BY <1>3 DEF Inv, Typed, Kept
<1>4. CASE UNCHANGED vars
    BY <1>1, <1>2, <1>4 DEF vars, calls, warmth
<1>5. CASE Tick
    BY <1>3, <1>5, TickKeeps
<1>6. CASE ClosePool
    BY <1>2, <1>6, ClosePoolKeeps DEF ClosePool
<1>7. CASE CloseClients \/ IdleCloses \/ \E which \in {"current", "retired"} : StrayEnds(which)
    BY <1>1, <1>2, <1>7 DEF CloseClients, IdleCloses, StrayEnds, calls, warmth
<1>8. ASSUME NEW c \in Callers, Begin(c) PROVE Inv'
    BY <1>3, <1>8, BeginKeeps
<1>9. ASSUME NEW c \in Callers, Send(c) PROVE Inv'
    BY <1>2, <1>9, SendKeeps DEF Send
<1>10. ASSUME NEW c \in Callers, Run(c) PROVE Inv'
    <2>1. UNCHANGED <<granted, outage>> /\ (Ends(c) \/ UNCHANGED call)
        BY <1>10 DEF Run
    <2>2. CASE Ends(c)
        BY <1>2, <2>1, <2>2, EndsEffect DEF Inv, Kept
    <2>3. CASE UNCHANGED call
        BY <1>1, <1>2, <2>1, <2>3
    <2> QED BY <2>1, <2>2, <2>3
<1>11. ASSUME NEW c \in Callers, Overrun(c) PROVE Inv'
    BY <1>2, <1>11, MovesOn DEF Overrun, warmth
<1>12. ASSUME NEW c \in Callers, Cancel(c) PROVE Inv'
    BY <1>2, <1>12, BacksOffEffect DEF Cancel, Inv, Kept
<1>13. ASSUME NEW c \in Callers, Wakes(c) PROVE Inv'
    BY <1>2, <1>13, MovesOn DEF Wakes, warmth
<1>14. ASSUME NEW c \in Callers, Reconnect(c) PROVE Inv'
    <2>1. Kept
        BY <1>14, MovesOn DEF Reconnect
    <2>2. UNCHANGED <<granted, outage>> \/ RenewedWarmth
        BY <1>14 DEF Reconnect, Renewed, RenewedWarmth
    <2> QED BY <1>2, <2>1, <2>2
<1>15. ASSUME NEW c \in Callers, NEW status \in Statuses, Answer(c, status) PROVE Inv'
    <2>1. AnsweredWarmth /\ call[c].step # "idle"
        BY <1>15 DEF Answer, Answered, AnsweredWarmth
    <2>2. CASE Ends(c)
        BY <1>2, <2>1, <2>2, EndsEffect DEF Inv, Kept
    <2>3. CASE BacksOff(c)
        BY <1>2, <2>1, <2>3, BacksOffEffect DEF Inv, Kept
    <2>4. CASE Again(c, 0, "moved")
        BY <1>2, <2>1, <2>4, AgainEffect DEF Inv, Kept
    <2>5. CASE \E delay \in 0 .. MaxRetryAfter : Again(c, delay, "sleeping")
        <3>1. PICK delay \in 0 .. MaxRetryAfter : Again(c, delay, "sleeping")
            BY <2>5
        <3>2. delay \in Nat
            BY Numbers
        <3> QED BY <1>2, <2>1, <3>1, <3>2, AgainEffect DEF Inv, Kept
    <2> QED BY <1>15, <2>2, <2>3, <2>4, <2>5 DEF Answer
<1>16. ASSUME NEW c \in Callers, Hangs(c) PROVE Inv'
    BY <1>1, <1>2, <1>16 DEF Hangs, warmth
<1>17. ASSUME NEW c \in Callers, Fails(c) PROVE Inv'
    BY <1>2, <1>17, BacksOffEffect DEF Fails, Inv, Kept
<1> QED
    BY <1>4, <1>5, <1>6, <1>7, <1>8, <1>9, <1>10, <1>11, <1>12, <1>13, <1>14, <1>15, <1>16, <1>17
    DEF Next, Computes

\* It holds before anything is asked.
LEMMA InvInit == Init => Inv
<1> SUFFICES ASSUME Init PROVE Inv
    OBVIOUS
<1>1. call = [c \in Callers |-> NoCall] /\ granted = Never /\ spent = Never
      /\ windows = 0 /\ renewals = 0
    BY DEF Init
<1>2. \A c \in Callers : call[c] = NoCall
    BY <1>1
<1>3. call \in [Callers -> Calls]
    BY <1>1, Fields
<1>4. AllOnTime
    BY <1>2, Fields DEF AllOnTime, OnTime
<1>5. Costs
    BY <1>1 DEF Costs
<1> QED BY <1>1, <1>2, <1>3, <1>4, <1>5, Fields, Numbers DEF Inv, Typed, Never

LEMMA Invariant == Spec => []Inv
<1> QED BY InvInit, InvNext, PTL DEF Spec

-----------------------------------------------------------------------------
(* The theorems *)

\* No request with a budget takes longer than its budget and, when Warmth may add it, the allowance: whatever is
\* sent again, hangs, waits for a thread or a backoff, however many callers there are (_attempts, _bounded).
THEOREM InTimeAlways == Spec => []InTime
<1>1. Inv => InTime
    <2> SUFFICES ASSUME Inv, NEW c \in Callers, call[c].step # "idle", Budgeted(c)
                 PROVE  call[c].took <= Limit(c)
        BY DEF InTime
    <2>1. call[c] \in Calls /\ call[c].request \in DOMAIN Budget
        BY DEF Inv, Typed
    <2>2. call[c].took \in Nat /\ call[c].left \in Nat /\ call[c].extra \in Nat
        BY <2>1 DEF Calls
    <2>3. Budget[call[c].request] \in Nat /\ Allowance \in Nat
        BY <2>1, Numbers
    <2>4. /\ call[c].took + call[c].left = Budget[call[c].request] + call[c].extra
          /\ call[c].extra <= (IF call[c].request \in Voice THEN 0 ELSE Allowance)
        BY DEF Inv, AllOnTime, OnTime, Budgeted
    <2> QED BY <2>2, <2>3, <2>4 DEF Limit
<1> QED BY <1>1, Invariant, PTL

\* Between two answers the calls that get the allowance begin within the time of the first that got it, and for
\* each client that was renewed since, even while calls wait with the allowance, at most once more: however many
\* callers meet the outage, and whatever is retried, hangs or is closed (Warmth.begin, answered, forget).
THEOREM AnOutageCostsOnce == Spec => []OncePerOutage
<1>1. Inv => OncePerOutage
    <2> SUFFICES ASSUME Inv PROVE windows <= 1 + renewals
        BY DEF OncePerOutage
    <2>1. windows \in Nat /\ renewals \in Nat
        BY DEF Inv, Costs
    <2> QED BY <2>1 DEF Inv, Costs
<1> QED BY <1>1, Invariant, PTL

-----------------------------------------------------------------------------
(* The shapes of the whole state *)

Attempts == [job : {"none", "queued", "running", "hung"}, need : Nat, on : {"current", "retired"}]

\* A call and its attempt belong together: an attempt is made for a call that waits for it or has just given it up,
\* a call that will make another one has one left, and only one with a budget is queued for a thread.
Linked(c, x, a) ==
    /\ x.step # "idle" => x.request \in Makes[c] /\ x.tries \in 0 .. MaxAttempts[x.request]
    /\ x.step \in {"send", "moved", "sleeping"} => x.tries < MaxAttempts[x.request]
    /\ x.extra \in {0, Allowance} /\ x.timer \in Nat
    /\ a.job # "none" => x.step \in {"sending", "over"}
    /\ x.step = "sending" => a.job # "none"
    /\ a.job = "queued" => Budget[x.request] # 0

Links == attempt \in [Callers -> Attempts] /\ \A c \in Callers : Linked(c, call[c], attempt[c])

UnderWay(x) == x.step # "idle" /\ Budget[x.request] # 0
Asking == {c \in Callers : UnderWay(call[c])}

\* Warmth counts the calls with a budget; there are finitely many, however many callers.
Count == IsFiniteSet(Asking) /\ inFlight = Cardinality(Asking)

Rest ==
    /\ stray \in [current : Nat, retired : Nat] /\ idle \in Nat
    /\ closing \in {"open", "pool", "closed"} /\ leaked \in BOOLEAN

Whole == Inv /\ Links /\ Count /\ Rest

LEMMA NoAttemptShape == NoAttempt \in Attempts /\ NoAttempt.job = "none"
BY DEF NoAttempt, Attempts

\* A call that is over is linked to no attempt.
LEMMA NothingLinked ==
    ASSUME NEW c \in Callers
    PROVE  Linked(c, NoCall, NoAttempt) /\ Linked(c, Over, NoAttempt) /\ ~UnderWay(NoCall) /\ ~UnderWay(Over)
BY NoAttemptShape DEF Linked, UnderWay, NoCall, Over

\* One call and its attempt change and stay linked.
LEMMA LinksOne ==
    ASSUME Inv, Links, NEW c \in Callers, NEW x, NEW a \in Attempts, Linked(c, x, a),
           call' = [call EXCEPT ![c] = x], attempt' = [attempt EXCEPT ![c] = a]
    PROVE  Links'
<1>1. \A k \in Callers : call'[k] = (IF k = c THEN x ELSE call[k]) /\ attempt'[k] = (IF k = c THEN a ELSE attempt[k])
    BY DEF Inv, Typed, Links
<1>2. attempt' \in [Callers -> Attempts]
    BY DEF Links
<1>3. \A k \in Callers : Linked(k, call'[k], attempt'[k])
    BY <1>1 DEF Links
<1> QED BY <1>2, <1>3 DEF Links, Linked

\* A call that stays under way, or stays out of the count, changes nothing of it.
LEMMA CountSame ==
    ASSUME Inv, Count, NEW c \in Callers, NEW x, call' = [call EXCEPT ![c] = x], UnderWay(x) <=> UnderWay(call[c]),
           inFlight' = inFlight
    PROVE  Count'
<1>1. \A k \in Callers : call'[k] = IF k = c THEN x ELSE call[k]
    BY DEF Inv, Typed
<1>2. \A k \in Callers : UnderWay(call'[k]) <=> UnderWay(call[k])
    BY <1>1
<1>3. Asking' = Asking
    BY <1>2 DEF Asking, UnderWay
<1> QED BY <1>3 DEF Count

\* The end of a call takes it out of the count.
LEMMA EndsCount ==
    ASSUME Inv, Count, NEW c \in Callers, call[c].step # "idle", Ends(c)
    PROVE  Count'
<1>1. \A k \in Callers : call'[k] = IF k = c THEN Over ELSE call[k]
    BY DEF Inv, Typed, Ends
<1>2. \A k \in Callers : UnderWay(call'[k]) <=> k # c /\ UnderWay(call[k])
    BY <1>1, Fields DEF UnderWay
<1>3. Asking' = Asking \ {c}
    BY <1>2 DEF Asking, UnderWay
<1>4. c \in Asking <=> Budgeted(c)
    BY DEF Asking, UnderWay, Budgeted
<1>5. IsFiniteSet(Asking') /\ Cardinality(Asking') = IF c \in Asking THEN Cardinality(Asking) - 1 ELSE Cardinality(Asking)
    BY <1>3, FS_RemoveElement DEF Count
<1> QED BY <1>4, <1>5 DEF Count, Ends

\* A call ends and its attempt with it.
LEMMA EndsLinks ==
    ASSUME Whole, NEW c \in Callers, call[c].step # "idle", Ends(c), attempt' = [attempt EXCEPT ![c] = NoAttempt]
    PROVE  Links' /\ Count'
<1>1. Links'
    BY LinksOne, NothingLinked, NoAttemptShape DEF Whole, Ends
<1> QED BY <1>1, EndsCount DEF Whole

\* The next step of a call that goes on: it keeps its request and what Warmth added.
LEMMA GoesOnLinks ==
    ASSUME Whole, NEW c \in Callers, call[c].step # "idle",
           NEW next \in {"send", "sending", "over", "moved", "sleeping"}, NEW timer \in Nat, NEW tries \in Nat,
           call' = [call EXCEPT ![c].step = next, ![c].timer = timer, ![c].tries = tries],
           tries <= MaxAttempts[call[c].request],
           next \in {"send", "moved", "sleeping"} => tries < MaxAttempts[call[c].request],
           NEW a \in Attempts, attempt' = [attempt EXCEPT ![c] = a],
           a.job # "none" <=> next \in {"sending", "over"} /\ a.job # "none",
           next = "sending" => a.job # "none", a.job = "queued" => Budgeted(c), inFlight' = inFlight
    PROVE  Links' /\ Count'
<1> DEFINE x == [call[c] EXCEPT !.step = next, !.timer = timer, !.tries = tries]
<1>1. call[c] \in Calls /\ call[c].request \in DOMAIN Budget
    BY DEF Whole, Inv, Typed
<1>2. /\ x.request = call[c].request /\ x.step = next /\ x.timer = timer /\ x.tries = tries
      /\ x.extra = call[c].extra
    BY <1>1 DEF Calls
<1>3. call' = [call EXCEPT ![c] = x]
    BY <1>1 DEF Whole, Inv, Typed, Calls
<1> HIDE DEF x
<1>4. Linked(c, call[c], attempt[c]) /\ MaxAttempts[call[c].request] \in Nat
    BY <1>1, TransportAssumption DEF Whole, Links, TransportAssumption
<1>5. Linked(c, x, a)
    BY <1>2, <1>4 DEF Linked, Budgeted
<1>6. Links'
    BY <1>3, <1>5, LinksOne DEF Whole
<1>7. UnderWay(x) <=> UnderWay(call[c])
    BY <1>2 DEF UnderWay
<1>8. Count'
    BY <1>3, <1>7, CountSame DEF Whole
<1> QED BY <1>6, <1>8

\* An attempt is over: the call tries again or ends.
LEMMA AgainLinks ==
    ASSUME Whole, NEW c \in Callers, call[c].step \in {"sending", "over"}, NEW delay \in Nat,
           NEW next \in {"moved", "sleeping"}, Again(c, delay, next), attempt' = [attempt EXCEPT ![c] = NoAttempt]
    PROVE  Links' /\ Count'
<1>1. CASE Ends(c)
    BY <1>1, EndsLinks
<1>2. CASE ~Ends(c)
    <2>1. call' = [call EXCEPT ![c].step = next, ![c].timer = delay] /\ inFlight' = inFlight
        BY <1>2 DEF Again
    <2>2. call[c] \in Calls /\ call[c].tries \in Nat /\ call[c].request \in DOMAIN Budget
        BY DEF Whole, Inv, Typed, Calls
    <2>3. call' = [call EXCEPT ![c].step = next, ![c].timer = delay, ![c].tries = call[c].tries]
        BY <2>1, <2>2 DEF Whole, Inv, Typed, Calls
    <2>4. MaxAttempts[call[c].request] \in Nat
        BY <2>2, TransportAssumption DEF TransportAssumption
    <2>5. call[c].tries < MaxAttempts[call[c].request]
        BY <1>2, <2>2, <2>4 DEF Again
    <2>6. /\ call[c].tries <= MaxAttempts[call[c].request]
          /\ next \in {"send", "moved", "sleeping"} => call[c].tries < MaxAttempts[call[c].request]
          /\ next \in {"send", "sending", "over", "moved", "sleeping"} /\ next # "sending"
        BY <2>2, <2>4, <2>5
    <2>7. call[c].tries \in Nat /\ call[c].step # "idle" /\ NoAttempt.job # "queued" /\ NoAttempt \in Attempts
        BY <2>2, NoAttemptShape
    <2> QED BY <2>1, <2>3, <2>6, <2>7, NoAttemptShape, GoesOnLinks, ZenonT(30)
<1> QED BY <1>1, <1>2

\* So it does when it backs off.
LEMMA BacksOffLinks ==
    ASSUME Whole, NEW c \in Callers, call[c].step \in {"sending", "over"}, BacksOff(c),
           attempt' = [attempt EXCEPT ![c] = NoAttempt]
    PROVE  Links' /\ Count'
<1>1. PICK delay \in Backoff(c) : Again(c, delay, "sleeping")
    BY DEF BacksOff
<1>2. delay \in Nat
    BY Numbers DEF Backoff
<1> QED BY <1>1, <1>2, AgainLinks

\* An attempt that runs has its shape, and takes no connection that is not there.
LEMMA RunsShape ==
    ASSUME NEW c \in Callers, NEW on \in {"current", "retired"}, Runs(c, on), idle \in Nat
    PROVE  /\ idle' \in Nat
           /\ \E a \in Attempts : a.job = "running" /\ attempt' = [attempt EXCEPT ![c] = a]
<1> DEFINE need == IF on = "current" /\ idle > 0 THEN 0 ELSE ConnectTime
           a == [job |-> "running", need |-> need, on |-> on]
<1>1. ConnectTime \in Nat
    BY TransportAssumption DEF TransportAssumption
<1>2. need \in Nat /\ idle' \in Nat
    BY <1>1 DEF Runs
<1>3. attempt' = [attempt EXCEPT ![c] = a]
    BY DEF Runs
<1> HIDE DEF need
<1>4. a \in Attempts /\ a.job = "running"
    BY <1>2 DEF Attempts
<1> QED BY <1>2, <1>3, <1>4

\* A request that begins is counted when it has a budget.
LEMMA BeginWhole ==
    ASSUME Whole, NEW c \in Callers, Begin(c)
    PROVE  Links' /\ Count'
<1> DEFINE extra(request) == IF Budget[request] # 0 THEN Extra(request) ELSE 0
           x(request) == [step |-> "send", request |-> request, tries |-> 0, extra |-> extra(request),
                          left |-> Budget[request] + extra(request), timer |-> 0, took |-> 0]
<1>1. PICK request \in Makes[c] :
        /\ call' = [call EXCEPT ![c] = x(request)]
        /\ IF Budget[request] # 0 THEN Grant /\ inFlight' = inFlight + 1 ELSE UNCHANGED <<granted, inFlight>>
    BY DEF Begin
<1>2. request \in DOMAIN Budget /\ MaxAttempts[request] \in Nat \ {0} /\ Budget[request] \in Nat
    BY TransportAssumption DEF TransportAssumption
<1>3. extra(request) \in {0, Allowance}
    BY DEF Extra
<1> HIDE DEF extra
<1>4. /\ x(request).step = "send" /\ x(request).request = request /\ x(request).tries = 0
      /\ x(request).extra = extra(request) /\ x(request).timer = 0
    OBVIOUS
<1> HIDE DEF x
<1>5. call[c].step = "idle" /\ attempt' = attempt /\ attempt[c] \in Attempts
    BY DEF Begin, Whole, Links
<1>6. attempt[c].job = "none"
    BY <1>5 DEF Whole, Links, Linked
<1>7. attempt' = [attempt EXCEPT ![c] = attempt[c]]
    BY <1>5 DEF Whole, Links
<1>8. Linked(c, x(request), attempt[c])
    BY <1>2, <1>3, <1>4, <1>6 DEF Linked
<1>9. Links'
    BY <1>1, <1>5, <1>7, <1>8, LinksOne DEF Whole
<1>10. \A k \in Callers : call'[k] = IF k = c THEN x(request) ELSE call[k]
    BY <1>1 DEF Whole, Inv, Typed
<1>11. CASE Budget[request] # 0
    <2>1. \A k \in Callers : UnderWay(call'[k]) <=> k = c \/ UnderWay(call[k])
        BY <1>4, <1>10, <1>11 DEF UnderWay
    <2>2. Asking' = Asking \cup {c} /\ c \notin Asking
        BY <1>5, <2>1 DEF Asking, UnderWay
    <2>3. IsFiniteSet(Asking') /\ Cardinality(Asking') = Cardinality(Asking) + 1
        BY <2>2, FS_AddElement DEF Whole, Count
    <2>4. Count'
        BY <1>1, <1>11, <2>3 DEF Whole, Count
    <2> QED BY <1>9, <2>4
<1>12. CASE Budget[request] = 0
    <2>1. ~UnderWay(x(request)) /\ ~UnderWay(call[c]) /\ inFlight' = inFlight
        BY <1>1, <1>4, <1>5, <1>12 DEF UnderWay
    <2>2. Count'
        BY <1>1, <2>1, CountSame DEF Whole
    <2> QED BY <1>9, <2>2
<1> QED BY <1>11, <1>12

\* The attempts queued at a pool that is shut down are gone, and the calls that waited for them are counted out.
LEMMA ClosePoolWhole ==
    ASSUME Whole, ClosePool
    PROVE  Links' /\ Count'
<1> DEFINE queued == {c \in Callers : attempt[c].job = "queued"}
           ended == {c \in queued : call[c].step = "sending"}
<1>1. /\ attempt' = [c \in Callers |-> IF c \in queued THEN NoAttempt ELSE attempt[c]]
      /\ call' = [c \in Callers |-> IF c \in ended THEN Over ELSE call[c]]
      /\ inFlight' = inFlight - Cardinality(ended)
    BY DEF ClosePool
<1>2. \A c \in Callers : Linked(c, call[c], attempt[c]) /\ attempt[c] \in Attempts
    BY DEF Whole, Links
<1>3. ended \in SUBSET Asking
    BY <1>2 DEF Linked, Asking, UnderWay
<1>4. ASSUME NEW c \in Callers PROVE Linked(c, call'[c], attempt'[c]) /\ attempt'[c] \in Attempts
    <2>1. CASE c \in ended
        BY <1>1, <2>1, NothingLinked, NoAttemptShape
    <2>2. CASE c \notin ended /\ c \in queued
        <3>1. call'[c] = call[c] /\ attempt'[c] = NoAttempt /\ call[c].step # "sending"
            BY <1>1, <2>2
        <3> QED BY <1>2, <3>1, NoAttemptShape DEF Linked
    <2>3. CASE c \notin queued
        BY <1>1, <1>2, <2>3
    <2> QED BY <2>1, <2>2, <2>3
<1>5. Links'
    <2>1. attempt' \in [Callers -> Attempts]
        BY <1>1, <1>4
    <2> QED BY <1>4, <2>1 DEF Links, Linked
<1>6. \A c \in Callers : call'[c] = IF c \in ended THEN Over ELSE call[c]
    BY <1>1
<1> HIDE DEF ended, queued
<1>7. \A c \in Callers : UnderWay(call'[c]) <=> UnderWay(call[c]) /\ c \notin ended
    BY <1>6, NothingLinked DEF UnderWay
<1>8. Asking' = Asking \ ended
    BY <1>7 DEF Asking, UnderWay
<1>9. Asking \cap ended = ended
    BY <1>3
<1>10. IsFiniteSet(Asking') /\ Cardinality(Asking') = Cardinality(Asking) - Cardinality(ended)
    BY <1>8, <1>9, FS_Difference DEF Whole, Count
<1>11. Count'
    BY <1>1, <1>10 DEF Whole, Count
<1> QED BY <1>5, <1>11

\* Time changes no link and no count.
LEMMA TickWhole ==
    ASSUME Whole, Tick
    PROVE  Links' /\ Count'
<1> DEFINE most(c) == (IF Budgeted(c) THEN Limit(c) ELSE Patience) + 1
           x(c) == [call[c] EXCEPT !.left = Down(@), !.timer = Down(@), !.took = Least(@ + 1, most(c))]
           a(c) == [attempt[c] EXCEPT !.need = Down(@)]
<1>1. /\ \A c \in Callers : call'[c] = IF call[c].step = "idle" THEN NoCall ELSE x(c)
      /\ attempt' = [c \in Callers |-> a(c)] /\ inFlight' = inFlight
    BY DEF Tick
<1>2. ASSUME NEW c \in Callers
      PROVE  /\ Linked(c, call'[c], attempt'[c]) /\ attempt'[c] \in Attempts
             /\ UnderWay(call'[c]) <=> UnderWay(call[c])
    <2>1. call[c] \in Calls /\ attempt[c] \in Attempts /\ Linked(c, call[c], attempt[c])
        BY DEF Whole, Inv, Typed, Links
    <2>2. attempt[c].need \in Nat /\ Down(attempt[c].need) \in Nat
        BY <2>1 DEF Attempts, Down
    <2>3. a(c) \in Attempts /\ a(c).job = attempt[c].job
        BY <2>1, <2>2 DEF Attempts
    <2>4. attempt'[c] = a(c)
        BY <1>1
    <2> HIDE DEF a
    <2>5. CASE call[c].step = "idle"
        <3>1. call'[c] = NoCall /\ attempt'[c].job = "none"
            BY <1>1, <2>1, <2>3, <2>4, <2>5 DEF Linked
        <3> QED BY <2>3, <2>4, <2>5, <3>1, NothingLinked, NoAttemptShape DEF Linked, UnderWay
    <2>6. CASE call[c].step # "idle"
        <3>1. call'[c] = x(c)
            BY <1>1, <2>6
        <3> HIDE DEF most
        <3>2. /\ x(c).step = call[c].step /\ x(c).request = call[c].request /\ x(c).tries = call[c].tries
              /\ x(c).extra = call[c].extra /\ x(c).timer = Down(call[c].timer)
            BY <2>1 DEF Calls
        <3> HIDE DEF x
        <3>3. Down(call[c].timer) \in Nat
            BY <2>1 DEF Linked, Down
        <3>4. Linked(c, x(c), a(c))
            BY <2>1, <2>3, <3>2, <3>3 DEF Linked
        <3>5. UnderWay(x(c)) <=> UnderWay(call[c])
            BY <3>2 DEF UnderWay
        <3> QED BY <2>3, <2>4, <3>1, <3>4, <3>5
    <2> QED BY <2>5, <2>6
<1>3. Links'
    <2> HIDE DEF a
    <2>1. attempt' \in [Callers -> Attempts]
        BY <1>1, <1>2
    <2> QED BY <1>2, <2>1 DEF Links, Linked
<1>4. Asking' = Asking
    BY <1>2 DEF Asking, UnderWay
<1> QED BY <1>1, <1>3, <1>4 DEF Whole, Count

\* An attempt goes out, on a thread's queue or at once.
LEMMA SendWhole ==
    ASSUME Whole, NEW c \in Callers, Send(c)
    PROVE  Links' /\ Count' /\ idle' \in Nat
<1>1. call[c] \in Calls /\ call[c].step = "send" /\ call[c].request \in DOMAIN Budget /\ idle \in Nat
    BY DEF Send, Whole, Inv, Typed, Rest
<1>2. attempt[c] \in Attempts /\ Linked(c, call[c], attempt[c])
    BY DEF Whole, Links
<1>3. CASE Ends(c)
    <2>1. ~(call'[c].step = "sending")
        BY <1>3, Fields DEF Ends, Whole, Inv, Typed
    <2>2. attempt' = attempt /\ idle' = idle
        <3>1. CASE (Budgeted(c) /\ call[c].left = 0) \/ Closed
            BY <3>1 DEF Send
        <3>2. CASE ~((Budgeted(c) /\ call[c].left = 0) \/ Closed)
            BY <1>1, <2>1, <3>2 DEF Send, Whole, Inv, Typed, Calls
        <3> QED BY <3>1, <3>2
    <2>3. attempt' = [attempt EXCEPT ![c] = attempt[c]]
        BY <2>2 DEF Whole, Links
    <2>4. Linked(c, Over, attempt[c])
        BY <1>1, <1>2, NothingLinked, NoAttemptShape DEF Linked
    <2>5. Links'
        BY <1>2, <1>3, <2>3, <2>4, LinksOne DEF Ends, Whole
    <2> QED BY <1>1, <1>3, <2>2, <2>5, EndsCount DEF Whole
<1>4. CASE ~Ends(c)
    <2> DEFINE timer == IF Budgeted(c) THEN AttemptTimeout(c) ELSE 0
    <2>1. /\ call' = [call EXCEPT ![c].step = "sending", ![c].tries = @ + 1, ![c].timer = timer]
          /\ inFlight' = inFlight
          /\ \/ Budgeted(c) /\ attempt' = [attempt EXCEPT ![c] = [NoAttempt EXCEPT !.job = "queued"]] /\ idle' = idle
             \/ Runs(c, "current")
        BY <1>4 DEF Send
    <2>2. call[c].extra \in Nat /\ call[c].left \in Nat /\ call[c].tries \in Nat /\ Timeout[call[c].request] \in Nat
        BY <1>1, Numbers DEF Calls
    <2>3. timer \in Nat
        BY <2>2 DEF AttemptTimeout, Least
    <2> HIDE DEF timer
    <2>4. call' = [call EXCEPT ![c].step = "sending", ![c].timer = timer, ![c].tries = call[c].tries + 1]
        BY <1>1, <2>1 DEF Whole, Inv, Typed, Calls
    <2>5. MaxAttempts[call[c].request] \in Nat /\ call[c].tries < MaxAttempts[call[c].request]
        BY <1>1, <1>2, TransportAssumption DEF TransportAssumption, Linked
    <2>6. call[c].tries + 1 <= MaxAttempts[call[c].request] /\ call[c].tries + 1 \in Nat
        BY <2>2, <2>5
    <2>7. PICK a \in Attempts : /\ attempt' = [attempt EXCEPT ![c] = a]
                                /\ a.job # "none" /\ (a.job = "queued" => Budgeted(c)) /\ idle' \in Nat
        <3>1. CASE Runs(c, "current")
            BY <1>1, <3>1, RunsShape
        <3>2. CASE ~Runs(c, "current")
            <4> DEFINE a == [NoAttempt EXCEPT !.job = "queued"]
            <4>1. a \in Attempts /\ a.job = "queued"
                BY DEF NoAttempt, Attempts
            <4>2. attempt' = [attempt EXCEPT ![c] = a] /\ Budgeted(c) /\ idle' = idle
                BY <2>1, <3>2
            <4> HIDE DEF a
            <4> QED BY <1>1, <4>1, <4>2
        <3> QED BY <3>1, <3>2
    <2>8. /\ "sending" \in {"send", "sending", "over", "moved", "sleeping"} /\ call[c].step # "idle"
          /\ ~("sending" \in {"send", "moved", "sleeping"}) /\ "sending" \in {"sending", "over"}
        BY <1>1
    <2>9. Links' /\ Count'
        BY <2>1, <2>3, <2>4, <2>6, <2>7, <2>8, GoesOnLinks, ZenonT(30)
    <2> QED BY <2>7, <2>9
<1> QED BY <1>3, <1>4

\* A thread takes an attempt, or finds the client closed.
LEMMA RunWhole ==
    ASSUME Whole, NEW c \in Callers, Run(c)
    PROVE  Links' /\ Count' /\ idle' \in Nat
<1>1. call[c] \in Calls /\ attempt[c] \in Attempts /\ Linked(c, call[c], attempt[c]) /\ idle \in Nat
    BY DEF Whole, Inv, Typed, Links, Rest
<1>2. call[c].step \in {"sending", "over"}
    BY <1>1 DEF Run, Linked
<1>3. CASE Closed
    <2>1. Ends(c) /\ attempt' = [attempt EXCEPT ![c] = NoAttempt] /\ idle' = idle
        BY <1>3 DEF Run
    <2> QED BY <1>1, <1>2, <2>1, EndsLinks
<1>4. CASE ~Closed
    <2>1. Runs(c, attempt[c].on) /\ call' = call /\ inFlight' = inFlight
        BY <1>4 DEF Run
    <2>2. attempt[c].on \in {"current", "retired"}
        BY <1>1 DEF Attempts
    <2>3. PICK a \in Attempts : a.job = "running" /\ attempt' = [attempt EXCEPT ![c] = a] /\ idle' \in Nat
        BY <1>1, <2>1, <2>2, RunsShape
    <2>4. call' = [call EXCEPT ![c] = call[c]]
        BY <2>1 DEF Whole, Inv, Typed
    <2>5. Linked(c, call[c], a)
        BY <1>1, <1>2, <2>3 DEF Linked
    <2>6. Links'
        BY <2>3, <2>4, <2>5, LinksOne DEF Whole
    <2>7. Count'
        BY <2>1, <2>4, CountSame DEF Whole
    <2> QED BY <2>3, <2>6, <2>7
<1> QED BY <1>3, <1>4

\* A step that moves a call on and leaves its attempt alone.
LEMMA MovesOnWhole ==
    ASSUME Whole, NEW c \in Callers, NEW next \in {"send", "over"}, call' = [call EXCEPT ![c].step = next],
           next = "send" => call[c].step \in {"moved", "sleeping"}, next = "over" => call[c].step = "sending",
           NEW a \in Attempts, a.job = attempt[c].job, attempt' = [attempt EXCEPT ![c] = a], inFlight' = inFlight
    PROVE  Links' /\ Count'
<1> DEFINE x == [call[c] EXCEPT !.step = next]
<1>1. call[c] \in Calls /\ Linked(c, call[c], attempt[c])
    BY DEF Whole, Inv, Typed, Links
<1>2. /\ x.step = next /\ x.request = call[c].request /\ x.tries = call[c].tries /\ x.extra = call[c].extra
      /\ x.timer = call[c].timer
    BY <1>1 DEF Calls
<1>3. call' = [call EXCEPT ![c] = x]
    BY DEF Whole, Inv, Typed
<1> HIDE DEF x
<1>4. Linked(c, x, a)
    BY <1>1, <1>2 DEF Linked
<1>5. UnderWay(x) <=> UnderWay(call[c])
    BY <1>2 DEF UnderWay
<1>6. Links'
    BY <1>3, <1>4, LinksOne DEF Whole
<1>7. Count'
    BY <1>3, <1>5, CountSame DEF Whole
<1> QED BY <1>6, <1>7

\* The answers of the attempts under way stay theirs when their client is retired.
LEMMA ReconnectWhole ==
    ASSUME Whole, NEW c \in Callers, Reconnect(c)
    PROVE  Links' /\ Count'
<1>1. call[c].step = "moved" /\ call' = [call EXCEPT ![c].step = "send"] /\ inFlight' = inFlight
    BY DEF Reconnect
<1>2. \A k \in Callers : attempt[k] \in Attempts /\ Linked(k, call[k], attempt[k])
    BY DEF Whole, Links
<1>3. CASE attempt' = attempt
    <2>1. attempt' = [attempt EXCEPT ![c] = attempt[c]] /\ attempt[c].job = attempt[c].job
        BY <1>3 DEF Whole, Links
    <2> QED BY <1>1, <1>2, <2>1, MovesOnWhole
<1>4. CASE Renewed
    <2> DEFINE a(k) == [attempt[k] EXCEPT !.on = "retired"]
               x == [call[c] EXCEPT !.step = "send"]
    <2>1. \A k \in Callers : attempt'[k] = IF attempt[k].job = "none" THEN NoAttempt ELSE a(k)
        BY <1>4 DEF Renewed
    <2>2. ASSUME NEW k \in Callers PROVE a(k) \in Attempts /\ a(k).job = attempt[k].job
        BY <1>2 DEF Attempts
    <2> HIDE DEF a
    <2>3. \A k \in Callers : attempt'[k] \in Attempts /\ attempt'[k].job = attempt[k].job
        BY <2>1, <2>2, NoAttemptShape
    <2>4. attempt' \in [Callers -> Attempts]
        BY <1>4, <2>3 DEF Renewed
    <2>5. call[c] \in Calls
        BY DEF Whole, Inv, Typed
    <2>6. /\ x.step = "send" /\ x.request = call[c].request /\ x.tries = call[c].tries /\ x.extra = call[c].extra
          /\ x.timer = call[c].timer
        BY <2>5 DEF Calls
    <2>7. call' = [call EXCEPT ![c] = x]
        BY <1>1 DEF Whole, Inv, Typed
    <2> HIDE DEF x
    <2>8. \A k \in Callers : call'[k] = IF k = c THEN x ELSE call[k]
        BY <2>7 DEF Whole, Inv, Typed
    <2>9. ASSUME NEW k \in Callers PROVE Linked(k, call'[k], attempt'[k])
        <3>1. CASE k = c
            BY <1>1, <1>2, <2>3, <2>6, <2>8, <3>1 DEF Linked
        <3>2. CASE k # c
            BY <1>2, <2>3, <2>8, <3>2 DEF Linked
        <3> QED BY <3>1, <3>2
    <2>10. Links'
        BY <2>4, <2>9 DEF Links, Linked
    <2>11. UnderWay(x) <=> UnderWay(call[c])
        BY <1>1, <2>6 DEF UnderWay
    <2>12. Count'
        BY <1>1, <2>7, <2>11, CountSame DEF Whole
    <2> QED BY <2>10, <2>12
<1> QED BY <1>3, <1>4 DEF Reconnect

\* An answer ends its attempt.
LEMMA AnswerWhole ==
    ASSUME Whole, NEW c \in Callers, NEW status \in Statuses, Answer(c, status)
    PROVE  Links' /\ Count'
<1>1. /\ call[c].step \in {"sending", "over"} /\ call[c].step # "idle"
      /\ attempt' = [attempt EXCEPT ![c] = NoAttempt]
    BY DEF Answer
<1>2. CASE Ends(c)
    BY <1>1, <1>2, EndsLinks
<1>3. CASE Again(c, 0, "moved")
    <2>1. 0 \in Nat /\ "moved" \in {"moved", "sleeping"}
        OBVIOUS
    <2> QED BY <1>1, <1>3, <2>1, AgainLinks
<1>4. CASE \E delay \in 0 .. MaxRetryAfter : Again(c, delay, "sleeping")
    <2>1. PICK delay \in 0 .. MaxRetryAfter : Again(c, delay, "sleeping")
        BY <1>4
    <2>2. delay \in Nat
        BY Numbers
    <2> QED BY <1>1, <2>1, <2>2, AgainLinks
<1>5. CASE BacksOff(c)
    BY <1>1, <1>5, BacksOffLinks
<1> QED BY <1>2, <1>3, <1>4, <1>5 DEF Answer

\* The threads, connections and clients keep their shapes in every step.
LEMMA RestStep ==
    ASSUME Whole, Next
    PROVE  Rest'
<1>1. Rest /\ attempt \in [Callers -> Attempts]
    BY DEF Whole, Links
<1>2. ASSUME UNCHANGED <<stray, closing, leaked>>, idle' \in Nat PROVE Rest'
    BY <1>1, <1>2 DEF Rest
<1>3. CASE Tick
    BY <1>1, <1>2, <1>3 DEF Tick, Rest, connections, client
<1>4. CASE ClosePool
    BY <1>1, <1>4 DEF ClosePool, Rest, connections
<1>5. CASE CloseClients
    BY <1>1, <1>5 DEF CloseClients, Rest
<1>6. CASE IdleCloses
    <2>1. idle' \in Nat
        BY <1>1, <1>6 DEF IdleCloses, Rest
    <2> QED BY <1>2, <1>6, <2>1 DEF IdleCloses, client
<1>7. ASSUME NEW which \in {"current", "retired"}, StrayEnds(which) PROVE Rest'
    <2>1. stray[which] \in Nat /\ stray[which] > 0 /\ idle \in Nat
        BY <1>1, <1>7 DEF StrayEnds, Rest
    <2>2. stray' \in [current : Nat, retired : Nat]
        BY <1>1, <1>7, <2>1 DEF StrayEnds, Rest
    <2>3. idle' \in Nat
        BY <1>7, <2>1 DEF StrayEnds
    <2> QED BY <1>1, <1>7, <2>2, <2>3 DEF StrayEnds, Rest, client
<1>8. ASSUME NEW c \in Callers, Begin(c) \/ Hangs(c) \/ Fails(c) \/ Overrun(c) \/ Wakes(c) PROVE Rest'
    BY <1>1, <1>2, <1>8 DEF Begin, Hangs, Fails, Overrun, Wakes, Rest, connections, client
<1>9. ASSUME NEW c \in Callers, Send(c) PROVE Rest'
    BY <1>2, <1>9, SendWhole DEF Send, client
<1>10. ASSUME NEW c \in Callers, Run(c) PROVE Rest'
    BY <1>2, <1>10, RunWhole DEF Run, client
<1>11. ASSUME NEW c \in Callers, Cancel(c) PROVE Rest'
    <2>1. attempt[c].on \in {"current", "retired"}
        BY <1>1 DEF Attempts
    <2>2. stray[attempt[c].on] + 1 \in Nat
        BY <1>1, <2>1 DEF Rest
    <2>3. stray' \in [current : Nat, retired : Nat]
        BY <1>1, <1>11, <2>1, <2>2 DEF Cancel, Rest
    <2> QED BY <1>1, <1>11, <2>3 DEF Cancel, Rest, client
<1>12. ASSUME NEW c \in Callers, Reconnect(c) PROVE Rest'
    <2>1. CASE OwnsClient
        <3>1. stray.current + stray.retired \in Nat
            BY <1>1 DEF Rest
        <3>2. /\ stray' = [current |-> 0, retired |-> stray.current + stray.retired] /\ idle' = 0
              /\ leaked' = (leaked \/ closing = "closed") /\ closing' = closing
            BY <1>12, <2>1 DEF Reconnect, Renewed
        <3>3. stray' \in [current : Nat, retired : Nat]
            BY <3>1, <3>2
        <3>4. leaked' \in BOOLEAN
            BY <3>2
        <3> QED BY <1>1, <3>2, <3>3, <3>4 DEF Rest
    <2>2. CASE ~OwnsClient
        BY <1>1, <1>2, <1>12, <2>2 DEF Reconnect, Rest, connections
    <2> QED BY <2>1, <2>2
<1>13. ASSUME NEW c \in Callers, NEW status \in Statuses, Answer(c, status) PROVE Rest'
    <2>1. idle' \in Nat
        BY <1>1, <1>13 DEF Answer, Rest
    <2> QED BY <1>2, <1>13, <2>1 DEF Answer, client
<1> QED
    BY <1>3, <1>4, <1>5, <1>6, <1>7, <1>8, <1>9, <1>10, <1>11, <1>12, <1>13 DEF Next, Computes

\* So do the calls, their attempts and the count of Warmth.
LEMMA WholeNext == Whole /\ [Next]_vars => Whole'
<1> SUFFICES ASSUME Whole, [Next]_vars PROVE Whole'
    OBVIOUS
<1>1. Inv'
    BY InvNext DEF Whole
<1>2. CASE UNCHANGED vars
    <2>1. Links' /\ Rest'
        BY <1>2 DEF Whole, Links, Linked, Rest, vars, calls, connections, client
    <2>2. Asking' = Asking /\ inFlight' = inFlight
        BY <1>2 DEF Asking, UnderWay, vars, calls, warmth
    <2> QED BY <1>1, <2>1, <2>2 DEF Whole, Count
<1>3. CASE Next
    <2>1. ASSUME UNCHANGED <<calls, inFlight>> PROVE Links' /\ Count'
        <3>1. Links'
            BY <2>1 DEF Whole, Links, Linked, calls
        <3>2. Asking' = Asking /\ inFlight' = inFlight
            BY <2>1 DEF Asking, UnderWay, calls
        <3> QED BY <3>1, <3>2 DEF Whole, Count
    <2>2. ASSUME Tick PROVE Links' /\ Count'
        BY <2>2, TickWhole
    <2>3. ASSUME ClosePool PROVE Links' /\ Count'
        BY <2>3, ClosePoolWhole
    <2>4. ASSUME CloseClients \/ IdleCloses \/ \E which \in {"current", "retired"} : StrayEnds(which)
          PROVE  Links' /\ Count'
        BY <2>1, <2>4 DEF CloseClients, IdleCloses, StrayEnds, warmth
    <2>5. ASSUME NEW c \in Callers, Begin(c) PROVE Links' /\ Count'
        BY <2>5, BeginWhole
    <2>6. ASSUME NEW c \in Callers, Send(c) \/ Run(c) PROVE Links' /\ Count'
        BY <2>6, SendWhole, RunWhole
    <2>7. ASSUME NEW c \in Callers, Overrun(c) \/ Wakes(c) PROVE Links' /\ Count'
        <3>1. /\ attempt' = [attempt EXCEPT ![c] = attempt[c]] /\ attempt[c] \in Attempts
              /\ inFlight' = inFlight
            BY <2>7 DEF Overrun, Wakes, Whole, Links, warmth
        <3>2. CASE Overrun(c)
            BY <3>1, <3>2, MovesOnWhole DEF Overrun
        <3>3. CASE Wakes(c)
            BY <3>1, <3>3, MovesOnWhole DEF Wakes
        <3> QED BY <2>7, <3>2, <3>3
    <2>8. ASSUME NEW c \in Callers, Cancel(c) \/ Fails(c) PROVE Links' /\ Count'
        BY <2>8, BacksOffLinks DEF Cancel, Fails
    <2>9. ASSUME NEW c \in Callers, Reconnect(c) PROVE Links' /\ Count'
        BY <2>9, ReconnectWhole
    <2>10. ASSUME NEW c \in Callers, NEW status \in Statuses, Answer(c, status) PROVE Links' /\ Count'
        BY <2>10, AnswerWhole
    <2>11. ASSUME NEW c \in Callers, Hangs(c) PROVE Links' /\ Count'
        <3> DEFINE a == [attempt[c] EXCEPT !.job = "hung"]
        <3>1. attempt[c] \in Attempts /\ attempt[c].job = "running" /\ Linked(c, call[c], attempt[c])
            BY <2>11 DEF Hangs, Whole, Links
        <3>2. a \in Attempts /\ a.job = "hung"
            BY <3>1 DEF Attempts
        <3>3. attempt' = [attempt EXCEPT ![c] = a] /\ call' = [call EXCEPT ![c] = call[c]] /\ inFlight' = inFlight
            BY <2>11 DEF Hangs, Whole, Inv, Typed, Links, warmth
        <3> HIDE DEF a
        <3>4. Linked(c, call[c], a)
            BY <3>1, <3>2 DEF Linked
        <3>5. Links'
            BY <3>2, <3>3, <3>4, LinksOne DEF Whole
        <3>6. Count'
            BY <3>3, CountSame DEF Whole
        <3> QED BY <3>5, <3>6
    <2>12. Links' /\ Count'
        BY <1>3, <2>2, <2>3, <2>4, <2>5, <2>6, <2>7, <2>8, <2>9, <2>10, <2>11 DEF Next, Computes
    <2> QED BY <1>1, <1>3, <2>12, RestStep DEF Whole
<1> QED BY <1>2, <1>3

\* Before anything is asked there is nothing to count.
LEMMA WholeInit == Init => Whole
<1> SUFFICES ASSUME Init PROVE Whole
    OBVIOUS
<1>1. /\ \A c \in Callers : call[c] = NoCall /\ attempt[c] = NoAttempt
      /\ attempt = [c \in Callers |-> NoAttempt]
    BY DEF Init
<1>2. Links
    BY <1>1, NothingLinked, NoAttemptShape DEF Links
<1>3. Asking = {}
    BY <1>1, NothingLinked DEF Asking
<1>4. Count
    BY <1>3, FS_EmptySet DEF Count, Init
<1>5. Rest
    BY DEF Rest, Init
<1> QED BY <1>2, <1>4, <1>5, InvInit DEF Whole

\* Every state is well formed, and Warmth counts exactly the requests with a budget that have not come back, through
\* retries, cancellations, a closed pool and a renewed client (Warmth.begin, end; _attempts, _bounded, close).
THEOREM TypeCorrect == Spec => []TypeOK
<1>1. Whole => TypeOK
    <2> SUFFICES ASSUME Whole PROVE TypeOK
        OBVIOUS
    <2>1. ASSUME NEW c \in Callers
          PROVE  /\ call[c].step \in {"idle", "send", "sending", "over", "moved", "sleeping"}
                 /\ call[c].step # "idle" => call[c].request \in Makes[c] /\ call[c].tries \in 0 .. MaxAttempts[call[c].request]
                 /\ call[c].extra \in {0, Allowance}
                 /\ {call[c].left, call[c].timer, call[c].took, attempt[c].need} \subseteq Nat
                 /\ attempt[c].job \in {"none", "queued", "running", "hung"} /\ attempt[c].on \in {"current", "retired"}
                 /\ attempt[c].job # "none" => call[c].step \in {"sending", "over"}
                 /\ call[c].step = "sending" => attempt[c].job # "none"
        <3>1. call[c] \in Calls /\ attempt[c] \in Attempts /\ Linked(c, call[c], attempt[c])
            BY DEF Whole, Inv, Typed, Links
        <3> QED BY <3>1 DEF Calls, Attempts, Linked
    <2>2. {c \in Callers : call[c].step # "idle" /\ Budgeted(c)} = Asking
        BY DEF Asking, UnderWay, Budgeted
    <2>3. {stray.current, stray.retired, idle} \subseteq Nat
        BY DEF Whole, Rest
    <2>4. {granted, spent} \subseteq Never .. Allowance + 1 /\ {windows, renewals} \subseteq Nat
        BY DEF Whole, Inv, Typed, Costs
    <2>5. inFlight = Cardinality({c \in Callers : call[c].step # "idle" /\ Budgeted(c)})
        BY <2>2 DEF Whole, Count
    <2>6. closing \in {"open", "pool", "closed"} /\ leaked \in BOOLEAN
        BY DEF Whole, Rest
    <2> QED BY <2>1, <2>3, <2>4, <2>5, <2>6 DEF TypeOK
<1> QED BY <1>1, WholeInit, WholeNext, PTL DEF Spec
=============================================================================
