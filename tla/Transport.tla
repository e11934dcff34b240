------------------------------ MODULE Transport ------------------------------
(***************************************************************************)
(* The HTTP transport of a client (_transport.py): attempts under budgets, *)
(* the threads that carry them, the guess of an open connection, and the   *)
(* httpx client that a 421 replaces. A caller is one place in the code that *)
(* makes requests, one after another. Time goes by in ticks while everybody waits;    *)
(* computing takes none. The API answers an attempt that has a connection  *)
(* at once, unless it hangs. SyncTransport carries budgeted attempts on a  *)
(* pool of threads and leaves them there; AsyncTransport cancels them.     *)
(***************************************************************************)
EXTENDS Integers, Sequences, FiniteSets

CONSTANTS
    Callers,
    Makes,          \* the requests a caller makes
    Budget,         \* Request.budget of each request, 0 for none
    Timeout,        \* Request.timeout
    MaxAttempts,    \* Request.max_attempts
    Voice,          \* requests whose ceiling is their budget (voiced)
    Statuses,       \* what the API may answer
    Async,          \* AsyncTransport (TRUE) or SyncTransport (FALSE)
    OwnsClient,     \* _owns_client
    Workers,        \* ATTEMPT_WORKERS
    Allowance,      \* cold_allowance
    KeepAlive,      \* KEEPALIVE_S
    BaseDelay, MaxDelay,  \* RetryState.base_delay, max_delay
    ConnectTime,    \* what TCP and TLS take
    Patience,       \* the timeout of the flush() or close() that sends the requests without a budget
    MaxRetryAfter,  \* bound: the Retry-After of a 429
    MaxFaults,      \* bound: attempts that hang or fail
    MayClose        \* bound: whether the transport is closed at all

ASSUME TransportAssumption ==
    /\ Budget \in [DOMAIN Budget -> Nat] /\ Makes \in [Callers -> SUBSET DOMAIN Budget]
    /\ Timeout \in [DOMAIN Budget -> Nat \ {0}] /\ MaxAttempts \in [DOMAIN Budget -> Nat \ {0}]
    /\ Statuses \subseteq {"ok", "refused", "moved", "limited", "failing"}
    /\ {Async, OwnsClient, MayClose} \subseteq BOOLEAN
    /\ {Workers, BaseDelay, MaxDelay} \subseteq Nat \ {0}
    /\ {Allowance, KeepAlive, ConnectTime, Patience, MaxRetryAfter, MaxFaults} \subseteq Nat

Never == -1
NoCall == [step |-> "idle", request |-> "none", tries |-> 0, extra |-> 0, left |-> 0, timer |-> 0, took |-> 0]
Over == [NoCall EXCEPT !.timer = 1]
NoAttempt == [job |-> "none", need |-> 0, on |-> "current"]

VARIABLES
    call,      \* each caller's request: step: "idle", "send" (its next attempt), "sending", "over" (the attempt's
               \* time is up), "moved" (a 421), "sleeping"; tries: RetryState.attempt; extra: what Warmth added to
               \* its budget; left: until its deadline; timer: until the attempt is given up on, the backoff ends
               \* or the caller calls again; took: ticks since it began, as far as they are told apart
    attempt,   \* its attempt: job: "none", "queued" for a thread, "running", "hung"; need: until it has a
               \* connection; on: its client, the "current" or a "retired" one
    stray,     \* threads with attempts nobody waits for: of the current client, of retired ones
    idle,      \* connections the current client keeps idle
    open,      \* Warmth._open: ticks since each answered, the latest first
    inFlight,  \* Warmth._in_flight
    granted,   \* ticks since Warmth._granted, Never for None
    spent,     \* history, since the last answer: ticks since a call first got the allowance, Never for none; one
    windows,   \* that gets it when it was spent starts a window of its own: how many there were,
    renewals,  \* and how often the client was renewed
    closing,   \* close(): "open", "pool" (it has shut the pool down), "closed"
    leaked,    \* history: a client was opened after the others were closed
    faults

calls == <<call, attempt>>
connections == <<stray, idle>>
outage == <<spent, windows, renewals>>
warmth == <<open, inFlight, granted, outage>>
client == <<closing, leaked>>
vars == <<calls, connections, warmth, client, faults>>

Least(a, b) == IF a < b THEN a ELSE b
Down(n) == IF n > 0 THEN n - 1 ELSE 0

Budgeted(c) == Budget[call[c].request] # 0

\* the most a request may take
Limit(c) == Budget[call[c].request] + (IF call[c].request \in Voice THEN 0 ELSE Allowance)

Init ==
    /\ call = [c \in Callers |-> NoCall] /\ attempt = [c \in Callers |-> NoAttempt]
    /\ stray = [current |-> 0, retired |-> 0] /\ idle = 0
    /\ open = <<>> /\ inFlight = 0 /\ granted = Never
    /\ spent = Never /\ windows = 0 /\ renewals = 0
    /\ closing = "open" /\ leaked = FALSE /\ faults = 0

-----------------------------------------------------------------------------
(* Warmth *)

\* no more connections answered of late than requests are in flight
Cold == Allowance > 0 /\ Len(open) <= inFlight

\* what begin() adds to the budget: once the allowance was given, only within it, and never past a ceiling
Extra(request) == IF Cold /\ granted <= Allowance /\ request \notin Voice THEN Allowance ELSE 0

\* Mutant: each time it is given it is given for that long again.
GrantAgain == granted' = IF Cold /\ granted <= Allowance THEN 0 ELSE granted

Grant == granted' = IF Cold /\ granted = Never THEN 0 ELSE granted

\* answered(): as many connections as requests in flight answered just now
Answered ==
    /\ LET fresh == IF inFlight = 0 THEN 1 ELSE inFlight
       IN  open' = [i \in 1 .. fresh |-> 0] \o SubSeq(open, fresh + 1, Len(open))
    /\ granted' = Never
    /\ spent' = Never /\ windows' = 0 /\ renewals' = 0

-----------------------------------------------------------------------------
(* request(), _attempts() *)

Begin(c) ==
    /\ call[c].step = "idle" /\ call[c].timer = 0
    /\ \E request \in Makes[c] :
        LET budgeted == Budget[request] # 0
            extra == IF budgeted THEN Extra(request) ELSE 0
            anew == extra > 0 /\ spent \notin 0 .. Allowance
        IN  /\ call' = [call EXCEPT ![c] = [step |-> "send", request |-> request, tries |-> 0, extra |-> extra,
                                          left |-> Budget[request] + extra, timer |-> 0, took |-> 0]]
            /\ spent' = IF anew THEN 0 ELSE spent
            /\ windows' = IF anew THEN windows + 1 ELSE windows
            /\ IF budgeted THEN Grant /\ inFlight' = inFlight + 1 ELSE UNCHANGED <<granted, inFlight>>
    /\ UNCHANGED <<attempt, connections, open, renewals, client, faults>>

\* the call returns or raises: end(); its caller calls again later
Ends(c) ==
    /\ call' = [call EXCEPT ![c] = Over]
    /\ inFlight' = IF Budgeted(c) THEN inFlight - 1 ELSE inFlight

\* an attempt takes a connection of its client that is idle, or opens one
Runs(c, on) ==
    LET found == on = "current" /\ idle > 0
    IN  /\ attempt' = [attempt EXCEPT ![c] = [job |-> "running", need |-> IF found THEN 0 ELSE ConnectTime, on |-> on]]
        /\ idle' = IF found THEN idle - 1 ELSE idle

\* the httpx client was closed, and raises
Closed == closing = "closed" /\ OwnsClient /\ ~leaked

\* Mutant: an attempt gets its timeout whatever is left.
WholeTimeout(c) == Timeout[call[c].request] + call[c].extra

\* attempt_timeout
AttemptTimeout(c) == Least(Timeout[call[c].request] + call[c].extra, call[c].left)

\* the next attempt, if its budget is not spent; one with a budget is handed to the threads
Send(c) ==
    /\ call[c].step = "send"
    /\ IF (Budgeted(c) /\ call[c].left = 0) \/ Closed
       THEN Ends(c) /\ UNCHANGED <<attempt, idle>>
       ELSE /\ call' = [call EXCEPT ![c].step = "sending", ![c].tries = @ + 1,
                                    ![c].timer = IF Budgeted(c) THEN AttemptTimeout(c) ELSE 0]
            /\ IF Budgeted(c) /\ ~Async
               THEN attempt' = [attempt EXCEPT ![c] = [NoAttempt EXCEPT !.job = "queued"]] /\ UNCHANGED idle
               ELSE Runs(c, "current")
            /\ UNCHANGED inFlight
    /\ UNCHANGED <<stray, open, granted, outage, client, faults>>

Carried == {c \in Callers : attempt[c].job \in {"running", "hung"} /\ Budgeted(c)}
ThreadFree == Cardinality(Carried) + stray.current + stray.retired < Workers

\* a thread of the pool takes the attempt
Run(c) ==
    /\ attempt[c].job = "queued" /\ ThreadFree
    /\ IF Closed THEN Ends(c) /\ attempt' = [attempt EXCEPT ![c] = NoAttempt] /\ UNCHANGED idle
                 ELSE Runs(c, attempt[c].on) /\ UNCHANGED <<call, inFlight>>
    /\ UNCHANGED <<stray, open, granted, outage, client, faults>>

\* Mutant: a backoff that the budget has no room for is slept all the same.
AgainAnyway(c, delay, next) ==
    IF call[c].tries >= MaxAttempts[call[c].request] THEN Ends(c)
    ELSE call' = [call EXCEPT ![c].step = next, ![c].timer = delay] /\ UNCHANGED inFlight

\* _next: again after the delay, or the last answer or error is the call's
Again(c, delay, next) ==
    IF call[c].tries >= MaxAttempts[call[c].request] \/ (Budgeted(c) /\ delay >= call[c].left) THEN Ends(c)
    ELSE call' = [call EXCEPT ![c].step = next, ![c].timer = delay] /\ UNCHANGED inFlight

\* _backoff: half of an exponential delay or more
Backoff(c) ==
    LET most == Least(MaxDelay, BaseDelay * 2 ^ (call[c].tries - 1))
    IN  {delay \in 0 .. MaxDelay : most <= 2 * delay /\ delay <= most}

BacksOff(c) == \E delay \in Backoff(c) : Again(c, delay, "sleeping")

\* an answer, which on_response sorts
Answer(c, status) ==
    /\ call[c].step = "sending" /\ attempt[c].job = "running" /\ attempt[c].need = 0
    /\ attempt' = [attempt EXCEPT ![c] = NoAttempt]
    /\ idle' = IF attempt[c].on = "current" /\ ~Closed THEN idle + 1 ELSE idle
    /\ Answered
    /\ \/ status \in {"ok", "refused"} /\ Ends(c)
       \/ status = "moved" /\ Again(c, 0, "moved")
       \/ status = "limited" /\ \E delay \in 0 .. MaxRetryAfter : Again(c, delay, "sleeping")
       \/ status = "failing" /\ BacksOff(c)
    /\ UNCHANGED <<stray, client, faults>>

\* the API does not answer an attempt
Hangs(c) ==
    /\ attempt[c].job = "running" /\ faults < MaxFaults
    /\ attempt' = [attempt EXCEPT ![c].job = "hung"]
    /\ faults' = faults + 1
    /\ UNCHANGED <<call, connections, warmth, client>>

\* a connection breaks, or a phase of a hung attempt takes longer than httpx lets it: on_exception
Fails(c) ==
    /\ call[c].step = "sending" /\ attempt[c].job \in {"running", "hung"}
    /\ IF attempt[c].job = "hung" \/ closing = "closed" THEN UNCHANGED faults ELSE faults < MaxFaults /\ faults' = faults + 1
    /\ attempt' = [attempt EXCEPT ![c] = NoAttempt]
    /\ BacksOff(c)
    /\ UNCHANGED <<connections, open, granted, outage, client>>

\* Mutant: only an attempt that a thread has taken is given up on.
OverrunRunning(c) ==
    /\ call[c].step = "sending" /\ Budgeted(c) /\ call[c].timer = 0 /\ attempt[c].job # "queued"
    /\ call' = [call EXCEPT ![c].step = "over"]
    /\ UNCHANGED <<attempt, connections, warmth, client, faults>>

\* the caller stops waiting for an attempt with a budget, at a thread or in the queue to one
Overrun(c) ==
    /\ call[c].step = "sending" /\ Budgeted(c) /\ call[c].timer = 0
    /\ call' = [call EXCEPT ![c].step = "over"]
    /\ UNCHANGED <<attempt, connections, warmth, client, faults>>

\* future.cancel() keeps an attempt that no thread has begun; a task's is cancelled, and its connection closed
Cancel(c) ==
    /\ call[c].step = "over"
    /\ attempt' = [attempt EXCEPT ![c] = NoAttempt]
    /\ stray' = IF Async \/ attempt[c].job \in {"none", "queued"} THEN stray ELSE [stray EXCEPT ![attempt[c].on] = @ + 1]
    /\ BacksOff(c)
    /\ UNCHANGED <<idle, open, granted, outage, client, faults>>

\* an attempt nobody waits for ends, and may leave its connection to the others
StrayEnds(which) ==
    /\ stray[which] > 0
    /\ stray' = [stray EXCEPT ![which] = @ - 1]
    /\ idle' \in {idle} \cup (IF which = "current" /\ ~Closed THEN {idle + 1} ELSE {})
    /\ UNCHANGED <<calls, warmth, client, faults>>

\* the other side closes a connection that is idle
IdleCloses ==
    /\ idle > 0 /\ faults < MaxFaults
    /\ idle' = idle - 1 /\ faults' = faults + 1
    /\ UNCHANGED <<calls, stray, warmth, client>>

Wakes(c) ==
    /\ call[c].step = "sleeping" /\ call[c].timer = 0
    /\ call' = [call EXCEPT ![c].step = "send"]
    /\ UNCHANGED <<attempt, connections, warmth, client, faults>>

\* all of the client in use goes, and what was known of its connections
Renewed == /\ attempt' = [c \in Callers |-> IF attempt[c].job = "none" THEN NoAttempt ELSE [attempt[c] EXCEPT !.on = "retired"]]
           /\ stray' = [current |-> 0, retired |-> stray.current + stray.retired] /\ idle' = 0
           /\ open' = <<>> /\ granted' = Never
           /\ renewals' = renewals + 1 /\ UNCHANGED <<spent, windows>>
           /\ leaked' = (leaked \/ closing = "closed")

\* _reconnect: the client is retired, not closed, and nothing is warm; a client of the caller's is kept
Reconnect(c) ==
    /\ call[c].step = "moved"
    /\ call' = [call EXCEPT ![c].step = "send"]
    /\ IF OwnsClient THEN Renewed
                     ELSE UNCHANGED <<attempt, connections, open, granted, outage, leaked>>
    /\ UNCHANGED <<inFlight, closing, faults>>

-----------------------------------------------------------------------------
(* close(): the pool of threads with what is queued for it, then the clients *)

ClosePool ==
    /\ MayClose /\ closing = "open"
    /\ closing' = "pool"
    /\ LET queued == {c \in Callers : attempt[c].job = "queued"}
           ended == {c \in queued : call[c].step = "sending"}
       IN  /\ attempt' = [c \in Callers |-> IF c \in queued THEN NoAttempt ELSE attempt[c]]
           /\ call' = [c \in Callers |-> IF c \in ended THEN Over ELSE call[c]]
           /\ inFlight' = inFlight - Cardinality(ended)
    /\ UNCHANGED <<connections, open, granted, outage, leaked, faults>>

CloseClients ==
    /\ closing = "pool"
    /\ closing' = "closed" /\ idle' = IF OwnsClient THEN 0 ELSE idle
    /\ UNCHANGED <<calls, stray, warmth, leaked, faults>>

-----------------------------------------------------------------------------
\* nobody has anything to compute, no time is up, and no answer is due
Waiting ==
    /\ closing # "pool"
    /\ \A c \in Callers :
        /\ call[c].step \in {"idle", "sending", "sleeping"}
        /\ attempt[c].job # "running" \/ attempt[c].need > 0
        /\ call[c].step = "sleeping" \/ (call[c].step = "sending" /\ Budgeted(c)) => call[c].timer > 0
        /\ attempt[c].job = "queued" => ~ThreadFree

Later(age) == IF age = Never THEN Never ELSE Least(age + 1, Allowance + 1)

Tick ==
    /\ Waiting
    /\ call' = [c \in Callers |->
                  IF call[c].step = "idle" THEN NoCall
                  ELSE [call[c] EXCEPT !.left = Down(@), !.timer = Down(@),
                                       !.took = Least(@ + 1, (IF Budgeted(c) THEN Limit(c) ELSE Patience) + 1)]]
    /\ attempt' = [c \in Callers |-> [attempt[c] EXCEPT !.need = Down(@)]]
    /\ open' = SelectSeq([i \in DOMAIN open |-> open[i] + 1], LAMBDA age : age <= KeepAlive)
    /\ granted' = Later(granted) /\ spent' = Later(spent)
    /\ UNCHANGED <<connections, inFlight, windows, renewals, client, faults>>

Computes(c) ==
    \/ Send(c) \/ Run(c) \/ Overrun(c) \/ Cancel(c) \/ Wakes(c) \/ Reconnect(c)
    \/ \E status \in Statuses : Answer(c, status)

Next ==
    \/ Tick \/ ClosePool \/ CloseClients \/ IdleCloses
    \/ \E which \in {"current", "retired"} : StrayEnds(which)
    \/ \E c \in Callers : Begin(c) \/ Computes(c) \/ Hangs(c) \/ Fails(c)

\* time passes, threads and tasks go on, and httpx ends an attempt without a budget phase by phase
Fairness ==
    /\ WF_vars(Tick) /\ WF_vars(CloseClients)
    /\ \A c \in Callers :
        /\ WF_vars(Computes(c))
        /\ WF_vars(Fails(c) /\ attempt[c].job = "hung" /\ ~Budgeted(c))

Spec == Init /\ [][Next]_vars

FairSpec == Spec /\ Fairness

-----------------------------------------------------------------------------
(* Properties *)

\* The shapes of the state; what is in flight is what has a budget and has not come back.
TypeOK ==
    /\ \A c \in Callers :
        /\ call[c].step \in {"idle", "send", "sending", "over", "moved", "sleeping"}
        /\ call[c].step # "idle" => call[c].request \in Makes[c] /\ call[c].tries \in 0 .. MaxAttempts[call[c].request]
        /\ call[c].extra \in {0, Allowance}
        /\ {call[c].left, call[c].timer, call[c].took, attempt[c].need} \subseteq Nat
        /\ attempt[c].job \in {"none", "queued", "running", "hung"} /\ attempt[c].on \in {"current", "retired"}
        /\ attempt[c].job # "none" => call[c].step \in {"sending", "over"}
        /\ call[c].step = "sending" => attempt[c].job # "none"
    /\ {stray.current, stray.retired, idle} \subseteq Nat
    /\ inFlight = Cardinality({c \in Callers : call[c].step # "idle" /\ Budgeted(c)})
    /\ {granted, spent} \subseteq Never .. Allowance + 1 /\ {windows, renewals} \subseteq Nat
    /\ closing \in {"open", "pool", "closed"} /\ leaked \in BOOLEAN

\* "Each budget covers the whole call, retries and waits included; only a call that must open the connection
\* first gets `connect` on top, once", and a voice read never: whatever hangs, is sent again, waits for a
\* thread or is closed.
InTime == \A c \in Callers : call[c].step # "idle" /\ Budgeted(c) => call[c].took <= Limit(c)

\* "After that none does until an answer comes, so an outage costs it once": between two answers the calls that
\* get the allowance begin within the time of the first that got it. A client that is renewed after a 421
\* forgets that it was given, also when a call that began since the answer already waits with it: then, and for
\* each such client only once more, calls get it again.
OncePerOutage == windows <= 1 + renewals

\* That sentence without the exception: the reads of two callers in one outage can refute it in the instance of
\* Transport.cfg, a renewed client having forgotten what the first of them got.
OutageCostsOnce == windows <= 1

\* Every call comes back, also when attempts that hang hold all the threads.
EveryCallEnds == \A c \in Callers : call[c].step # "idle" ~> call[c].step = "idle"

\* "Flushes the queue (for up to `timeout` seconds)": the attempts of a batch, made by the thread of flush() or
\* close(), take no longer than that when the API answers.
FlushInTime == \A c \in Callers : call[c].step # "idle" /\ ~Budgeted(c) => call[c].took <= Patience

\* close() "releases connections": no client is opened when the others were closed.
ClientsClosed == ~leaked

\* `connect` is "added once to a budget when no connection to the API is likely open (no answer in the last two
\* minutes)": as long as requests are made, answers come, when the API answers whoever connects in time.
AnswersComeBack ==
    []<><<\E c \in Callers : Begin(c)>>_vars => []<><<\E c \in Callers, status \in Statuses : Answer(c, status)>>_vars
=============================================================================
