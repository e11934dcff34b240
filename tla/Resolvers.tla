------------------------------ MODULE Resolvers ------------------------------
(***************************************************************************)
(* The company's resolvers (resolvers.py): a circuit breaker and a rate for*)
(* each object type, and one pool of threads for all of them. Two users    *)
(* share them: callers of verify_claim(), and the resolver worker          *)
(* (cli/worker.py), which leases refresh requests from Niadra, reads the   *)
(* objects and pushes or releases them. Time goes by in ticks while        *)
(* somebody sleeps or waits; what the worker computes, and its own short   *)
(* requests, take none. Other processes may run workers of their own.      *)
(***************************************************************************)
EXTENDS Integers, Sequences, FiniteSets, SequencesExt, FiniteSetsExt

CONSTANTS
    Requests,      \* bound: the refresh requests Niadra ever queues
    TypeOf,        \* the type of the object a request is about
    ObjectOf,      \* and the object
    Rank,          \* _order: watches first, then by priority
    Resolvable,    \* the types with a registered resolver
    Interval,      \* ticks between two calls at a type's rate; 0 without one
    Lease,         \* LEASE, in ticks
    Limit,         \* ResolverWorker(limit=): requests in a page
    PushMax,       \* PUSH_MAX: objects in one push
    Budget,        \* ResolverWorker(budget=)
    Poll, MaxPause, \* the pause when none wait, and its most when Niadra does not answer
    Failures, Window, Open,   \* the breaker's constants
    PoolSize,      \* threads of _executor
    Claimants, ClaimBudget,   \* who may call verify_claim(), once each, and CLAIM_BUDGET
    Allowance,     \* Timeouts.connect, which a cold connection adds to the first request
    SlotCap,       \* bound: how far ahead a type's next slot is told apart
    MaxMishaps     \* bound: failures of Niadra or of a source, and leases taken by other workers

Types == {TypeOf[r] : r \in Requests}
Worker == "worker"

ASSUME ResolversAssumption ==
    /\ {Lease, Limit, PushMax, Budget, Poll, MaxPause, Failures, Window, Open, PoolSize, ClaimBudget} \subseteq Nat \ {0}
    /\ Allowance \in Nat /\ MaxMishaps \in Nat
    /\ Interval \in [Types -> Nat] /\ Rank \in [Requests -> Nat]
    /\ Resolvable \subseteq Types
    /\ SlotCap \in Nat /\ SlotCap > 2 * Lease
    /\ Worker \notin Claimants

VARIABLES
    queue,      \* Niadra: the refresh requests not settled yet, in the order they came
    asked,      \* those it ever queued
    lease,      \* what is left of each one's lease; 0: none
    at,         \* the worker: where it stands
    todo,       \* the requests of its page still to be looked at, in order
    objects,    \* the requests whose object was read and not pushed yet
    any,        \* this page read some object
    since,      \* ticks since leased_at
    timer,      \* what is left of its sleep or pause
    pause,      \* the pause it takes when none wait
    nextIn,     \* each type: ticks until _Entry.next_at
    failures,   \* the ages of _Breaker.failures
    openFor,    \* ticks until open_until
    call,       \* each user's call: where it stands, of what type, and what is left of its budget
    stuck,      \* threads that carry calls nobody waits for any more
    claim,      \* each caller: "none", "asking" (POST /v1/state/verify), "reading", "done"
    took,       \* ticks its claim took so far
    mishaps

niadra == <<queue, asked, lease>>
worker == <<at, todo, objects, any, since, timer, pause>>
breakers == <<failures, openFor>>
pool == <<call, stuck>>
claims == <<claim, took>>
resolvers_vars == <<niadra, worker, nextIn, breakers, pool, claims, mishaps>>

Users == Claimants \cup {Worker}
NoCall == [stage |-> "none", type |-> "none", left |-> 0]

Down(n) == Max({0, n - 1})

-----------------------------------------------------------------------------
(* The breaker, the rate and the pool *)

Available(t) == t \in Resolvable /\ openFor[t] = 0

\* _Breaker.failed: failures out of the window are forgotten; enough of them open the circuit
Failed(t) ==
    LET recent == Append(SelectSeq(failures[t], LAMBDA age : age < Window), 0)
        trips == Len(recent) >= Failures
    IN  /\ failures' = [failures EXCEPT ![t] = IF trips THEN <<>> ELSE recent]
        /\ openFor' = [openFor EXCEPT ![t] = IF trips THEN Open ELSE @]

Succeeded(t) ==
    /\ failures' = [failures EXCEPT ![t] = <<>>]
    /\ UNCHANGED openFor

\* wait(): takes the next slot of the type, whether the caller then uses it or not
Slot(t) == nextIn' = [nextIn EXCEPT ![t] = IF Interval[t] = 0 THEN 0 ELSE Min({SlotCap, @ + Interval[t]})]

Running == {u \in Users : call[u].stage = "running"}

Submit(u, t, budget) == call' = [call EXCEPT ![u] = [stage |-> "queued", type |-> t, left |-> budget]]

\* a thread of the pool takes the call
Starts(u) ==
    /\ call[u].stage = "queued" /\ stuck + Cardinality(Running) < PoolSize
    /\ call' = [call EXCEPT ![u].stage = "running"]
    /\ UNCHANGED <<niadra, worker, nextIn, breakers, stuck, claims, mishaps>>

\* the resolver answers: an object, NOT_FOUND, or anything else, which counts as its failure
Replies(u, outcome) ==
    /\ call[u].stage = "running"
    /\ outcome \in {"object", "not_found", "failed"}
    /\ IF outcome = "failed" THEN mishaps < MaxMishaps /\ mishaps' = mishaps + 1 /\ Failed(call[u].type)
                             ELSE Succeeded(call[u].type) /\ UNCHANGED mishaps
    /\ call' = [call EXCEPT ![u] = NoCall]
    /\ UNCHANGED stuck

\* future.result(timeout=): a call still queued is cancelled, one that runs keeps its thread
TimesOut(u) ==
    /\ call[u].stage # "none" /\ call[u].left = 0
    /\ Failed(call[u].type)
    /\ stuck' = IF call[u].stage = "running" THEN stuck + 1 ELSE stuck
    /\ call' = [call EXCEPT ![u] = NoCall]
    /\ UNCHANGED mishaps

\* a resolver answers nobody at last
Unstuck ==
    /\ stuck > 0
    /\ stuck' = stuck - 1
    /\ UNCHANGED <<niadra, worker, nextIn, breakers, call, claims, mishaps>>

-----------------------------------------------------------------------------
(* Niadra, and the workers of other processes *)

ResolversInit ==
    /\ queue = <<>> /\ asked = {} /\ lease = [r \in Requests |-> 0]
    /\ at = "pause" /\ todo = <<>> /\ objects = <<>> /\ any = FALSE
    /\ since = 0 /\ timer = 0 /\ pause = Poll
    /\ nextIn = [t \in Types |-> 0]
    /\ failures = [t \in Types |-> <<>>] /\ openFor = [t \in Types |-> 0]
    /\ call = [u \in Users |-> NoCall] /\ stuck = 0
    /\ claim = [c \in Claimants |-> "none"] /\ took = [c \in Claimants |-> 0]
    /\ mishaps = 0

\* a value must be read again
Ask(r) ==
    /\ r \notin asked
    /\ asked' = asked \cup {r} /\ queue' = Append(queue, r)
    /\ UNCHANGED <<lease, worker, nextIn, breakers, pool, claims, mishaps>>

\* another worker leases what is free
OtherLeases(r) ==
    /\ r \in ToSet(queue) /\ lease[r] = 0 /\ mishaps < MaxMishaps
    /\ mishaps' = mishaps + 1
    /\ lease' = [lease EXCEPT ![r] = Lease]
    /\ UNCHANGED <<queue, asked, worker, nextIn, breakers, pool, claims>>

Settle(rs) ==
    /\ queue' = SelectSeq(queue, LAMBDA r : r \notin rs)
    /\ UNCHANGED <<asked, lease>>

-----------------------------------------------------------------------------
(* The worker: run() and run_once() *)

\* the page of free requests is leased, and looked at by rank
LeasePage ==
    /\ at = "pause" /\ timer = 0
    /\ LET free == SelectSeq(queue, LAMBDA r : lease[r] = 0)
           page == SubSeq(free, 1, Min({Limit, Len(free)}))
       IN  /\ todo' = SortSeq(page, LAMBDA r, q : Rank[r] < Rank[q])
           /\ lease' = [r \in Requests |-> IF r \in ToSet(page) THEN Lease ELSE lease[r]]
    /\ at' = "page" /\ since' = 0 /\ any' = FALSE
    /\ UNCHANGED <<queue, asked, objects, timer, pause, nextIn, breakers, pool, claims, mishaps>>

\* run(): what was read goes lost, and the pause grows
GiveUp ==
    /\ at' = "pause" /\ todo' = <<>> /\ objects' = <<>>
    /\ pause' = Min({2 * pause, MaxPause}) /\ timer' = pause'
    /\ UNCHANGED <<any, since>>

LeaseFails ==
    /\ at = "pause" /\ timer = 0 /\ mishaps < MaxMishaps
    /\ mishaps' = mishaps + 1
    /\ GiveUp
    /\ UNCHANGED <<niadra, nextIn, breakers, pool, claims>>

\* run() sees the event between two pages
Stop ==
    /\ at = "pause" /\ at' = "stopped"
    /\ UNCHANGED <<niadra, todo, objects, any, since, timer, pause, nextIn, breakers, pool, claims, mishaps>>

\* the slot comes before the lease ends
InTime(r) == since + nextIn[TypeOf[r]] < Lease

\* no resolver, or its circuit is open: the request is left to its lease
Skip ==
    /\ at = "page" /\ todo # <<>>
    /\ ~Available(TypeOf[Head(todo)])
    /\ todo' = Tail(todo)
    /\ UNCHANGED <<niadra, at, objects, any, since, timer, pause, nextIn, breakers, pool, claims, mishaps>>

\* the type's next slot, unless it comes past the lease: the slot is taken all the same
TakeSlot ==
    /\ at = "page" /\ todo # <<>>
    /\ LET r == Head(todo)
           t == TypeOf[r]
       IN  /\ Available(t)
           /\ Slot(t)
           /\ IF InTime(r) THEN at' = "sleep" /\ timer' = nextIn[t] /\ UNCHANGED todo
                           ELSE todo' = Tail(todo) /\ UNCHANGED <<at, timer>>
    /\ UNCHANGED <<niadra, objects, any, since, pause, breakers, pool, claims, mishaps>>

\* fetch(): the call goes to the pool
Fetch ==
    /\ at = "sleep" /\ timer = 0 /\ Available(TypeOf[Head(todo)])
    /\ at' = "fetch"
    /\ Submit(Worker, TypeOf[Head(todo)], Budget)
    /\ UNCHANGED <<niadra, todo, objects, any, since, timer, pause, nextIn, breakers, stuck, claims, mishaps>>

\* the circuit opened during the sleep: fetch() answers "failed" without a call
FetchOpen ==
    /\ at = "sleep" /\ timer = 0 /\ ~Available(TypeOf[Head(todo)])
    /\ at' = "release"
    /\ UNCHANGED <<niadra, todo, objects, any, since, timer, pause, nextIn, breakers, pool, claims, mishaps>>

\* the object is read, or the request goes back
Fetched ==
    /\ at = "fetch"
    /\ \/ /\ Replies(Worker, "object")
          /\ at' = "page" /\ todo' = Tail(todo)
          /\ objects' = Append(objects, Head(todo)) /\ any' = TRUE
       \/ /\ Replies(Worker, "not_found") \/ Replies(Worker, "failed") \/ TimesOut(Worker)
          /\ at' = "release"
          /\ UNCHANGED <<todo, objects, any>>
    /\ UNCHANGED <<niadra, since, timer, pause, nextIn, claims>>

\* _release(): the request is given up at Niadra, or, when that fails, waits out its lease
Release ==
    /\ at = "release"
    /\ at' = "page" /\ todo' = Tail(todo)
    /\ \/ Settle({Head(todo)}) /\ UNCHANGED mishaps
       \/ mishaps < MaxMishaps /\ mishaps' = mishaps + 1 /\ UNCHANGED niadra
    /\ UNCHANGED <<objects, any, since, timer, pause, nextIn, breakers, pool, claims>>

\* one push of what was read: it settles those requests, and the others of the same objects
Push ==
    /\ at = "page" /\ todo = <<>> /\ objects # <<>>
    /\ LET n == Min({PushMax, Len(objects)})
           pushed == {ObjectOf[r] : r \in ToSet(SubSeq(objects, 1, n))}
       IN  /\ Settle({r \in Requests : ObjectOf[r] \in pushed})
           /\ objects' = SubSeq(objects, n + 1, Len(objects))
    /\ UNCHANGED <<at, todo, any, since, timer, pause, nextIn, breakers, pool, claims, mishaps>>

PushFails ==
    /\ at = "page" /\ todo = <<>> /\ objects # <<>> /\ mishaps < MaxMishaps
    /\ mishaps' = mishaps + 1
    /\ GiveUp
    /\ UNCHANGED <<niadra, nextIn, breakers, pool, claims>>

\* at once to the next page when something was pushed, else after the pause
EndPage ==
    /\ at = "page" /\ todo = <<>> /\ objects = <<>>
    /\ at' = "pause" /\ pause' = Poll /\ timer' = IF any THEN 0 ELSE Poll
    /\ UNCHANGED <<niadra, todo, objects, any, since, nextIn, breakers, pool, claims, mishaps>>

-----------------------------------------------------------------------------
(* verify_claim(), of any type with a resolver or without *)

StartClaim(c) ==
    /\ claim[c] = "none"
    /\ claim' = [claim EXCEPT ![c] = "asking"]
    /\ UNCHANGED <<niadra, worker, nextIn, breakers, pool, took, mishaps>>

\* Mutant: the resolver gets the whole budget.
LeftWhole(c) == ClaimBudget

\* what the request to Niadra left of the budget
Left(c) == ClaimBudget - took[c]

\* Niadra answered, or did not in time: either its verdict stands, or the resolver decides
Asked(c, t) ==
    /\ claim[c] = "asking"
    /\ \E decided \in BOOLEAN :
        IF decided \/ ~Available(t) \/ Left(c) <= 0
        THEN claim' = [claim EXCEPT ![c] = "done"] /\ UNCHANGED call
        ELSE claim' = [claim EXCEPT ![c] = "reading"] /\ Submit(c, t, Left(c))
    /\ UNCHANGED <<niadra, worker, nextIn, breakers, stuck, took, mishaps>>

Read(c) ==
    /\ claim[c] = "reading"
    /\ TimesOut(c) \/ \E outcome \in {"object", "not_found", "failed"} : Replies(c, outcome)
    /\ claim' = [claim EXCEPT ![c] = "done"]
    /\ UNCHANGED <<niadra, worker, nextIn, took>>

-----------------------------------------------------------------------------
(* Time *)

\* Mutant: a circuit that opened stays open.
CooledNever == openFor

\* _Breaker.closed: open_until comes nearer
Cooled == [t \in Types |-> Down(openFor[t])]

\* nobody has something to do at once
Waiting ==
    /\ at \in {"pause", "sleep"} => timer > 0
    /\ at \notin {"page", "release"}
    /\ \A u \in Users : call[u].stage # "none" => call[u].left > 0
    /\ \A c \in Claimants : claim[c] = "asking" => took[c] < ClaimBudget + Allowance

Tick ==
    /\ Waiting
    /\ lease' = [r \in Requests |-> Down(lease[r])]
    /\ since' = Min({Lease, since + 1}) /\ timer' = Down(timer)
    /\ nextIn' = [t \in Types |-> Down(nextIn[t])]
    /\ failures' = [t \in Types |-> SelectSeq([i \in DOMAIN failures[t] |-> failures[t][i] + 1],
                                              LAMBDA age : age < Window)]
    /\ openFor' = Cooled
    /\ call' = [u \in Users |-> [call[u] EXCEPT !.left = Down(@)]]
    /\ took' = [c \in Claimants |-> IF claim[c] \in {"asking", "reading"} THEN took[c] + 1 ELSE took[c]]
    /\ UNCHANGED <<queue, asked, at, todo, objects, any, pause, stuck, claim, mishaps>>

WorkerStep ==
    \/ LeasePage \/ Skip \/ TakeSlot \/ Fetch \/ FetchOpen \/ Fetched \/ Release \/ Push \/ EndPage

ResolversNext ==
    \/ \E r \in Requests : Ask(r) \/ OtherLeases(r)
    \/ LeaseFails \/ PushFails \/ Stop \/ Unstuck
    \/ WorkerStep
    \/ \E u \in Users : Starts(u)
    \/ \E c \in Claimants : StartClaim(c) \/ Read(c) \/ \E t \in Types : Asked(c, t)
    \/ Tick

\* time passes, the worker's process runs, and claims come back; a resolver may hang for ever
ResolversFairness ==
    /\ WF_resolvers_vars(Tick) /\ WF_resolvers_vars(WorkerStep)
    /\ \A c \in Claimants : WF_resolvers_vars(Read(c)) /\ WF_resolvers_vars(\E t \in Types : Asked(c, t))

ResolversSpec == ResolversInit /\ [][ResolversNext]_resolvers_vars

ResolversFairSpec == ResolversSpec /\ ResolversFairness

-----------------------------------------------------------------------------
(* Properties *)

\* The shapes of the state.
ResolversTypeOK ==
    /\ ToSet(queue) \subseteq asked /\ IsInjective(queue) /\ asked \subseteq Requests
    /\ lease \in [Requests -> 0 .. Lease]
    /\ at \in {"pause", "page", "sleep", "fetch", "release", "stopped"}
    /\ ToSet(todo) \cup ToSet(objects) \subseteq asked
    /\ since \in 0 .. Lease /\ timer \in 0 .. Max({MaxPause, Poll, Lease}) /\ pause \in 1 .. Max({MaxPause, Poll})
    /\ nextIn \in [Types -> 0 .. SlotCap]
    /\ \A t \in Types : Len(failures[t]) < Failures /\ openFor[t] \in 0 .. Open
    /\ stuck + Cardinality(Running) <= PoolSize

\* A claim takes its budget, the resolver's read included, and no more than a cold connection on top.
ClaimInTime == \A c \in Claimants : took[c] <= ClaimBudget + Allowance

\* A circuit opens for one type's own failures; calls that never ran because other types' hung resolvers
\* hold the threads are not among them.
OpensForItsOwn ==
    [][\A t \in Types : openFor[t] = 0 /\ openFor'[t] > 0 =>
        \A u \in Users : call[u].type = t /\ call'[u] = NoCall => call[u].stage = "running"]_resolvers_vars

\* the request is passed over because its type's next slot comes past its lease
PutOff(r) == at = "page" /\ todo # <<>> /\ Head(todo) = r /\ Available(TypeOf[r]) /\ ~InTime(r)

\* A request of a type with a resolver is settled in the end, or the worker is stopped, or the request is put
\* off again and again because the slot wait() took for it lies past its lease (the finding
\* EveryRequestSettles). Nothing else keeps it: not failures of Niadra or of the source, not a resolver that
\* hangs, of its own type or of another, not an open circuit, not a lease that another worker took.
RequestsSettle ==
    \A r \in Requests : TypeOf[r] \in Resolvable =>
        \/ [](r \in asked => <>(r \notin ToSet(queue) \/ at = "stopped"))
        \/ []<>PutOff(r)

\* ResolverWorker "serves one space's refresh requests" (cli/worker.py) "until `stop` is set": each of them.
EveryRequestSettles ==
    \A r \in Requests :
        [](r \in asked /\ TypeOf[r] \in Resolvable => <>(r \notin ToSet(queue) \/ at = "stopped"))
=============================================================================
