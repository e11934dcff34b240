--------------------------- MODULE TurnQueueProofs ---------------------------
(***************************************************************************)
(* What holds of the turn queue, its sender and flush() for any number of  *)
(* turns, any limits and any failures.                                     *)
(***************************************************************************)
EXTENDS TurnQueue, FiniteSetTheorems, SequenceTheorems, WellFoundedInduction, TLAPS

-----------------------------------------------------------------------------
(* Numbers, sequences and finite sets. *)

\* Every set of naturals that is not empty has the minimum that Min names.
LEMMA MinIn ==
    ASSUME NEW S \in SUBSET Nat, S # {}
    PROVE  Min(S) \in S /\ \A y \in S : Min(S) <= y
<1>1. PICK x \in S : \A y \in S : ~ (<<y, x>> \in OpToRel(<, Nat))
    BY NatLessThanWellFounded, WFMin
<1>2. \A y \in S : ~(y < x)
    BY <1>1 DEF OpToRel
<1>3. \A y \in S : x <= y
    BY <1>2
<1> QED BY <1>3 DEF Min

\* The two parts of a queue cut after its first k turns.
LEMMA Cut ==
    ASSUME NEW S, NEW q \in Seq(S), NEW k \in 0 .. Len(q)
    PROVE  /\ SubSeq(q, 1, k) \in Seq(S) /\ Len(SubSeq(q, 1, k)) = k
           /\ SubSeq(q, k + 1, Len(q)) \in Seq(S) /\ Len(SubSeq(q, k + 1, Len(q))) = Len(q) - k
           /\ ToSet(SubSeq(q, 1, k)) \subseteq ToSet(q) /\ ToSet(SubSeq(q, k + 1, Len(q))) \subseteq ToSet(q)
           /\ \A i \in 1 .. k : SubSeq(q, 1, k)[i] = q[i]
           /\ \A i \in 1 .. Len(q) - k : SubSeq(q, k + 1, Len(q))[i] = q[i + k]
<1>1. /\ SubSeq(q, 1, k) \in Seq(S) /\ Len(SubSeq(q, 1, k)) = k
      /\ \A i \in 1 .. k : SubSeq(q, 1, k)[i] = q[i]
    BY SubSeqProperties
<1>2. /\ SubSeq(q, k + 1, Len(q)) \in Seq(S) /\ Len(SubSeq(q, k + 1, Len(q))) = Len(q) - k
      /\ \A i \in 1 .. Len(q) - k : SubSeq(q, k + 1, Len(q))[i] = q[i + k]
    BY SubSeqProperties
<1>3. DOMAIN q = 1 .. Len(q) /\ Len(q) \in Nat
    BY LenProperties
<1>4. ToSet(SubSeq(q, 1, k)) \subseteq ToSet(q)
    <2>1. DOMAIN SubSeq(q, 1, k) = 1 .. k
        BY <1>1, LenProperties
    <2> QED BY <1>1, <1>3, <2>1 DEF ToSet
<1>5. ToSet(SubSeq(q, k + 1, Len(q))) \subseteq ToSet(q)
    <2>1. DOMAIN SubSeq(q, k + 1, Len(q)) = 1 .. Len(q) - k
        BY <1>2, LenProperties
    <2>2. \A i \in 1 .. Len(q) - k : i + k \in 1 .. Len(q)
        BY <1>3
    <2> QED BY <1>2, <1>3, <2>1, <2>2 DEF ToSet
<1> QED BY <1>1, <1>2, <1>4, <1>5

LEMMA Joined ==
    ASSUME NEW S, NEW p \in Seq(S), NEW q \in Seq(S)
    PROVE  /\ p \o q \in Seq(S) /\ Len(p \o q) = Len(p) + Len(q)
           /\ ToSet(p \o q) \subseteq ToSet(p) \cup ToSet(q)
<1>1. /\ p \o q \in Seq(S) /\ Len(p \o q) = Len(p) + Len(q) /\ Len(p) \in Nat /\ Len(q) \in Nat
      /\ \A i \in 1 .. Len(p) + Len(q) : (p \o q)[i] = IF i <= Len(p) THEN p[i] ELSE q[i - Len(p)]
    BY ConcatProperties, LenProperties
<1>2. DOMAIN p = 1 .. Len(p) /\ DOMAIN q = 1 .. Len(q) /\ DOMAIN (p \o q) = 1 .. Len(p) + Len(q)
    BY <1>1, LenProperties
<1>3. \A i \in 1 .. Len(p) + Len(q) : i \in 1 .. Len(p) \/ (~(i <= Len(p)) /\ i - Len(p) \in 1 .. Len(q))
    BY <1>1
<1> QED BY <1>1, <1>2, <1>3 DEF ToSet

LEMMA Added ==
    ASSUME NEW S, NEW q \in Seq(S), NEW t \in S
    PROVE  Append(q, t) \in Seq(S) /\ Len(Append(q, t)) = Len(q) + 1 /\ ToSet(Append(q, t)) \subseteq ToSet(q) \cup {t}
<1>1. /\ Append(q, t) \in Seq(S) /\ Len(Append(q, t)) = Len(q) + 1 /\ Len(q) \in Nat
      /\ \A i \in 1 .. Len(q) : Append(q, t)[i] = q[i]
      /\ Append(q, t)[Len(q) + 1] = t
    BY AppendProperties, LenProperties
<1>2. DOMAIN q = 1 .. Len(q) /\ DOMAIN Append(q, t) = 1 .. Len(q) + 1
    BY <1>1, LenProperties
<1>3. \A i \in 1 .. Len(q) + 1 : i \in 1 .. Len(q) \/ i = Len(q) + 1
    BY <1>1
<1> QED BY <1>1, <1>2, <1>3 DEF ToSet

LEMMA Empty ==
    ASSUME NEW S
    PROVE  <<>> \in Seq(S) /\ Len(<<>>) = 0 /\ ToSet(<<>>) = {}
BY DEF ToSet

LEMMA Elements ==
    ASSUME NEW S, NEW q \in Seq(S)
    PROVE  ToSet(q) \subseteq S /\ Len(q) \in Nat /\ DOMAIN q = 1 .. Len(q) /\ (q = <<>> <=> Len(q) = 0)
<1>1. Len(q) \in Nat /\ DOMAIN q = 1 .. Len(q) /\ \A i \in 1 .. Len(q) : q[i] \in S
    BY LenProperties, ElementOfSeq
<1>2. q = <<>> <=> Len(q) = 0
    BY EmptySeq
<1> QED BY <1>1, <1>2 DEF ToSet

LEMMA SomePlaces ==
    ASSUME NEW S, NEW q \in Seq(S), NEW P \in SUBSET DOMAIN q
    PROVE  IsFiniteSet(P) /\ Cardinality(P) \in Nat /\ Cardinality(P) <= Len(q)
<1>1. DOMAIN q = 1 .. Len(q) /\ Len(q) \in Nat
    BY LenProperties
<1>2. IsFiniteSet(1 .. Len(q)) /\ Cardinality(1 .. Len(q)) = Len(q)
    <2>1. /\ IsFiniteSet(1 .. Len(q))
          /\ Cardinality(1 .. Len(q)) = IF 1 > Len(q) THEN 0 ELSE Len(q) - 1 + 1
        BY <1>1, FS_Interval, 1 \in Int, Len(q) \in Int, Zenon
    <2> QED BY <1>1, <2>1
<1> QED BY <1>1, <1>2, FS_Subset, FS_CardinalityType

\* The frames at some places of a batch.
LEMMA FramesAt ==
    ASSUME NEW S, NEW q \in Seq(S), NEW P \in SUBSET DOMAIN q, NEW a \in At(q, P)
    PROVE  a \in Seq(S) /\ Len(a) = Cardinality(P) /\ ToSet(a) \subseteq ToSet(q)
<1>1. Cardinality(P) \in Nat
    BY SomePlaces
<1>2. PICK f \in [1 .. Cardinality(P) -> P] : a = [i \in DOMAIN f |-> q[f[i]]]
    BY DEF At
<1>3. DOMAIN f = 1 .. Cardinality(P) /\ \A i \in DOMAIN f : f[i] \in DOMAIN q
    BY <1>2
<1>4. \A i \in DOMAIN q : q[i] \in S
    BY Elements, ElementOfSeq
<1>5. a \in [1 .. Cardinality(P) -> S]
    BY <1>2, <1>3, <1>4
<1>6. a \in Seq(S)
    BY <1>1, <1>5, IsASeq
<1>7. Len(a) = Cardinality(P)
    BY <1>1, <1>5, <1>6, LenProperties
<1>8. ToSet(a) \subseteq ToSet(q)
    BY <1>2, <1>3 DEF ToSet
<1> QED BY <1>6, <1>7, <1>8

-----------------------------------------------------------------------------
(* The queue *)

LEMMA BytesNat ==
    ASSUME NEW S, NEW q \in Seq(S), NEW gone
    PROVE  Bytes(q, gone) \in Nat /\ (Len(q) = 0 => Bytes(q, gone) = 0)
<1>1. {i \in DOMAIN q : q[i] \notin gone} \in SUBSET DOMAIN q
    OBVIOUS
<1>2. /\ Cardinality({i \in DOMAIN q : q[i] \notin gone}) \in Nat
      /\ Cardinality({i \in DOMAIN q : q[i] \notin gone}) <= Len(q)
    BY <1>1, SomePlaces
<1>3. Len(q) \in Nat
    BY LenProperties
<1> QED BY <1>2, <1>3 DEF Bytes

\* A queue without its first turns weighs no more.
LEMMA BytesOfRest ==
    ASSUME NEW S, NEW q \in Seq(S), NEW k \in 0 .. Len(q), NEW gone
    PROVE  Bytes(SubSeq(q, k + 1, Len(q)), gone) <= Bytes(q, gone)
<1> DEFINE r == SubSeq(q, k + 1, Len(q))
           A == {i \in DOMAIN r : r[i] \notin gone}
           B == {i \in DOMAIN q : q[i] \notin gone}
           f == [i \in A |-> i + k]
<1>1. /\ r \in Seq(S) /\ Len(r) = Len(q) - k /\ Len(q) \in Nat /\ DOMAIN r = 1 .. Len(q) - k /\ DOMAIN q = 1 .. Len(q)
      /\ \A i \in 1 .. Len(q) - k : r[i] = q[i + k]
    BY Cut, Elements
<1>2. B \in SUBSET DOMAIN q /\ A \in SUBSET DOMAIN r
    OBVIOUS
<1>3. IsFiniteSet(B) /\ Cardinality(B) \in Nat /\ Cardinality(A) \in Nat
    BY <1>1, <1>2, SomePlaces
<1> HIDE DEF r
<1>4. \A i \in A : i \in Nat /\ i + k \in B
    <2> SUFFICES ASSUME NEW i \in A PROVE i \in Nat /\ i + k \in B
        OBVIOUS
    <2>1. i \in 1 .. Len(q) - k /\ r[i] \notin gone /\ r[i] = q[i + k]
        BY <1>1
    <2>2. i \in Nat /\ i + k \in 1 .. Len(q)
        BY <1>1, <2>1
    <2> QED BY <1>1, <2>1, <2>2
<1> HIDE DEF A, B
<1>5. f \in Injection(A, B)
    <2>1. f \in [A -> B] /\ \A i \in A : f[i] = i + k
        BY <1>4
    <2>2. \A i, j \in A : f[i] = f[j] => i = j
        BY <1>4, <2>1
    <2> HIDE DEF f
    <2> QED BY <2>1, <2>2 DEF Injection, IsInjective
<1>6. Cardinality(A) <= Cardinality(B)
    BY <1>3, <1>5, FS_Injection
<1>7. Bytes(r, gone) = Len(r) + Cardinality(A) /\ Bytes(q, gone) = Len(q) + Cardinality(B)
    BY DEF Bytes, A, B
<1>8. Bytes(r, gone) <= Bytes(q, gone)
    BY <1>1, <1>3, <1>6, <1>7
<1> QED BY <1>8 DEF r

\* _make_room() leaves a queue within both limits, and counts each turn it takes out.
LEMMA RoomMade ==
    ASSUME NEW S, NEW q \in Seq(S), NEW gone \in SUBSET S
    PROVE  /\ MakeRoom(q, gone).turns \in Seq(S) /\ MakeRoom(q, gone).shed \subseteq S
           /\ MakeRoom(q, gone).dropped \in Nat
           /\ Len(MakeRoom(q, gone).turns) + MakeRoom(q, gone).dropped = Len(q)
           /\ Len(MakeRoom(q, gone).turns) <= MaxTurns
           /\ Bytes(MakeRoom(q, gone).turns, MakeRoom(q, gone).shed) <= MaxBytes
           /\ ToSet(MakeRoom(q, gone).turns) \subseteq ToSet(q)
<1> DEFINE able == Sheddable(q, gone)
           Gone(k) == gone \cup {q[i] : i \in {j \in able : Cardinality({h \in able : h <= j}) <= k}}
           n == Cardinality(able)
           enough == {k \in 0 .. n : Bytes(q, Gone(k)) <= MaxBytes} \cup {n}
           left == Gone(Min(enough))
           Rest(d) == SubSeq(q, d + 1, Len(q))
           fits == {d \in 0 .. Len(q) : Bytes(Rest(d), left) <= MaxBytes /\ Len(Rest(d)) <= MaxTurns}
           d0 == Min(fits)
<1>1. MakeRoom(q, gone) = [turns |-> Rest(d0), shed |-> left, dropped |-> d0]
    BY DEF MakeRoom
<1>2. able \subseteq DOMAIN q /\ \A i \in DOMAIN q : q[i] \in S
    BY Elements, ElementOfSeq DEF Sheddable
<1>3. left \subseteq S
    <2> HIDE DEF able, enough
    <2> QED BY <1>2
<1> HIDE DEF left
<1>4. fits \in SUBSET Nat /\ fits # {}
    <2>1. Len(q) \in 0 .. Len(q) /\ Len(q) \in Nat /\ MaxBytes \in Nat /\ MaxTurns \in Nat
        BY Elements, TurnQueueAssumption
    <2>2. Rest(Len(q)) \in Seq(S) /\ Len(Rest(Len(q))) = 0
        BY <2>1, Cut
    <2>3. Bytes(Rest(Len(q)), left) = 0
        BY <2>2, BytesNat
    <2>4. Len(q) \in fits
        BY <2>1, <2>2, <2>3
    <2>5. 0 .. Len(q) \subseteq Nat
        BY <2>1
    <2> QED BY <2>4, <2>5
<1>5. d0 \in fits
    BY <1>4, MinIn
<1>6. d0 \in 0 .. Len(q) /\ Bytes(Rest(d0), left) <= MaxBytes /\ Len(Rest(d0)) <= MaxTurns
    BY <1>5
<1> HIDE DEF d0
<1>7. Rest(d0) \in Seq(S) /\ Len(Rest(d0)) = Len(q) - d0 /\ ToSet(Rest(d0)) \subseteq ToSet(q) /\ Len(q) \in Nat
    BY <1>6, Cut, Elements
<1> HIDE DEF Rest
<1>8. Len(Rest(d0)) + d0 = Len(q)
    BY <1>6, <1>7
<1> QED BY <1>1, <1>3, <1>6, <1>7, <1>8

Tallies == [Kinds -> Nat]
Total(t) == t["taken"] + t["dropped"]

\* what left uncounted
Lost == missed["cancelled"] + missed["unread"]

LEMMA TallyParts ==
    ASSUME NEW t \in Tallies
    PROVE  t["taken"] \in Nat /\ t["dropped"] \in Nat /\ Total(t) \in Nat
BY DEF Tallies, Kinds, Total

\* Counting n turns under one heading adds n to the total.
LEMMA Counting ==
    ASSUME tally \in Tallies, NEW k \in Kinds, NEW n \in Nat
    PROVE  Count(k, n) \in Tallies /\ Total(Count(k, n)) = Total(tally) + n
<1>1. Count(k, n) \in Tallies
    BY DEF Count, Tallies
<1>2. \A j \in Kinds : Count(k, n)[j] = IF j = k THEN tally[j] + n ELSE tally[j]
    BY DEF Count, Tallies
<1> QED BY <1>1, <1>2, TallyParts DEF Total, Kinds

\* A queue that becomes q after room was made: what it loses is counted as dropped.
LEMMA BecomesEffect ==
    ASSUME NEW S, NEW q \in Seq(S), NEW counted \in Tallies, shed \in SUBSET S, Becomes(q, counted)
    PROVE  /\ turns' \in Seq(S) /\ shed' \in SUBSET S /\ tally' \in Tallies
           /\ Len(turns') <= MaxTurns /\ Bytes(turns', shed') <= MaxBytes
           /\ ToSet(turns') \subseteq ToSet(q)
           /\ Len(turns') + Total(tally') = Len(q) + Total(counted)
<1> DEFINE room == MakeRoom(q, shed)
<1>1. turns' = room.turns /\ shed' = room.shed /\ tally' = [counted EXCEPT !["dropped"] = @ + room.dropped]
    BY DEF Becomes
<1>2. /\ room.turns \in Seq(S) /\ room.shed \subseteq S /\ room.dropped \in Nat
      /\ Len(room.turns) + room.dropped = Len(q) /\ Len(room.turns) <= MaxTurns
      /\ Bytes(room.turns, room.shed) <= MaxBytes /\ ToSet(room.turns) \subseteq ToSet(q)
    BY RoomMade
<1> HIDE DEF room
<1>3. tally' \in Tallies
    BY <1>1, <1>2 DEF Tallies, Kinds
<1>4. \A j \in Kinds : tally'[j] = IF j = "dropped" THEN counted[j] + room.dropped ELSE counted[j]
    BY <1>1 DEF Tallies, Kinds
<1>5. Total(tally') = Total(counted) + room.dropped
    <2>1. counted["taken"] \in Nat /\ counted["dropped"] \in Nat
        BY TallyParts
    <2> QED BY <1>2, <1>4, <2>1 DEF Total, Kinds
<1>6. Len(room.turns) \in Nat /\ Total(counted) \in Nat
    BY <1>2, Elements, TallyParts
<1> QED BY <1>1, <1>2, <1>3, <1>5, <1>6

-----------------------------------------------------------------------------
(* The state *)

Frames == Seq(1 .. submitted)

Queue ==
    /\ submitted \in 0 .. MaxSubmits /\ turns \in Frames /\ hand \in Frames
    /\ Len(turns) <= MaxTurns /\ Bytes(turns, shed) <= MaxBytes
    /\ shed \in SUBSET (1 .. submitted) /\ tally \in Tallies

\* A sender that stands still has no frames in its hands, and one without a request none in flight.
Stands ==
    /\ inFlight \in 0 .. Len(hand)
    /\ pc = "idle" => hand = <<>>
    /\ pc # "waiting" => inFlight = 0

Marks == hashOnly \subseteq 1 .. submitted /\ digests \subseteq 1 .. submitted

Switches ==
    /\ refused \in BOOLEAN /\ off \in BOOLEAN /\ listed \in BOOLEAN /\ paused \in BOOLEAN /\ stopping \in BOOLEAN
    /\ pc \in {"idle", "refreshing", "building", "waiting", "failing"}
    /\ holder \in Senders \cup {None}
    /\ flushing \in {"no", "asked", "in"}

Flushes == asked \in 0 .. submitted /\ settled \in 0 .. submitted

\* Accounted does not carry from step to step: how many turns left uncounted has to be part of it.
Account ==
    /\ entered \in Nat /\ entered <= submitted
    /\ missed \in [{"cancelled", "unread"} -> Nat]
    /\ Len(turns) + Len(hand) + Total(tally) + Lost = entered

IInv == Queue /\ Stands /\ Marks /\ Switches /\ Flushes /\ Account /\ FlushMeansSettled

LEMMA LostParts ==
    ASSUME IInv
    PROVE  missed["cancelled"] \in Nat /\ missed["unread"] \in Nat /\ Lost \in Nat
BY DEF IInv, Account, Lost

LEMMA AccountCounts == IInv => Accounted
<1> SUFFICES ASSUME IInv PROVE Accounted
    OBVIOUS
<1>1. Len(turns) \in Nat /\ Len(hand) \in Nat /\ tally \in Tallies /\ entered \in Nat
    BY Elements DEF IInv, Queue, Frames, Account
<1>2. Lost \in Nat /\ (missed = NoLoss => Lost = 0)
    BY LostParts DEF Lost, NoLoss
<1>3. Len(turns) + Len(hand) + Total(tally) + Lost = entered
    BY DEF IInv, Account
<1>4. Total(tally) \in Nat
    BY <1>1, TallyParts
<1>5. /\ Len(turns) + Len(hand) + Total(tally) <= entered
      /\ Lost = 0 => Len(turns) + Len(hand) + Total(tally) = entered
    BY <1>1, <1>2, <1>3, <1>4
<1>6. Len(turns) + Len(hand) + Total(tally) = Len(turns) + Len(hand) + tally["taken"] + tally["dropped"]
    <2>1. tally["taken"] \in Nat /\ tally["dropped"] \in Nat
        BY <1>1, TallyParts
    <2> QED BY <1>1, <2>1 DEF Total
<1> QED BY <1>2, <1>5, <1>6 DEF Accounted

LEMMA InvTypes == IInv /\ wakes \in BOOLEAN => TypeOK
<1> SUFFICES ASSUME IInv, wakes \in BOOLEAN PROVE TypeOK
    OBVIOUS
<1>1. /\ submitted \in Nat /\ MaxSubmits \in Nat /\ submitted <= MaxSubmits /\ Len(turns) \in Nat /\ Len(hand) \in Nat
      /\ tally \in Tallies /\ entered \in Nat /\ entered <= submitted
    BY TurnQueueAssumption, Elements DEF IInv, Queue, Frames, Account
<1>2. Len(turns) + Len(hand) + Total(tally) + Lost = entered /\ Lost \in Nat
    BY LostParts DEF IInv, Account
<1>3. \A k \in Kinds : tally[k] \in 0 .. MaxSubmits
    <2>1. PICK a, b \in Nat : tally["taken"] = a /\ tally["dropped"] = b
        BY <1>1, TallyParts
    <2>2. Len(turns) + Len(hand) + (a + b) + Lost = entered
        BY <1>2, <2>1 DEF Total
    <2>3. {a, b} \subseteq 0 .. MaxSubmits
        BY <1>1, <1>2, <2>2
    <2> QED BY <2>1, <2>3 DEF Kinds
<1>4. tally \in [Kinds -> 0 .. MaxSubmits]
    BY <1>1, <1>3 DEF Tallies
<1>5. entered \in 0 .. submitted
    BY <1>1
<1>6. missed \in [DOMAIN NoLoss -> Nat]
    BY DEF IInv, Account, NoLoss
<1> QED BY <1>4, <1>5, <1>6 DEF IInv, TypeOK, Queue, Stands, Marks, Switches, Flushes, Frames

\* A step that moves frames between the queue, the sender's hands and the counters, and adds none.
Moves ==
    /\ submitted' = submitted /\ Queue'
    /\ ToSet(turns') \cup ToSet(hand') \subseteq ToSet(turns) \cup ToSet(hand)
    /\ Len(turns') + Len(hand') + Total(tally') = Len(turns) + Len(hand) + Total(tally)

LEMMA MovesKeep ==
    ASSUME IInv, Moves, UNCHANGED <<settled, entered, missed>>
    PROVE  Account' /\ FlushMeansSettled'
<1>1. Len(turns) \in Nat /\ Len(hand) \in Nat /\ tally \in Tallies
    BY Elements DEF IInv, Queue, Frames
<1>2. Len(turns') \in Nat /\ Len(hand') \in Nat /\ tally' \in Tallies
    BY Elements DEF Moves, Queue, Frames
<1>3. Len(turns) + Len(hand) + Total(tally) + Lost = entered /\ Lost' = Lost
    BY DEF IInv, Account, Lost
<1>4. Total(tally) \in Nat /\ Total(tally') \in Nat /\ Lost \in Nat
    BY <1>1, <1>2, TallyParts, LostParts
<1>5. Account'
    <2>1. Len(turns') + Len(hand') + Total(tally') + Lost' = entered'
        BY <1>1, <1>2, <1>3, <1>4 DEF Moves
    <2> QED BY <2>1 DEF IInv, Account, Moves
<1>6. FlushMeansSettled'
    BY DEF IInv, Moves, FlushMeansSettled
<1> QED BY <1>5, <1>6

LEMMA StillMoves ==
    ASSUME IInv, UNCHANGED <<submitted, turns, shed, hand, tally>>
    PROVE  Moves
BY DEF Moves, IInv, Queue, Frames

\* Frames leave the sender's hands for the counters.
LEMMA CountedMoves ==
    ASSUME IInv, UNCHANGED <<submitted, turns, shed>>, hand' \in Frames, ToSet(hand') \subseteq ToSet(hand),
           tally' \in Tallies, Len(hand') + Total(tally') = Len(hand) + Total(tally)
    PROVE  Moves
<1>1. Len(turns) \in Nat /\ Len(hand) \in Nat /\ Len(hand') \in Nat /\ Total(tally) \in Nat /\ Total(tally') \in Nat
    BY Elements, TallyParts DEF IInv, Queue, Frames
<1>2. Len(turns') + Len(hand') + Total(tally') = Len(turns) + Len(hand) + Total(tally)
    BY <1>1
<1> QED BY <1>2 DEF Moves, IInv, Queue, Frames

LEMMA AllCountedMoves ==
    ASSUME IInv, UNCHANGED <<submitted, turns, shed>>, hand' = <<>>, NEW k \in Kinds, tally' = Count(k, Len(hand))
    PROVE  Moves
<1>1. Len(hand) \in Nat /\ tally \in Tallies
    BY Elements DEF IInv, Queue, Frames
<1>2. tally' \in Tallies /\ Total(tally') = Total(tally) + Len(hand) /\ Total(tally) \in Nat
    BY <1>1, Counting, TallyParts
<1>3. hand' \in Frames /\ Len(hand') = 0 /\ ToSet(hand') = {}
    BY Empty DEF Frames
<1> QED BY <1>1, <1>2, <1>3, CountedMoves

\* Frames go back to the front of the queue, and room is made.
LEMMA RequeueMoves ==
    ASSUME IInv, UNCHANGED submitted, NEW p \in Frames, NEW counted \in Tallies, Becomes(p \o turns, counted),
           hand' \in Frames, ToSet(p) \cup ToSet(hand') \subseteq ToSet(hand),
           Len(p) + Len(hand') + Total(counted) = Len(hand) + Total(tally)
    PROVE  Moves
<1>1. turns \in Frames /\ shed \in SUBSET (1 .. submitted)
    BY DEF IInv, Queue
<1>2. p \o turns \in Frames /\ Len(p \o turns) = Len(p) + Len(turns) /\ ToSet(p \o turns) \subseteq ToSet(p) \cup ToSet(turns)
    BY <1>1, Joined DEF Frames
<1>3. /\ turns' \in Seq(1 .. submitted) /\ shed' \in SUBSET (1 .. submitted) /\ tally' \in Tallies
      /\ Len(turns') <= MaxTurns /\ Bytes(turns', shed') <= MaxBytes
      /\ ToSet(turns') \subseteq ToSet(p \o turns)
      /\ Len(turns') + Total(tally') = Len(p \o turns) + Total(counted)
    <2>1. PICK S : S = 1 .. submitted
        OBVIOUS
    <2>2. PICK q \in Seq(S) : q = p \o turns
        BY <1>2, <2>1 DEF Frames
    <2>3. shed \in SUBSET S /\ Becomes(q, counted)
        BY <1>1, <2>1, <2>2
    <2>4. /\ turns' \in Seq(S) /\ shed' \in SUBSET S /\ tally' \in Tallies
          /\ Len(turns') <= MaxTurns /\ Bytes(turns', shed') <= MaxBytes
          /\ ToSet(turns') \subseteq ToSet(q)
          /\ Len(turns') + Total(tally') = Len(q) + Total(counted)
        BY <2>3, BecomesEffect
    <2> QED BY <2>1, <2>2, <2>4
<1>4. /\ Len(turns) \in Nat /\ Len(hand) \in Nat /\ Len(hand') \in Nat /\ Len(p) \in Nat /\ Len(turns') \in Nat
      /\ Total(tally) \in Nat /\ Total(tally') \in Nat /\ Total(counted) \in Nat
    BY <1>1, <1>3, Elements, TallyParts DEF IInv, Queue, Frames
<1>5. Len(turns') + Len(hand') + Total(tally') = Len(turns) + Len(hand) + Total(tally)
    <2>1. Len(p \o turns) = Len(p) + Len(turns)
        BY <1>2
    <2>2. Len(turns') + Total(tally') = Len(p \o turns) + Total(counted)
        BY <1>3
    <2>3. Len(p) + Len(hand') + Total(counted) = Len(hand) + Total(tally)
        OBVIOUS
    <2> HIDE DEF Total
    <2> QED BY <1>4, <2>1, <2>2, <2>3, SMTT(20)
<1>6. Queue'
    BY <1>3 DEF IInv, Queue, Frames
<1> QED BY <1>2, <1>3, <1>5, <1>6 DEF Moves

\* The two parts of what the sender holds while a request is under way.
LEMMA HandParts ==
    ASSUME IInv
    PROVE  /\ hand \in Frames /\ Len(hand) \in Nat /\ inFlight \in 0 .. Len(hand) /\ inFlight \in Nat
           /\ Batch \in Frames /\ Len(Batch) = inFlight /\ ToSet(Batch) \subseteq ToSet(hand)
           /\ Later \in Frames /\ Len(Later) = Len(hand) - inFlight /\ ToSet(Later) \subseteq ToSet(hand)
           /\ (Later # <<>> => Len(Later) \in Nat \ {0})
           /\ DOMAIN Batch = 1 .. inFlight /\ ToSet(Batch) \subseteq 1 .. submitted /\ ToSet(hand) \subseteq 1 .. submitted
<1>1. hand \in Frames /\ Len(hand) \in Nat /\ inFlight \in 0 .. Len(hand) /\ inFlight \in Nat
    BY Elements DEF IInv, Queue, Stands, Frames
<1>2. /\ Batch \in Frames /\ Len(Batch) = inFlight /\ ToSet(Batch) \subseteq ToSet(hand)
      /\ Later \in Frames /\ Len(Later) = Len(hand) - inFlight /\ ToSet(Later) \subseteq ToSet(hand)
    <2>1. PICK S : S = 1 .. submitted
        OBVIOUS
    <2>2. hand \in Seq(S)
        BY <1>1, <2>1 DEF Frames
    <2>3. /\ SubSeq(hand, 1, inFlight) \in Seq(S) /\ Len(SubSeq(hand, 1, inFlight)) = inFlight
          /\ SubSeq(hand, inFlight + 1, Len(hand)) \in Seq(S)
          /\ Len(SubSeq(hand, inFlight + 1, Len(hand))) = Len(hand) - inFlight
          /\ ToSet(SubSeq(hand, 1, inFlight)) \subseteq ToSet(hand)
          /\ ToSet(SubSeq(hand, inFlight + 1, Len(hand))) \subseteq ToSet(hand)
        BY <1>1, <2>2, Cut
    <2> QED BY <2>1, <2>3 DEF Batch, Later, Frames
<1>3. Later # <<>> => Len(Later) \in Nat \ {0}
    BY <1>2, Elements DEF Frames
<1>4. DOMAIN Batch = 1 .. inFlight /\ ToSet(Batch) \subseteq 1 .. submitted /\ ToSet(hand) \subseteq 1 .. submitted
    BY <1>1, <1>2, Elements DEF Frames
<1> QED BY <1>1, <1>2, <1>3, <1>4

-----------------------------------------------------------------------------
(* The steps *)

\* A step that moves frames and leaves the caller of flush() alone.
LEMMA KeepBy ==
    ASSUME IInv, Moves, Stands', Marks', Switches', UNCHANGED <<asked, settled, entered, missed>>
    PROVE  IInv'
<1>1. Account' /\ FlushMeansSettled'
    BY MovesKeep
<1>2. Queue' /\ submitted' = submitted
    BY DEF Moves
<1>3. Flushes'
    BY <1>2 DEF IInv, Flushes
<1> QED BY <1>1, <1>2, <1>3 DEF IInv

LEMMA Returned ==
    ASSUME IInv, NEW goOn \in BOOLEAN, Return(goOn)
    PROVE  /\ pc' = "idle" /\ holder' \in Senders \cup {None} /\ flushing' \in {"no", "asked", "in"}
           /\ UNCHANGED <<asked, settled, stopping, flushes>>
BY DEF Return, IInv, Switches

\* _send_next with a request behind it: the next one leaves, or the sender stands still.
LEMMA Continued ==
    ASSUME IInv, NextBatch, pc = "waiting"
    PROVE  /\ hand' = Later
           /\ Stands'
           /\ digests' \subseteq digests
           /\ pc' \in {"idle", "waiting"} /\ holder' \in Senders \cup {None} /\ flushing' \in {"no", "asked", "in"}
           /\ UNCHANGED <<asked, settled, stopping>>
<1>1. hand' = Later
    BY DEF NextBatch
<1>2. CASE Later # <<>>
    <2>1. inFlight' \in 1 .. Len(Later) /\ UNCHANGED <<pc, holder, caller, digests>>
        BY <1>2 DEF NextBatch
    <2>2. inFlight' \in 0 .. Len(hand')
        BY <1>1, <1>2, <2>1, HandParts
    <2> QED BY <1>1, <2>1, <2>2 DEF Stands, caller, IInv, Switches
<1>3. CASE Later = <<>>
    <2>1. inFlight' = 0 /\ digests' = {} /\ Return(TRUE)
        BY <1>3 DEF NextBatch
    <2>2. Len(hand') = 0
        BY <1>1, <1>3
    <2>3. inFlight' \in 0 .. Len(hand')
        BY <2>1, <2>2
    <2> QED BY <1>1, <1>3, <2>1, <2>3, Returned DEF Stands
<1> QED BY <1>2, <1>3

LEMMA AfterBatch ==
    ASSUME IInv, Moves, NextBatch, pc = "waiting", hashOnly' \subseteq 1 .. submitted,
           refused' \in BOOLEAN, off' \in BOOLEAN, paused' \in BOOLEAN, UNCHANGED <<listed, entered, missed>>
    PROVE  IInv'
<1>1. /\ Stands' /\ digests' \subseteq digests
      /\ pc' \in {"idle", "waiting"} /\ holder' \in Senders \cup {None} /\ flushing' \in {"no", "asked", "in"}
      /\ UNCHANGED <<asked, settled, stopping>>
    BY Continued
<1>2. Marks'
    BY <1>1 DEF Moves, IInv, Marks
<1>3. Switches'
    BY <1>1 DEF IInv, Switches
<1> QED BY <1>1, <1>2, <1>3, KeepBy

\* A step after which the sender stands still with nothing in its hands.
LEMMA AfterReturn ==
    ASSUME IInv, Moves, NEW goOn \in BOOLEAN, Return(goOn), hand' = <<>>, inFlight' = 0,
           digests' \subseteq digests, paused' \in BOOLEAN, listed' \in BOOLEAN,
           UNCHANGED <<hashOnly, refused, off, entered, missed>>
    PROVE  IInv'
<1>1. /\ pc' = "idle" /\ holder' \in Senders \cup {None} /\ flushing' \in {"no", "asked", "in"}
      /\ UNCHANGED <<asked, settled, stopping, flushes>>
    BY Returned
<1>2. Stands'
    <2>1. Len(hand') = 0
        OBVIOUS
    <2> QED BY <1>1, <2>1 DEF Stands
<1>3. Marks'
    BY DEF Moves, IInv, Marks
<1>4. Switches'
    BY <1>1 DEF IInv, Switches
<1> QED BY <1>1, <1>2, <1>3, <1>4, KeepBy

LEMMA SubmitKeeps ==
    ASSUME IInv, Submit
    PROVE  IInv'
<1>1. /\ submitted \in Nat /\ submitted + 1 \in 0 .. MaxSubmits /\ MaxSubmits \in Nat
      /\ turns \in Seq(1 .. submitted) /\ hand \in Seq(1 .. submitted) /\ shed \in SUBSET (1 .. submitted)
      /\ tally \in Tallies /\ submitted' = submitted + 1
    BY TurnQueueAssumption DEF IInv, Queue, Frames, Submit
<1>2. PICK S : S = 1 .. submitted + 1
    OBVIOUS
<1>3. /\ 1 .. submitted \subseteq S /\ submitted + 1 \in S
    BY <1>1, <1>2
<1>4. turns \in Seq(S) /\ hand \in Seq(S) /\ shed \in SUBSET S
    BY <1>1, <1>3, SeqMonotonic
<1>5. /\ turns' \in Seq(S) /\ shed' \in SUBSET S /\ tally' \in Tallies
      /\ Len(turns') <= MaxTurns /\ Bytes(turns', shed') <= MaxBytes
      /\ ToSet(turns') \subseteq ToSet(turns) \cup {submitted + 1}
      /\ entered' \in {entered, entered + 1}
      /\ Len(turns') + Total(tally') - entered' = Len(turns) + Total(tally) - entered
    <2>1. CASE Recording
        <3>1. PICK q \in Seq(S) : /\ q = Append(turns, submitted + 1) /\ Len(q) = Len(turns) + 1
                                  /\ ToSet(q) \subseteq ToSet(turns) \cup {submitted + 1}
            <4>1. /\ Append(turns, submitted + 1) \in Seq(S)
                  /\ Len(Append(turns, submitted + 1)) = Len(turns) + 1
                  /\ ToSet(Append(turns, submitted + 1)) \subseteq ToSet(turns) \cup {submitted + 1}
                BY <1>3, <1>4, Added
            <4> QED BY <4>1
        <3>2. Becomes(q, tally)
            BY <2>1, <3>1 DEF Submit
        <3>3. /\ turns' \in Seq(S) /\ shed' \in SUBSET S /\ tally' \in Tallies
              /\ Len(turns') <= MaxTurns /\ Bytes(turns', shed') <= MaxBytes
              /\ ToSet(turns') \subseteq ToSet(q)
              /\ Len(turns') + Total(tally') = Len(q) + Total(tally)
            BY <1>1, <1>4, <3>2, BecomesEffect
        <3>4. Len(turns) \in Nat /\ Total(tally) \in Nat /\ Len(turns') \in Nat /\ Total(tally') \in Nat
            BY <1>1, <1>4, <3>3, Elements, TallyParts
        <3>5. entered' = entered + 1 /\ entered \in Nat
            BY <2>1 DEF Submit, IInv, Account
        <3>6. Len(turns') + Total(tally') - entered' = Len(turns) + Total(tally) - entered
            <4>1. Len(turns') + Total(tally') = Len(turns) + 1 + Total(tally)
                BY <3>1, <3>3
            <4> QED BY <3>4, <3>5, <4>1
        <3> QED BY <3>1, <3>3, <3>5, <3>6
    <2>2. CASE ~Recording
        <3>1. UNCHANGED <<turns, shed, tally, entered>>
            BY <2>2 DEF Submit
        <3> QED BY <1>1, <1>4, <3>1 DEF IInv, Queue
    <2> QED BY <2>1, <2>2
<1>6. UNCHANGED <<missed, hashOnly, refused, off, listed, sender, caller, paused>>
    BY DEF Submit
<1>7. Queue'
    BY <1>1, <1>2, <1>4, <1>5, <1>6 DEF Queue, Frames, sender
<1>8. Account'
    <2>1. /\ Len(turns) \in Nat /\ Len(hand) \in Nat /\ Len(turns') \in Nat /\ Total(tally) \in Nat /\ Total(tally') \in Nat
          /\ Lost \in Nat
        BY <1>1, <1>4, <1>5, Elements, TallyParts, LostParts
    <2>2. /\ entered \in Nat /\ entered <= submitted
          /\ Len(turns) + Len(hand) + Total(tally) + Lost = entered
        BY DEF IInv, Account
    <2>3. hand' = hand /\ missed' = missed /\ Lost' = Lost
        BY <1>6 DEF sender, Lost
    <2>4. entered' \in Nat /\ entered' <= submitted'
        BY <1>1, <1>5, <2>2
    <2>5. Len(turns') + Len(hand') + Total(tally') + Lost' = entered'
        <3>1. PICK a, b, c, d, l, e, f \in Nat :
                  /\ a = Len(turns) /\ b = Total(tally) /\ c = Len(turns') /\ d = Total(tally')
                  /\ l = Lost /\ e = entered /\ f = entered'
            BY <2>1, <2>2, <2>4
        <3>2. c + d - f = a + b - e
            BY <1>5, <3>1
        <3>3. a + Len(hand) + b + l = e
            BY <2>2, <3>1
        <3>4. c + Len(hand) + d + l = f
            BY <2>1, <3>2, <3>3
        <3> QED BY <2>3, <3>1, <3>4
    <2> QED BY <2>3, <2>4, <2>5 DEF IInv, Account
<1>9. FlushMeansSettled'
    <2>1. settled' = settled /\ hand' = hand /\ settled \in 0 .. submitted /\ FlushMeansSettled
        BY <1>6 DEF sender, caller, IInv, Flushes
    <2>2. submitted + 1 \notin 1 .. settled
        BY <1>1, <2>1
    <2> QED BY <1>5, <2>1, <2>2 DEF FlushMeansSettled
<1>10. Marks' /\ Flushes'
    <2>1. 1 .. submitted \subseteq 1 .. submitted' /\ 0 .. submitted \subseteq 0 .. submitted'
        BY <1>1
    <2> QED BY <1>6, <2>1 DEF sender, caller, IInv, Marks, Flushes
<1>11. Stands' /\ Switches'
    BY <1>6 DEF sender, caller, IInv, Stands, Switches
<1> QED BY <1>7, <1>8, <1>9, <1>10, <1>11 DEF IInv

LEMMA TakeKeeps ==
    ASSUME IInv, NEW s \in Senders, Take(s)
    PROVE  IInv'
<1>1. /\ submitted \in 0 .. MaxSubmits /\ turns \in Seq(1 .. submitted) /\ hand = <<>> /\ pc = "idle" /\ turns # <<>>
      /\ Len(turns) <= MaxTurns /\ Bytes(turns, shed) <= MaxBytes
    BY DEF IInv, Queue, Frames, Stands, Take
<1>2. UNCHANGED <<submitted, entered, missed, shed, hashOnly, refused, off, listed, inFlight, digests, caller, paused,
                  tally>>
    BY DEF Take, entry
<1>3. PICK n : /\ n = Min({Limit, Len(turns)})
               /\ hand' = SubSeq(turns, 1, n) /\ turns' = SubSeq(turns, n + 1, Len(turns))
    BY DEF Take
<1>4. Len(turns) \in Nat
    BY <1>1, Elements
<1>5. n \in 0 .. Len(turns)
    <2>1. {Limit, Len(turns)} \in SUBSET Nat /\ {Limit, Len(turns)} # {}
        BY <1>4, TurnQueueAssumption
    <2>2. n \in {Limit, Len(turns)} /\ n <= Len(turns)
        BY <1>3, <2>1, MinIn
    <2> QED BY <1>4, <2>2, TurnQueueAssumption
<1>6. PICK S : S = 1 .. submitted
    OBVIOUS
<1>7. /\ hand' \in Seq(S) /\ Len(hand') = n /\ turns' \in Seq(S) /\ Len(turns') = Len(turns) - n
      /\ ToSet(hand') \subseteq ToSet(turns) /\ ToSet(turns') \subseteq ToSet(turns)
    <2>1. turns \in Seq(S)
        BY <1>1, <1>6
    <2> QED BY <1>3, <1>5, <2>1, Cut
<1>8. Bytes(turns', shed') <= MaxBytes
    <2>1. Bytes(turns', shed) <= Bytes(turns, shed)
        BY <1>1, <1>3, <1>5, BytesOfRest
    <2>2. Bytes(turns', shed) \in Nat /\ Bytes(turns, shed) \in Nat /\ MaxBytes \in Nat
        BY <1>1, <1>7, BytesNat, TurnQueueAssumption
    <2> QED BY <1>1, <1>2, <2>1, <2>2
<1>9. Moves
    <2>1. Len(turns') <= MaxTurns
        BY <1>1, <1>4, <1>5, <1>7, TurnQueueAssumption
    <2>2. Queue'
        BY <1>1, <1>2, <1>6, <1>7, <1>8, <2>1 DEF IInv, Queue, Frames
    <2>3. Len(hand) = 0 /\ Total(tally) \in Nat
        BY <1>1, TallyParts DEF IInv, Queue
    <2>4. Len(turns') + Len(hand') + Total(tally') = Len(turns) + Len(hand) + Total(tally)
        BY <1>2, <1>4, <1>5, <1>7, <2>3
    <2> QED BY <1>2, <1>7, <2>2, <2>4 DEF Moves
<1>10. inFlight = 0 /\ pc' = "refreshing" /\ holder' = s
    BY <1>1 DEF IInv, Stands, Take
<1>11. Stands'
    BY <1>2, <1>4, <1>5, <1>7, <1>10 DEF Stands
<1>12. Marks'
    BY <1>2 DEF IInv, Marks
<1>13. Switches'
    BY <1>2, <1>10 DEF caller, IInv, Switches
<1> QED BY <1>2, <1>9, <1>11, <1>12, <1>13, KeepBy DEF caller

LEMMA RefreshKeeps ==
    ASSUME IInv, Refresh
    PROVE  IInv'
<1>1. /\ pc = "refreshing" /\ listed \in BOOLEAN
      /\ UNCHANGED <<submitted, entered, missed, turns, shed, hashOnly, refused, off, inFlight, digests, paused>>
      /\ listed' \in BOOLEAN
    BY DEF Refresh, IInv, Switches, entry
<1>2. inFlight' = 0
    BY <1>1 DEF IInv, Stands
<1>3. CASE listed' /\ ~off
    <2>1. pc' = "building" /\ UNCHANGED <<hand, holder, caller, tally>>
        BY <1>3 DEF Refresh
    <2>2. Moves
        BY <1>1, <2>1, StillMoves
    <2>3. Stands' /\ Marks' /\ Switches'
        BY <1>1, <1>2, <2>1 DEF caller, IInv, Stands, Marks, Switches
    <2> QED BY <1>1, <2>1, <2>2, <2>3, KeepBy DEF caller
<1>4. CASE ~(listed' /\ ~off)
    <2>1. hand' = <<>> /\ tally' = Count("dropped", Len(hand)) /\ Return(TRUE)
        BY <1>4 DEF Refresh
    <2>2. Moves
        BY <1>1, <2>1, AllCountedMoves DEF Kinds
    <2>3. paused' \in BOOLEAN
        BY <1>1 DEF IInv, Switches
    <2> QED BY <1>1, <1>2, <2>1, <2>2, <2>3, AfterReturn
<1> QED BY <1>3, <1>4

LEMMA BuildKeeps ==
    ASSUME IInv, Build
    PROVE  IInv'
<1>1. /\ pc' = "waiting" /\ inFlight' \in 1 .. Len(hand) /\ digests' \subseteq ToSet(hand)
      /\ UNCHANGED <<submitted, entered, missed, turns, shed, hashOnly, refused, off, listed, hand, holder, caller,
                     paused, tally>>
    BY DEF Build, entry
<1>2. Moves
    BY <1>1, StillMoves
<1>3. Stands'
    BY <1>1, HandParts DEF Stands
<1>4. Marks'
    BY <1>1, HandParts DEF IInv, Marks
<1>5. Switches'
    BY <1>1 DEF caller, IInv, Switches
<1> QED BY <1>1, <1>2, <1>3, <1>4, <1>5, KeepBy DEF caller

LEMMA BuildFailsKeeps ==
    ASSUME IInv, BuildFails
    PROVE  IInv'
<1>1. /\ pc = "building" /\ hand' = <<>> /\ tally' = Count("dropped", Len(hand)) /\ Return(TRUE)
      /\ UNCHANGED <<submitted, entered, missed, turns, shed, hashOnly, refused, off, listed, inFlight, digests, paused>>
    BY DEF BuildFails, entry
<1>2. Moves
    BY <1>1, AllCountedMoves DEF Kinds
<1>3. inFlight' = 0 /\ paused' \in BOOLEAN /\ listed' \in BOOLEAN
    BY <1>1 DEF IInv, Stands, Switches
<1> QED BY <1>1, <1>2, <1>3, AfterReturn

\* The three fates of the frames of a batch: taken, put back with digests only, dropped.
LEMMA Shares ==
    ASSUME IInv, NEW good \in SUBSET DOMAIN Batch, NEW back \in SUBSET (DOMAIN Batch \ good)
    PROVE  Cardinality(good) \in Nat /\ Cardinality(back) \in Nat /\ Cardinality(good) + Cardinality(back) <= inFlight
<1>1. PICK q \in Seq(1 .. submitted) : q = Batch /\ Len(q) = inFlight
    BY HandParts DEF Frames
<1>2. good \in SUBSET DOMAIN q /\ back \in SUBSET DOMAIN q /\ good \cup back \in SUBSET DOMAIN q
    BY <1>1
<1>3. /\ IsFiniteSet(good) /\ IsFiniteSet(back) /\ Cardinality(good) \in Nat /\ Cardinality(back) \in Nat
      /\ Cardinality(good \cup back) <= Len(q)
    BY <1>2, SomePlaces
<1>4. Cardinality(good \cup back) = Cardinality(good) + Cardinality(back) - Cardinality(good \cap back)
    BY <1>3, FS_Union
<1>5. good \cap back = {}
    OBVIOUS
<1>6. Cardinality(good \cap back) = 0
    BY <1>5, FS_EmptySet
<1> QED BY <1>1, <1>3, <1>4, <1>6

LEMMA AcceptedMoves ==
    ASSUME IInv, Accepted
    PROVE  Moves /\ hashOnly' \subseteq 1 .. submitted /\ refused' \in BOOLEAN
<1>1. pc = "waiting" /\ hand' = Later /\ submitted' = submitted
    BY DEF Accepted, NextBatch, entry
<1>2. PICK onlyDigests \in BOOLEAN :
        LET good == {i \in DOMAIN Batch : Takes(Batch[i], onlyDigests)}
            back == {i \in DOMAIN Batch \ good : Batch[i] \notin Invalid \cup hashOnly}
            counted == [tally EXCEPT !.taken = @ + Cardinality(good),
                                     !.dropped = @ + inFlight - Cardinality(good) - Cardinality(back)]
        IN  \E again \in At(Batch, back) :
                /\ hashOnly' = hashOnly \cup ToSet(again)
                /\ refused' = (refused \/ again # <<>>)
                /\ IF again # <<>> THEN Becomes(again \o turns, counted)
                                   ELSE tally' = counted /\ UNCHANGED <<turns, shed>>
    BY DEF Accepted
<1> DEFINE good == {i \in DOMAIN Batch : Takes(Batch[i], onlyDigests)}
           back == {i \in DOMAIN Batch \ good : Batch[i] \notin Invalid \cup hashOnly}
           counted == [tally EXCEPT !.taken = @ + Cardinality(good),
                                    !.dropped = @ + inFlight - Cardinality(good) - Cardinality(back)]
<1>3. PICK again \in At(Batch, back) :
        /\ hashOnly' = hashOnly \cup ToSet(again)
        /\ refused' = (refused \/ again # <<>>)
        /\ IF again # <<>> THEN Becomes(again \o turns, counted) ELSE tally' = counted /\ UNCHANGED <<turns, shed>>
    BY <1>2
<1>4. good \in SUBSET DOMAIN Batch /\ back \in SUBSET (DOMAIN Batch \ good)
    OBVIOUS
<1> HIDE DEF good, back
<1>5. Cardinality(good) \in Nat /\ Cardinality(back) \in Nat /\ Cardinality(good) + Cardinality(back) <= inFlight
    BY <1>4, Shares
<1>6. /\ hand \in Frames /\ Len(hand) \in Nat /\ inFlight \in Nat /\ inFlight <= Len(hand)
      /\ Batch \in Frames /\ ToSet(Batch) \subseteq ToSet(hand) /\ ToSet(Batch) \subseteq 1 .. submitted
      /\ Later \in Frames /\ Len(Later) = Len(hand) - inFlight /\ ToSet(Later) \subseteq ToSet(hand)
    BY HandParts
<1>7. again \in Frames /\ Len(again) = Cardinality(back) /\ ToSet(again) \subseteq ToSet(Batch)
    <2>1. PICK S : S = 1 .. submitted
        OBVIOUS
    <2>2. PICK q \in Seq(S) : q = Batch
        BY <1>6, <2>1 DEF Frames
    <2>3. back \in SUBSET DOMAIN q /\ again \in At(q, back)
        BY <1>3, <1>4, <2>2
    <2> QED BY <2>1, <2>2, <2>3, FramesAt DEF Frames
<1>8. counted \in Tallies /\ Total(counted) = Total(tally) + inFlight - Cardinality(back)
    <2>1. tally \in Tallies
        BY DEF IInv, Queue
    <2>2. tally["taken"] \in Nat /\ tally["dropped"] \in Nat
        BY <2>1, TallyParts
    <2>3. counted = [k \in Kinds |-> IF k = "taken" THEN tally["taken"] + Cardinality(good)
                                     ELSE IF k = "dropped"
                                          THEN tally["dropped"] + inFlight - Cardinality(good) - Cardinality(back)
                                          ELSE tally[k]]
        BY <2>1 DEF Tallies, Kinds
    <2> HIDE DEF counted
    <2>4. /\ counted["taken"] = tally["taken"] + Cardinality(good)
          /\ counted["dropped"] = tally["dropped"] + inFlight - Cardinality(good) - Cardinality(back)
        BY <2>3 DEF Kinds
    <2>5. /\ tally["taken"] + Cardinality(good) \in Nat
          /\ tally["dropped"] + inFlight - Cardinality(good) - Cardinality(back) \in Nat
        BY <1>5, <1>6, <2>2, SMTT(20)
    <2>6. counted \in Tallies
        BY <2>2, <2>3, <2>5 DEF Tallies, Kinds
    <2>7. Total(counted) = Total(tally) + inFlight - Cardinality(back)
        <3>1. PICK a, b, g, k \in Nat :
                  /\ tally["taken"] = a /\ tally["dropped"] = b
                  /\ Cardinality(good) = g /\ Cardinality(back) = k
            BY <1>5, <2>2
        <3>2. Total(counted) = (a + g) + (b + inFlight - g - k)
            BY <2>4, <3>1 DEF Total
        <3>3. Total(tally) = a + b
            BY <3>1 DEF Total
        <3> QED BY <1>6, <3>1, <3>2, <3>3
    <2> QED BY <2>6, <2>7
<1> HIDE DEF counted
<1>9. hand' \in Frames /\ ToSet(hand') \subseteq ToSet(hand) /\ Len(hand') = Len(hand) - inFlight
    BY <1>1, <1>6
<1>10. Total(tally) \in Nat
    BY TallyParts DEF IInv, Queue
<1>11. CASE again # <<>>
    <2>1. Becomes(again \o turns, counted)
        BY <1>3, <1>11
    <2>2. Len(again) + Len(hand') + Total(counted) = Len(hand) + Total(tally)
        BY <1>5, <1>6, <1>7, <1>8, <1>9, <1>10
    <2>3. ToSet(again) \cup ToSet(hand') \subseteq ToSet(hand)
        BY <1>6, <1>7, <1>9
    <2>4. Moves
        BY <1>1, <1>7, <1>8, <1>9, <2>1, <2>2, <2>3, RequeueMoves
    <2> QED BY <1>3, <1>6, <1>7, <2>4 DEF IInv, Marks, Switches
<1>12. CASE again = <<>>
    <2>1. tally' = counted /\ UNCHANGED <<turns, shed>>
        BY <1>3, <1>12
    <2>2. Cardinality(back) = 0
        BY <1>7, <1>12
    <2>3. Len(hand') + Total(tally') = Len(hand) + Total(tally)
        BY <1>6, <1>8, <1>9, <1>10, <2>1, <2>2
    <2>4. Moves
        BY <1>1, <1>8, <1>9, <2>1, <2>3, CountedMoves
    <2> QED BY <1>3, <1>6, <1>7, <2>4 DEF IInv, Marks, Switches
<1> QED BY <1>11, <1>12

LEMMA AcceptedKeeps ==
    ASSUME IInv, Accepted
    PROVE  IInv'
<1>1. /\ pc = "waiting" /\ NextBatch /\ paused' \in BOOLEAN
      /\ UNCHANGED <<off, listed, entered, missed>>
    BY DEF Accepted, entry
<1>2. off' \in BOOLEAN
    BY <1>1 DEF IInv, Switches
<1> QED BY <1>1, <1>2, AcceptedMoves, AfterBatch

\* A request that failed for good: its frames are counted.
LEMMA BatchCounted ==
    ASSUME IInv, UNCHANGED <<submitted, turns, shed>>, hand' = Later, tally' = Count("dropped", inFlight)
    PROVE  Moves
<1>1. /\ Len(hand) \in Nat /\ inFlight \in Nat /\ Later \in Frames /\ Len(Later) = Len(hand) - inFlight
      /\ ToSet(Later) \subseteq ToSet(hand)
    BY HandParts
<1>2. tally \in Tallies
    BY DEF IInv, Queue
<1>3. tally' \in Tallies /\ Total(tally') = Total(tally) + inFlight /\ Total(tally) \in Nat
    BY <1>1, <1>2, Counting, TallyParts DEF Kinds
<1>4. Len(hand') + Total(tally') = Len(hand) + Total(tally)
    BY <1>1, <1>3
<1> QED BY <1>1, <1>3, <1>4, CountedMoves

\* A request that failed for now: its frames go back.
LEMMA BatchBack ==
    ASSUME IInv, UNCHANGED submitted, hand' = Later, Becomes(Batch \o turns, tally)
    PROVE  Moves
<1>1. /\ Len(hand) \in Nat /\ inFlight \in Nat /\ Later \in Frames /\ Len(Later) = Len(hand) - inFlight
      /\ ToSet(Later) \subseteq ToSet(hand) /\ Batch \in Frames /\ Len(Batch) = inFlight /\ ToSet(Batch) \subseteq ToSet(hand)
    BY HandParts
<1>2. tally \in Tallies /\ Total(tally) \in Nat
    BY TallyParts DEF IInv, Queue
<1>3. Len(Batch) + Len(hand') + Total(tally) = Len(hand) + Total(tally)
    BY <1>1, <1>2
<1> QED BY <1>1, <1>2, <1>3, RequeueMoves

LEMMA NotRecordedKeeps ==
    ASSUME IInv, NotRecorded
    PROVE  IInv'
<1>1. /\ pc = "waiting" /\ off' = TRUE /\ tally' = Count("dropped", inFlight) /\ NextBatch
      /\ UNCHANGED <<submitted, entered, missed, turns, shed, hashOnly, refused, listed, paused>>
    BY DEF NotRecorded, entry
<1>2. Moves
    BY <1>1, BatchCounted DEF NextBatch
<1>3. hashOnly' \subseteq 1 .. submitted /\ refused' \in BOOLEAN /\ paused' \in BOOLEAN
    BY <1>1 DEF IInv, Marks, Switches
<1> QED BY <1>1, <1>2, <1>3, AfterBatch

LEMMA TooLargeKeeps ==
    ASSUME IInv, TooLarge
    PROVE  IInv'
<1>1. /\ pc = "waiting" /\ NextBatch /\ hand' = Later
      /\ UNCHANGED <<submitted, entered, missed, refused, off, listed, paused>>
    BY DEF TooLarge, NextBatch, entry
<1>2. refused' \in BOOLEAN /\ paused' \in BOOLEAN /\ off' \in BOOLEAN /\ hashOnly \subseteq 1 .. submitted
    BY <1>1 DEF IInv, Marks, Switches
<1>3. CASE inFlight = 1 /\ Batch[1] \notin hashOnly
    <2>1. hashOnly' = hashOnly \cup {Batch[1]} /\ Becomes(Batch \o turns, tally)
        BY <1>3 DEF TooLarge
    <2>2. Batch[1] \in 1 .. submitted
        BY <1>3, HandParts DEF ToSet
    <2>3. Moves
        BY <1>1, <2>1, BatchBack
    <2>4. hashOnly' \subseteq 1 .. submitted
        BY <1>2, <2>1, <2>2
    <2> QED BY <1>1, <1>2, <2>3, <2>4, AfterBatch
<1>4. CASE ~(inFlight = 1 /\ Batch[1] \notin hashOnly)
    <2>1. tally' = Count("dropped", inFlight) /\ UNCHANGED <<hashOnly, turns, shed>>
        BY <1>4 DEF TooLarge
    <2>2. Moves
        BY <1>1, <2>1, BatchCounted
    <2> QED BY <1>1, <1>2, <2>1, <2>2, AfterBatch
<1> QED BY <1>3, <1>4

LEMMA FailsKeeps ==
    ASSUME IInv, Fails
    PROVE  IInv'
<1>1. /\ Becomes(Batch \o turns, tally) /\ paused' = TRUE /\ pc' = "failing" /\ hand' = Later /\ inFlight' = 0
      /\ UNCHANGED <<submitted, entered, missed, hashOnly, refused, off, listed, digests, holder, caller>>
    BY DEF Fails, entry
<1>2. Moves
    BY <1>1, BatchBack
<1>3. Len(Later) \in Nat
    BY HandParts
<1>4. Stands'
    BY <1>1, <1>3 DEF Stands
<1>5. Marks' /\ Switches'
    BY <1>1 DEF caller, IInv, Marks, Switches
<1> QED BY <1>1, <1>2, <1>4, <1>5, KeepBy DEF caller

\* Everything the sender holds goes back at once.
LEMMA HandBack ==
    ASSUME IInv, UNCHANGED submitted, hand' = <<>>, Becomes(hand \o turns, tally)
    PROVE  Moves
<1>1. hand \in Frames /\ Len(hand) \in Nat /\ tally \in Tallies /\ Total(tally) \in Nat
    BY HandParts, TallyParts DEF IInv, Queue
<1>2. hand' \in Frames /\ Len(hand') = 0 /\ ToSet(hand') = {}
    BY Empty DEF Frames
<1>3. Len(hand) + Len(hand') + Total(tally) = Len(hand) + Total(tally)
    BY <1>1, <1>2
<1> QED BY <1>1, <1>2, <1>3, RequeueMoves

LEMMA RequeueRestKeeps ==
    ASSUME IInv, RequeueRest
    PROVE  IInv'
<1>1. /\ pc = "failing" /\ hand' = <<>> /\ digests' = {} /\ Return(FALSE)
      /\ UNCHANGED <<submitted, entered, missed, hashOnly, refused, off, listed, inFlight, paused>>
    BY DEF RequeueRest, entry
<1>2. Moves
    <2>1. CASE hand = <<>>
        BY <1>1, <2>1, StillMoves DEF RequeueRest
    <2>2. CASE hand # <<>>
        BY <1>1, <2>2, HandBack DEF RequeueRest
    <2> QED BY <2>1, <2>2
<1>3. inFlight' = 0 /\ paused' \in BOOLEAN /\ listed' \in BOOLEAN
    BY <1>1 DEF IInv, Stands, Switches
<1> QED BY <1>1, <1>2, <1>3, AfterReturn

\* A step that lets go of n of the sender's frames, and counts them nowhere.
LEMMA LetGo ==
    ASSUME IInv, UNCHANGED <<submitted, entered, turns, shed, tally, asked, settled>>, NEW n \in Nat,
           hand' \in Frames, ToSet(hand') \subseteq ToSet(hand), Len(hand') + n = Len(hand),
           missed' \in [{"cancelled", "unread"} -> Nat], Lost' = Lost + n, Stands', Marks', Switches'
    PROVE  IInv'
<1>1. /\ Len(turns) \in Nat /\ Len(hand) \in Nat /\ Len(hand') \in Nat /\ Total(tally) \in Nat /\ Lost \in Nat
    BY Elements, TallyParts, LostParts DEF IInv, Queue, Frames
<1>2. Len(turns) + Len(hand) + Total(tally) + Lost = entered
    BY DEF IInv, Account
<1>3. Len(turns') + Len(hand') + Total(tally') + Lost' = entered'
    BY <1>1, <1>2
<1>4. Account'
    BY <1>3 DEF IInv, Account
<1>5. Queue' /\ Flushes'
    BY DEF IInv, Queue, Frames, Flushes
<1>6. FlushMeansSettled'
    BY DEF IInv, FlushMeansSettled
<1> QED BY <1>4, <1>5, <1>6 DEF IInv

LEMMA CancelledKeeps ==
    ASSUME IInv, Cancelled
    PROVE  IInv'
<1>1. /\ hand' = <<>> /\ inFlight' = 0 /\ digests' = {} /\ Return(FALSE)
      /\ UNCHANGED <<submitted, entered, hashOnly, refused, off, listed, paused>>
    BY DEF Cancelled
<1>2. paused' \in BOOLEAN /\ listed' \in BOOLEAN
    BY <1>1 DEF IInv, Switches
<1>3. CASE /\ pc = "refreshing" /\ missed' = [missed EXCEPT !["cancelled"] = @ + Len(hand)]
           /\ UNCHANGED <<turns, shed, tally>>
    <2>1. Len(hand) \in Nat /\ hand' \in Frames /\ Len(hand') = 0 /\ ToSet(hand') = {}
        BY <1>1, HandParts, Empty DEF Frames
    <2>2. missed \in [{"cancelled", "unread"} -> Nat]
        BY DEF IInv, Account
    <2>3. missed' \in [{"cancelled", "unread"} -> Nat] /\ Lost' = Lost + Len(hand)
        BY <1>3, <2>1, <2>2 DEF Lost
    <2>4. /\ pc' = "idle" /\ holder' \in Senders \cup {None} /\ flushing' \in {"no", "asked", "in"}
          /\ UNCHANGED <<asked, settled, stopping>>
        BY <1>1, Returned
    <2>5. Stands'
        BY <1>1, <2>1, <2>4 DEF Stands
    <2>6. Marks' /\ Switches'
        BY <1>1, <2>4 DEF IInv, Marks, Switches
    <2> QED BY <1>1, <1>3, <2>1, <2>3, <2>4, <2>5, <2>6, LetGo
<1>4. CASE Becomes(hand \o turns, tally) /\ UNCHANGED missed
    <2>1. Moves
        BY <1>1, <1>4, HandBack
    <2> QED BY <1>1, <1>2, <1>4, <2>1, AfterReturn
<1> QED BY <1>3, <1>4 DEF Cancelled

LEMMA UnreadKeeps ==
    ASSUME IInv, Unread
    PROVE  IInv'
<1>1. /\ pc = "waiting" /\ NextBatch /\ paused' = FALSE
      /\ missed' = [missed EXCEPT !["unread"] = @ + inFlight]
      /\ UNCHANGED <<submitted, entered, turns, shed, tally, hashOnly, refused, off, listed>>
    BY DEF Unread
<1>2. /\ Len(hand) \in Nat /\ inFlight \in Nat /\ Later \in Frames /\ Len(Later) = Len(hand) - inFlight
      /\ ToSet(Later) \subseteq ToSet(hand)
    BY HandParts
<1>3. missed \in [{"cancelled", "unread"} -> Nat]
    BY DEF IInv, Account
<1>4. missed' \in [{"cancelled", "unread"} -> Nat] /\ Lost' = Lost + inFlight
    BY <1>1, <1>2, <1>3 DEF Lost
<1>5. /\ hand' = Later /\ Stands' /\ digests' \subseteq digests
      /\ pc' \in {"idle", "waiting"} /\ holder' \in Senders \cup {None} /\ flushing' \in {"no", "asked", "in"}
      /\ UNCHANGED <<asked, settled, stopping>>
    BY <1>1, Continued
<1>6. Marks' /\ Switches'
    BY <1>1, <1>5 DEF IInv, Marks, Switches
<1>7. Len(hand') + inFlight = Len(hand)
    BY <1>2, <1>5
<1> QED BY <1>1, <1>2, <1>4, <1>5, <1>6, <1>7, LetGo

\* The steps that move no frame.
LEMMA CallFlushKeeps ==
    ASSUME IInv, CallFlush
    PROVE  IInv'
<1>1. /\ flushing' = "asked" /\ asked' = submitted /\ stopping' \in {stopping, TRUE}
      /\ UNCHANGED <<submitted, entered, missed, turns, shed, hashOnly, refused, off, listed, sender, settled, paused,
                     tally>>
    BY DEF CallFlush, entry
<1>2. Queue' /\ Stands' /\ Marks' /\ Account' /\ FlushMeansSettled'
    BY <1>1 DEF sender, IInv, Queue, Frames, Stands, Marks, Account, Lost, FlushMeansSettled
<1>3. Switches'
    BY <1>1 DEF sender, IInv, Switches
<1>4. Flushes'
    BY <1>1, TurnQueueAssumption DEF IInv, Queue, Flushes
<1> QED BY <1>2, <1>3, <1>4 DEF IInv

LEMMA FlushDoneKeeps ==
    ASSUME IInv, FlushDone
    PROVE  IInv'
<1>1. /\ pc = "idle" /\ turns = <<>> /\ flushing' = "no" /\ holder' = None /\ settled' = asked
      /\ UNCHANGED <<submitted, entered, missed, turns, shed, hashOnly, refused, off, listed, pc, hand, inFlight,
                     digests, asked, stopping, paused, tally>>
    BY DEF FlushDone, Leave, entry
<1>2. hand = <<>>
    BY <1>1 DEF IInv, Stands
<1>3. ToSet(turns') = {} /\ ToSet(hand') = {}
    BY <1>1, <1>2 DEF ToSet
<1>4. FlushMeansSettled'
    BY <1>3 DEF FlushMeansSettled
<1>5. Queue' /\ Stands' /\ Marks' /\ Account'
    BY <1>1 DEF IInv, Queue, Frames, Stands, Marks, Account, Lost
<1>6. Switches' /\ Flushes'
    BY <1>1 DEF IInv, Switches, Flushes
<1> QED BY <1>4, <1>5, <1>6 DEF IInv

LEMMA QuietKeeps ==
    ASSUME IInv, OffEnds \/ Doze \/ PauseEnds \/ EnterFlush \/ FlushTooLate \/ FlushTimeout
    PROVE  IInv'
<1>1. UNCHANGED <<submitted, entered, missed, turns, shed, hashOnly, refused, listed, pc, hand, inFlight, digests,
                  asked, settled, stopping, tally>>
    BY DEF entry, OffEnds, Doze, PauseEnds, EnterFlush, FlushTooLate, FlushTimeout, Leave, sender, caller
<1>2. Moves
    BY <1>1, StillMoves
<1>3. Stands' /\ Marks'
    BY <1>1 DEF IInv, Stands, Marks
<1>4. /\ off' \in BOOLEAN /\ paused' \in BOOLEAN /\ holder' \in Senders \cup {None}
      /\ flushing' \in {"no", "asked", "in"}
    BY DEF OffEnds, Doze, PauseEnds, EnterFlush, FlushTooLate, FlushTimeout, Leave, sender, caller, Senders, IInv, Switches
<1>5. Switches'
    BY <1>1, <1>4 DEF IInv, Switches
<1> QED BY <1>1, <1>2, <1>3, <1>5, KeepBy

-----------------------------------------------------------------------------
(* The theorems *)

LEMMA InitInv == Init => IInv
<1> SUFFICES ASSUME Init PROVE IInv
    OBVIOUS
<1>1. /\ submitted = 0 /\ turns = <<>> /\ hand = <<>> /\ shed = {} /\ tally = [k \in Kinds |-> 0]
      /\ inFlight = 0 /\ pc = "idle" /\ asked = 0 /\ settled = 0
    BY DEF Init
<1>2. <<>> \in Seq(1 .. submitted) /\ Len(<<>>) = 0 /\ ToSet(<<>>) = {}
    BY Empty
<1>3. Queue
    <2>1. Bytes(turns, shed) = 0
        BY <1>1, <1>2, BytesNat
    <2>2. Len(turns) <= MaxTurns /\ Bytes(turns, shed) <= MaxBytes /\ submitted \in 0 .. MaxSubmits
        BY <1>1, <2>1, TurnQueueAssumption
    <2>3. tally \in Tallies
        BY <1>1 DEF Tallies
    <2> QED BY <1>1, <1>2, <2>2, <2>3 DEF Queue, Frames
<1>4. Account
    <2>1. Total(tally) = 0
        BY <1>1 DEF Total, Kinds
    <2>2. Lost = 0 /\ missed \in [{"cancelled", "unread"} -> Nat] /\ entered = 0
        BY DEF Init, NoLoss, Lost
    <2> QED BY <1>1, <1>2, <2>1, <2>2 DEF Account
<1>5. Stands /\ FlushMeansSettled /\ Flushes
    BY <1>1, <1>2 DEF Stands, FlushMeansSettled, Flushes
<1>6. Marks /\ Switches
    BY DEF Init, Marks, Switches
<1> QED BY <1>3, <1>4, <1>5, <1>6 DEF IInv

LEMMA NextInv == IInv /\ [Next]_vars => IInv'
<1> SUFFICES ASSUME IInv, [Next]_vars PROVE IInv'
    OBVIOUS
<1>1. CASE Submit
    BY <1>1, SubmitKeeps
<1>2. CASE OffEnds \/ Doze \/ PauseEnds \/ EnterFlush \/ FlushTooLate \/ FlushTimeout
    BY <1>2, QuietKeeps
<1>3. CASE CallFlush
    BY <1>3, CallFlushKeeps
<1>4. CASE FlushDone
    BY <1>4, FlushDoneKeeps
<1>5. ASSUME NEW s \in Senders, Take(s) PROVE IInv'
    BY <1>5, TakeKeeps
<1>6. CASE SenderStep
    BY <1>6, RefreshKeeps, BuildKeeps, BuildFailsKeeps, AcceptedKeeps, NotRecordedKeeps, TooLargeKeeps, FailsKeeps,
       RequeueRestKeeps, UnreadKeeps DEF SenderStep
<1>7. CASE Cancelled
    BY <1>7, CancelledKeeps
<1>8. CASE UNCHANGED vars
    <2>1. UNCHANGED <<submitted, entered, missed, turns, shed, hashOnly, refused, off, listed, pc, holder, hand,
                      inFlight, digests, flushing, asked, settled, stopping, paused, tally>>
        BY <1>8 DEF vars, entry, sender, caller
    <2> QED BY <2>1 DEF IInv, Queue, Frames, Stands, Marks, Switches, Flushes, Account, Lost, FlushMeansSettled
<1> QED BY <1>1, <1>2, <1>3, <1>4, <1>5, <1>6, <1>7, <1>8 DEF Next

LEMMA Invariant == Spec => []IInv
BY InitInv, NextInv, PTL DEF Spec

\* The queue stays within its two limits, and no counter exceeds the turns that were closed.
THEOREM TypeCorrect == Spec => []TypeOK
<1>1. Init => wakes \in BOOLEAN
    BY DEF Init
<1>2. wakes \in BOOLEAN /\ [Next]_vars => (wakes \in BOOLEAN)'
    <2> SUFFICES ASSUME wakes \in BOOLEAN, [Next]_vars PROVE wakes' \in BOOLEAN
        OBVIOUS
    <2>1. CASE SenderStep
        BY <2>1 DEF SenderStep, entry, Refresh, Build, BuildFails, Accepted, Unread, NotRecorded, TooLarge, Fails,
                    RequeueRest
    <2>2. CASE Next /\ ~SenderStep
        BY <2>2 DEF Next, entry, Submit, Doze, OffEnds, PauseEnds, CallFlush, EnterFlush, FlushDone, FlushTooLate,
                    FlushTimeout, Take, Cancelled
    <2>3. CASE UNCHANGED vars
        BY <2>3 DEF vars, entry
    <2> QED BY <2>1, <2>2, <2>3
<1> QED BY <1>1, <1>2, Invariant, InvTypes, PTL DEF Spec

\* No turn that recording let in is counted twice, and each is in the queue, in the sender's hands, or in
\* `sent` or `dropped` of TurnRecorder (turns/recorder.py), as long as no batch was let go of uncounted: by a
\* flush() cancelled while the profile is read, or for an answer that does not parse.
THEOREM EveryTurnAccounted == Spec => []Accounted
BY Invariant, AccountCounts, PTL

\* A flush() that said True left none of the turns closed before it in the queue or in flight.
THEOREM FlushesSettle == Spec => []FlushMeansSettled
<1>1. IInv => FlushMeansSettled
    BY DEF IInv
<1> QED BY <1>1, Invariant, PTL
=============================================================================
