-------------------------- MODULE EventQueueProofs --------------------------
(***************************************************************************)
(* What holds of the event queue for every capacity, batch limit, number   *)
(* of items and set of callers.                                            *)
(***************************************************************************)
EXTENDS EventQueue, SequenceTheorems, FiniteSetTheorems, TLAPS

\* A sequence's prefix and the rest of it hold what it holds.
LEMMA SplitRange ==
  ASSUME NEW S, NEW s \in Seq(S), NEW n \in 0..Len(s)
  PROVE  /\ SubSeq(s, 1, n) \in Seq(S) /\ Len(SubSeq(s, 1, n)) = n
         /\ SubSeq(s, n + 1, Len(s)) \in Seq(S) /\ Len(SubSeq(s, n + 1, Len(s))) = Len(s) - n
         /\ Range(SubSeq(s, 1, n)) \cup Range(SubSeq(s, n + 1, Len(s))) = Range(s)
<1> DEFINE a == SubSeq(s, 1, n)
           b == SubSeq(s, n + 1, Len(s))
<1>1. a \in Seq(S) /\ Len(a) = n /\ b \in Seq(S) /\ Len(b) = Len(s) - n
  OBVIOUS
<1>2. a \o b = s
  <2>1. 1 \in 1..Len(s) + 1 /\ n \in (1 - 1)..Len(s) /\ Len(s) \in n..Len(s)
    OBVIOUS
  <2>2. a \o b = SubSeq(s, 1, Len(s))
    BY <2>1, ConcatAdjacentSubSeq, Zenon
  <2> QED BY <2>2, SubSeqFull, Zenon
<1>3. Range(a) \cup Range(b) = Range(s)
  <2> HIDE DEF a, b
  <2>1. Range(a \o b) = Range(a) \cup Range(b)
    BY <1>1, RangeConcatenation, ZenonT(30)
  <2> QED BY <2>1, <1>2, Zenon
<1> QED BY <1>1, <1>3

\* requeue() keeps a prefix that fits and cuts the rest; together they are the batch.
LEMMA RequeueSplits ==
  ASSUME NEW S, NEW batch \in Seq(S), items \in Seq(S), Len(items) <= Capacity, Capacity \in Nat
  PROVE  /\ Kept(batch) \in Seq(S) /\ Cut(batch) \in Seq(S)
         /\ Kept(batch) = SubSeq(batch, 1, Len(Kept(batch))) /\ Len(Kept(batch)) \in 0..Len(batch)
         /\ Kept(batch) \o items \in Seq(S) /\ Len(Kept(batch) \o items) <= Capacity
         /\ Range(Kept(batch)) \cup Range(Cut(batch)) = Range(batch)
         /\ Range(Kept(batch) \o items) = Range(Kept(batch)) \cup Range(items)
<1> DEFINE n == Min2(Len(batch), Capacity - Len(items))
<1>1. n \in 0..Len(batch) /\ n + Len(items) <= Capacity
  BY DEF Min2
<1>2. Kept(batch) = SubSeq(batch, 1, n) /\ Len(Kept(batch)) = n
  BY <1>1, SplitRange DEF Kept
<1>3. Cut(batch) = SubSeq(batch, n + 1, Len(batch))
  BY <1>2 DEF Cut
<1> HIDE DEF n
<1>4. /\ Kept(batch) \in Seq(S) /\ Cut(batch) \in Seq(S)
      /\ Range(Kept(batch)) \cup Range(Cut(batch)) = Range(batch)
  BY <1>1, <1>2, <1>3, SplitRange
<1>5. Kept(batch) \o items \in Seq(S) /\ Len(Kept(batch) \o items) <= Capacity
  BY <1>1, <1>2, <1>4
<1>6. Range(Kept(batch) \o items) = Range(Kept(batch)) \cup Range(items)
  <2>1. Kept(batch) \in Seq(S)
    BY <1>4
  <2>2. \A k \in Seq(S) : Range(k \o items) = Range(k) \cup Range(items)
    BY RangeConcatenation
  <2> QED BY <2>1, <2>2, Zenon
<1> QED BY <1>1, <1>2, <1>4, <1>5, <1>6

LEMMA FiniteIds == IsFiniteSet(Ids)
<1>1. IsFiniteSet(Items) /\ IsFiniteSet(Beats)
  BY ConstantsAssumption, FS_Interval DEF Items, Beats
<1> QED BY <1>1, FS_Union DEF Ids

\* A set of ids is finite, so counting it adds a natural number to `dropped`.
LEMMA IdsFinite ==
  ASSUME NEW D, D \subseteq Ids
  PROVE  Cardinality(D) \in Nat
BY FiniteIds, FS_Subset, FS_CardinalityType
-----------------------------------------------------------------------------
(* The steps the actions share. *)

\* requeue(): the buffer stays within its capacity, and every id of the batch is queued or counted.
LEMMA RequeueEffect ==
  ASSUME TypeOK, NEW batch \in Seq(Ids), Requeue(batch)
  PROVE  /\ items' \in Seq(Ids) /\ Len(items') <= Capacity
         /\ dropped' \in Nat /\ lost' \subseteq Ids
         /\ UNCHANGED <<elapsed, offered>>
         /\ lost \subseteq lost'
         /\ Range(items') \subseteq Range(batch) \cup Range(items)
         /\ Range(batch) \cup Range(items) \subseteq Range(items') \cup lost'
<1>1. items \in Seq(Ids) /\ Len(items) <= Capacity /\ Capacity \in Nat
  BY ConstantsAssumption DEF TypeOK
<1> DEFINE K == Kept(batch)
           C == Cut(batch)
<1>2. /\ K \in Seq(Ids) /\ C \in Seq(Ids)
      /\ K \o items \in Seq(Ids) /\ Len(K \o items) <= Capacity
      /\ Range(K) \cup Range(C) = Range(batch)
      /\ Range(K \o items) = Range(K) \cup Range(items)
  BY <1>1, RequeueSplits
<1>3. /\ items' = K \o items /\ dropped' = dropped + Len(C)
      /\ lost' = lost \cup Range(C) /\ UNCHANGED <<elapsed, offered>>
  BY DEF Requeue
<1> HIDE DEF K, C
<1>4. Range(C) \subseteq Ids /\ Len(C) \in Nat
  BY <1>2, RangeOfSeq, LenProperties
<1>5. dropped \in Nat /\ lost \subseteq Ids
  BY DEF TypeOK
<1> QED BY <1>2, <1>3, <1>4, <1>5

\* drop(): counting a set of ids keeps the counter a number.
LEMMA DropEffect ==
  ASSUME TypeOK, NEW D, D \subseteq Ids, Drop(D)
  PROVE  /\ dropped' \in Nat /\ lost' = lost \cup D /\ lost' \subseteq Ids
         /\ UNCHANGED <<items, elapsed, offered>>
<1>1. Cardinality(D) \in Nat
  BY IdsFinite
<1> QED BY <1>1 DEF Drop, TypeOK

Labels == {"idle", "wait", "loop", "beat", "sent", "answered", "join"}

\* Moving a sender keeps its label one of the known ones and changes no other's.
LEMMA GotoEffect ==
  ASSUME pc \in [Senders -> Labels], NEW s \in Senders, NEW l \in Labels, Goto(s, l)
  PROVE  /\ pc' \in [Senders -> Labels] /\ pc'[s] = l
         /\ \A t \in Senders : t # s => pc'[t] = pc[t]
BY DEF Goto, Labels

\* Leaving frees the lock only of the sender that leaves.
LEMMA LeaveEffect ==
  ASSUME TypeOK, NEW s \in Senders, Leave(s)
  PROVE  /\ holder' \in Senders \cup {NoOne}
         /\ pc' \in [Senders -> Labels] /\ pc'[s] \in {"idle", "join"}
         /\ \A t \in Senders : t # s => pc'[t] = pc[t] /\ (holder = t => holder' = t)
BY GotoEffect DEF Leave, Labels, TypeOK, Goto

\* A settled batch leads to the next one with the lock kept, or out of flush() without it.
LEMMA GoOnEffect ==
  ASSUME TypeOK, NEW s \in Senders, NEW again \in BOOLEAN, GoOn(s, again)
  PROVE  /\ holder' \in Senders \cup {NoOne}
         /\ pc' \in [Senders -> Labels] /\ pc'[s] \in {"idle", "join", "loop"}
         /\ pc'[s] = "loop" => holder' = holder
         /\ \A t \in Senders : t # s => pc'[t] = pc[t] /\ (holder = t => holder' = t)
         /\ result' \in [Callers -> {"none", "true", "false"}]
         /\ \A c \in Callers : result'[c] = "true" => result[c] = "true"
<1> USE DEF TypeOK, Labels
<1>1. CASE s \in Callers /\ again
  BY <1>1, GotoEffect DEF GoOn
<1>2. CASE ~(s \in Callers /\ again)
  <2>1. Leave(s)
    BY <1>2 DEF GoOn, Return
  <2>2. /\ result' \in [Callers -> {"none", "true", "false"}]
        /\ \A c \in Callers : result'[c] = "true" => result[c] = "true"
    BY <1>2 DEF GoOn, Return
  <2> QED BY <2>1, <2>2, LeaveEffect
<1> QED BY <1>1, <1>2

\* Giving a batch up may put it among those that still land, unless it already has.
LEMMA GiveUpEffect ==
  ASSUME TypeOK, NEW s \in Senders, GiveUpOn(s)
  PROVE  /\ late' \subseteq Seq(Ids) /\ late \subseteq late'
         /\ late' \subseteq late \cup {held[s]}
         /\ UNCHANGED <<landed, beatsIn>>
BY DEF GiveUpOn, TypeOK

\* What the API applies is what the batch carries.
LEMMA ApplyEffect ==
  ASSUME TypeOK, NEW batch \in Seq(Ids), Apply(batch)
  PROVE  landed' = landed \cup Range(batch) /\ landed' \subseteq Ids /\ beatsIn' \in [Beats -> Nat]
<1>1. Range(batch) \subseteq Ids
  BY RangeOfSeq
<1> QED BY <1>1 DEF Apply, TypeOK

\* A sender puts down its batch; the others keep theirs.
LEMMA ReleaseEffect ==
  ASSUME TypeOK, NEW s \in Senders, Release(s)
  PROVE  /\ held' \in [Senders -> Seq(Ids)] /\ held'[s] = <<>>
         /\ \A t \in Senders : t # s => held'[t] = held[t]
<1>1. <<>> \in Seq(Ids)
  BY EmptySeq
<1> QED BY <1>1 DEF Release, TypeOK
-----------------------------------------------------------------------------
(* Types. *)

\* Everything a step may do to the variables' types, action by action.
LEMMA TypeStep ==
  ASSUME TypeOK, [Next]_vars
  PROVE  TypeOK'
<1> USE DEF Labels
<1>0. /\ Background \in Senders /\ Callers \subseteq Senders
      /\ Items \subseteq Ids /\ Beats \subseteq Ids /\ Refusable \subseteq Items
      /\ MaxItems \in Nat /\ Capacity \in Nat
  BY ConstantsAssumption DEF Senders, Ids
<1>1. CASE Put
  <2>1. offered + 1 \in Items /\ offered' \in 0..MaxItems
    BY <1>1, <1>0 DEF Put, TypeOK, Items
  <2>2. items' \in Seq(Ids) /\ Len(items') <= Capacity /\ dropped' \in Nat /\ lost' \subseteq Ids
    <3>1. CASE Len(items) >= Capacity
      BY <1>1, <1>0, <2>1, <3>1 DEF Put, TypeOK
    <3>2. CASE ~(Len(items) >= Capacity)
      <4>1. items' = Append(items, offered + 1) /\ UNCHANGED <<dropped, lost>>
        BY <1>1, <3>2 DEF Put
      <4>2. items \in Seq(Ids) /\ offered + 1 \in Ids /\ Len(items) \in Nat /\ Len(items) < Capacity
        BY <1>0, <2>1, <3>2, LenProperties DEF TypeOK
      <4>3. items' \in Seq(Ids) /\ Len(items') = Len(items) + 1
        BY <4>1, <4>2, AppendProperties
      <4> QED BY <4>1, <4>2, <4>3, <1>0 DEF TypeOK
    <3> QED BY <3>1, <3>2
  <2>3. UNCHANGED <<elapsed, pulse, pc, held, holder, paused, abandoned, faults, calls, api>>
    BY <1>1 DEF Put
  <2> QED BY <2>1, <2>2, <2>3 DEF TypeOK, pulse, calls, api
<1>2. CASE TimePasses \/ PauseEnds
  BY <1>2 DEF TimePasses, PauseEnds, TypeOK, buffer, pulse, calls, api
<1>3. CASE LandLate
  <2>1. PICK batch \in late : Apply(batch) /\ late' = late \ {batch}
    BY <1>3 DEF LandLate
  <2>2. landed' \subseteq Ids /\ beatsIn' \in [Beats -> Nat] /\ late' \subseteq Seq(Ids)
    BY <2>1, ApplyEffect DEF TypeOK
  <2> QED BY <1>3, <2>2 DEF LandLate, TypeOK, buffer, pulse, calls
<1>4. CASE BgWake
  BY <1>4, <1>0, GotoEffect DEF BgWake, TypeOK, buffer, pulse, calls, api
<1>5. CASE BgSkip
  BY <1>5, <1>0, LeaveEffect DEF BgSkip, TypeOK, buffer, pulse, calls, api
<1>6. ASSUME NEW s \in Senders, Acquire(s)
      PROVE  TypeOK'
  BY <1>6, GotoEffect DEF Acquire, TypeOK, buffer, pulse, calls, api
<1>7. ASSUME NEW s \in Senders, Take(s)
      PROVE  TypeOK'
  <2> DEFINE n == Min2(BatchLimit, Len(items))
  <2>1. items \in Seq(Ids) /\ n \in 0..Len(items) /\ Len(items) <= Capacity
    BY ConstantsAssumption DEF TypeOK, Min2
  <2>2. held' = [held EXCEPT ![s] = SubSeq(items, 1, n)] /\ items' = SubSeq(items, n + 1, Len(items))
    BY <1>7 DEF Take
  <2> HIDE DEF n
  <2>3. items' \in Seq(Ids) /\ Len(items') <= Capacity /\ held' \in [Senders -> Seq(Ids)]
    BY <2>1, <2>2, SplitRange, <1>0 DEF TypeOK
  <2>4. pc' \in [Senders -> Labels]
    BY <1>7, GotoEffect DEF Take, TypeOK
  <2> QED BY <1>7, <2>3, <2>4 DEF Take, TypeOK, pulse, calls, api
<1>8. ASSUME NEW s \in Senders, Post(s)
      PROVE  TypeOK'
  BY <1>8, GotoEffect DEF Post, TypeOK, buffer, pulse, calls, api
<1>9. ASSUME NEW s \in Senders, PostWithBeat(s)
      PROVE  TypeOK'
  <2> DEFINE beat == MaxItems + beats + 1
  <2>1. beat \in Ids /\ beats' \in 0..MaxBeats /\ claimed' \in Nat /\ sent' \in Nat
    BY <1>9, ConstantsAssumption DEF PostWithBeat, TypeOK, Ids, Beats
  <2>2. pc' \in [Senders -> Labels]
    BY <1>9, GotoEffect DEF PostWithBeat, TypeOK
  <2>3. \/ held' = [held EXCEPT ![s] = Append(held[s], beat)] /\ UNCHANGED buffer
        \/ Requeue(<<beat>>) /\ UNCHANGED held
    BY <1>9 DEF PostWithBeat
  <2> HIDE DEF beat
  <2>4. /\ held' \in [Senders -> Seq(Ids)]
        /\ items' \in Seq(Ids) /\ Len(items') <= Capacity /\ elapsed' \in BOOLEAN
        /\ offered' \in 0..MaxItems /\ dropped' \in Nat /\ lost' \subseteq Ids
    <3>1. CASE held' = [held EXCEPT ![s] = Append(held[s], beat)] /\ UNCHANGED buffer
      BY <3>1, <2>1 DEF TypeOK, buffer
    <3>2. CASE Requeue(<<beat>>) /\ UNCHANGED held
      <4>1. <<beat>> \in Seq(Ids)
        BY <2>1
      <4> QED BY <4>1, <3>2, RequeueEffect DEF TypeOK
    <3> QED BY <2>3, <3>1, <3>2
  <2> QED BY <1>9, <2>1, <2>2, <2>4 DEF PostWithBeat, TypeOK, calls, api
<1>10. ASSUME NEW s \in Senders, Land(s)
       PROVE  TypeOK'
  <2>1. landed' \subseteq Ids /\ beatsIn' \in [Beats -> Nat]
    BY <1>10, ApplyEffect DEF Land, TypeOK
  <2> QED BY <1>10, <2>1, GotoEffect DEF Land, TypeOK, buffer, pulse, calls
<1>11. ASSUME NEW s \in Senders, Answered(s)
       PROVE  TypeOK'
  <2>1. Range(held[s]) \cap Refusable \subseteq Ids
    BY <1>0
  <2>2. dropped' \in Nat /\ lost' \subseteq Ids /\ UNCHANGED <<items, elapsed, offered>>
    BY <1>11, <2>1, DropEffect DEF Answered
  <2>3. /\ held' \in [Senders -> Seq(Ids)] /\ holder' \in Senders \cup {NoOne}
        /\ pc' \in [Senders -> Labels] /\ result' \in [Callers -> {"none", "true", "false"}]
    BY <1>11, ReleaseEffect, GoOnEffect DEF Answered
  <2>4. sent' \in Nat
    BY <1>11, LenProperties DEF Answered, TypeOK
  <2> QED BY <1>11, <2>2, <2>3, <2>4 DEF Answered, TypeOK, api
<1>12. ASSUME NEW s \in Senders, Rejected(s)
       PROVE  TypeOK'
  <2>1. Range(held[s]) \cap Items \subseteq Ids
    BY <1>0
  <2>2. dropped' \in Nat /\ lost' \subseteq Ids /\ UNCHANGED <<items, elapsed, offered>>
    BY <1>12, <2>1, DropEffect DEF Rejected
  <2>3. /\ held' \in [Senders -> Seq(Ids)] /\ holder' \in Senders \cup {NoOne}
        /\ pc' \in [Senders -> Labels] /\ result' \in [Callers -> {"none", "true", "false"}]
        /\ late' \subseteq Seq(Ids) /\ UNCHANGED <<landed, beatsIn>>
    BY <1>12, ReleaseEffect, GoOnEffect, GiveUpEffect DEF Rejected
  <2> QED BY <1>12, <2>2, <2>3 DEF Rejected, TypeOK, pulse
<1>13. ASSUME NEW s \in Senders, Failed(s)
       PROVE  TypeOK'
  <2>1. /\ items' \in Seq(Ids) /\ Len(items') <= Capacity /\ dropped' \in Nat /\ lost' \subseteq Ids
        /\ UNCHANGED <<elapsed, offered>>
    BY <1>13, RequeueEffect DEF Failed, TypeOK
  <2>2. /\ held' \in [Senders -> Seq(Ids)] /\ holder' \in Senders \cup {NoOne}
        /\ pc' \in [Senders -> Labels] /\ result' \in [Callers -> {"none", "true", "false"}]
        /\ late' \subseteq Seq(Ids) /\ UNCHANGED <<landed, beatsIn>>
    BY <1>13, ReleaseEffect, GoOnEffect, GiveUpEffect DEF Failed
  <2> QED BY <1>13, <2>1, <2>2, SMTT(20) DEF Failed, TypeOK, pulse
<1>14. ASSUME NEW c \in Callers, CallFlush(c) \/ CallStop(c)
       PROVE  TypeOK'
  <2>1. pc' \in [Senders -> Labels]
    BY <1>14, <1>0, GotoEffect DEF CallFlush, CallStop, TypeOK
  <2>2. /\ mark' = [mark EXCEPT ![c] = offered] /\ result' = [result EXCEPT ![c] = "none"]
        /\ (stopping' = TRUE \/ stopping' = stopping) /\ closing' \in {c, NoOne, closing} /\ flushes' = flushes + 1
        /\ UNCHANGED <<buffer, pulse, held, holder, paused, abandoned, faults, api>>
    BY <1>14 DEF CallFlush, CallStop
  <2>3. mark' \in [Callers -> 0..MaxItems] /\ result' \in [Callers -> {"none", "true", "false"}]
    BY <2>2 DEF TypeOK
  <2>4. closing' \in Callers \cup {NoOne} /\ flushes' \in Nat
    BY <2>2, <1>14 DEF TypeOK
  <2>6. stopping' \in BOOLEAN
    BY <2>2, Zenon DEF TypeOK
  <2>5. UNCHANGED <<items, elapsed, offered, dropped, lost, sent, beats, claimed, held, holder, paused, abandoned,
                    faults, landed, beatsIn, late>>
    BY <2>2 DEF buffer, pulse, api
  <2> QED BY <2>1, <2>3, <2>4, <2>5, <2>6 DEF TypeOK
<1>15. ASSUME NEW c \in Callers, FlushDone(c) \/ FlushTimeout(c)
       PROVE  TypeOK'
  <2>1. holder' \in Senders \cup {NoOne} /\ pc' \in [Senders -> Labels]
    BY <1>15, <1>0, LeaveEffect DEF FlushDone, FlushTimeout, Return
  <2> QED BY <1>15, <2>1 DEF FlushDone, FlushTimeout, Return, TypeOK, buffer, pulse, api
<1>16. ASSUME NEW s \in Senders, CancelSend(s)
       PROVE  /\ items' \in Seq(Ids) /\ Len(items') <= Capacity /\ elapsed' \in BOOLEAN
              /\ offered' \in 0..MaxItems /\ dropped' \in Nat /\ lost' \subseteq Ids
              /\ held' \in [Senders -> Seq(Ids)] /\ holder' \in Senders \cup {NoOne}
              /\ late' \subseteq Seq(Ids) /\ landed' \subseteq Ids /\ beatsIn' \in [Beats -> Nat]
  <2>1. held[s] \in Seq(Ids) /\ Requeue(held[s]) /\ Release(s) /\ GiveUpOn(s)
        /\ holder' \in {holder, NoOne}
    BY <1>16 DEF CancelSend, TypeOK
  <2> QED BY <2>1, RequeueEffect, ReleaseEffect, GiveUpEffect DEF TypeOK
<1>17. ASSUME NEW c \in Callers, CancelFlush(c)
       PROVE  TypeOK'
  <2>1. pc' \in [Senders -> Labels]
    BY <1>17, <1>0, GotoEffect DEF CancelFlush, TypeOK
  <2>2. CASE CancelSend(c)
    <3>1. UNCHANGED <<pulse, paused, abandoned, calls>> /\ faults' = faults + 1
      BY <1>17 DEF CancelFlush
    <3>2. /\ items' \in Seq(Ids) /\ Len(items') <= Capacity /\ elapsed' \in BOOLEAN
          /\ offered' \in 0..MaxItems /\ dropped' \in Nat /\ lost' \subseteq Ids
          /\ held' \in [Senders -> Seq(Ids)] /\ holder' \in Senders \cup {NoOne}
          /\ late' \subseteq Seq(Ids) /\ landed' \subseteq Ids /\ beatsIn' \in [Beats -> Nat]
      BY <1>16, <1>0, <2>2
    <3> QED BY <3>1, <3>2, <2>1 DEF TypeOK, pulse, calls
  <2>3. CASE UNCHANGED <<buffer, held, holder, api>>
    BY <1>17, <2>1, <2>3 DEF CancelFlush, TypeOK, buffer, pulse, calls, api
  <2> QED BY <1>17, <2>2, <2>3 DEF CancelFlush
<1>18. ASSUME NEW c \in Callers, StopTask(c)
       PROVE  TypeOK'
  <2>1. pc' \in [Senders -> Labels]
    BY <1>18, <1>0 DEF StopTask, TypeOK
  <2>2. CASE CancelSend(Background)
    BY <1>18, <1>16, <1>0, <2>1, <2>2 DEF StopTask, TypeOK, pulse, calls
  <2>3. CASE UNCHANGED <<buffer, held, holder, api>>
    BY <1>18, <2>1, <2>3 DEF StopTask, TypeOK, buffer, pulse, calls, api
  <2> QED BY <1>18, <2>2, <2>3 DEF StopTask
<1>19. ASSUME NEW c \in Callers, Interrupt(c)
       PROVE  TypeOK'
  <2>1. pc' \in [Senders -> Labels]
    BY <1>19, <1>0, GotoEffect DEF Interrupt, TypeOK
  <2>2. /\ held' \in [Senders -> Seq(Ids)] /\ late' \subseteq Seq(Ids)
        /\ UNCHANGED <<landed, beatsIn>>
    BY <1>19, <1>0, ReleaseEffect, GiveUpEffect DEF Interrupt
  <2>3. abandoned' \subseteq Ids /\ holder' \in Senders \cup {NoOne} /\ faults' \in Nat
    BY <1>19, <1>0, RangeOfSeq DEF Interrupt, TypeOK
  <2> QED BY <1>19, <2>1, <2>2, <2>3 DEF Interrupt, TypeOK, buffer, pulse, calls
<1>20. CASE UNCHANGED vars
  BY <1>20 DEF vars, TypeOK, buffer, pulse, calls, api
<1> QED
  BY <1>1, <1>2, <1>3, <1>4, <1>5, <1>6, <1>7, <1>8, <1>9, <1>10, <1>11, <1>12, <1>13, <1>14,
     <1>15, <1>17, <1>18, <1>19, <1>20 DEF Next, SenderStep, CallerStep

LEMMA TypeInit == Init => TypeOK
<1> SUFFICES ASSUME Init PROVE TypeOK
  OBVIOUS
<1>1. <<>> \in Seq(Ids) /\ <<>> \in Seq(Nat) /\ Len(<<>>) = 0
  BY EmptySeq
<1>2. held \in [Senders -> Seq(Ids)]
  BY <1>1 DEF Init
<1>3. beatsIn \in [Beats -> Nat] /\ mark \in [Callers -> 0..MaxItems]
  BY ConstantsAssumption DEF Init
<1>4. items \in Seq(Ids) /\ Len(items) <= Capacity /\ beats \in 0..MaxBeats /\ claimed \in Nat
  BY <1>1, ConstantsAssumption DEF Init
<1>5. pc \in [Senders -> Labels] /\ result \in [Callers -> {"none", "true", "false"}]
  BY DEF Init, Labels
<1>6. /\ offered \in 0..MaxItems /\ dropped \in Nat /\ sent \in Nat /\ flushes \in Nat /\ faults \in Nat
  BY ConstantsAssumption DEF Init
<1>7. /\ lost \subseteq Ids /\ abandoned \subseteq Ids /\ landed \subseteq Ids /\ late \subseteq Seq(Ids)
  BY Zenon DEF Init
<1>8. /\ elapsed \in BOOLEAN /\ holder \in Senders \cup {NoOne} /\ paused \in BOOLEAN /\ stopping \in BOOLEAN
      /\ closing \in Callers \cup {NoOne}
  BY DEF Init
<1> QED BY <1>2, <1>3, <1>4, <1>5, <1>6, <1>7, <1>8 DEF TypeOK, Labels

\* The queue's variables keep their types, and the buffer never exceeds its capacity.
THEOREM TypeCorrect == Spec => []TypeOK
<1>1. TypeOK /\ [Next]_vars => TypeOK'
  BY TypeStep
<1> QED BY TypeInit, <1>1, PTL DEF Spec
-----------------------------------------------------------------------------
(* One sender at a time. *)

\* The send lock has one holder through every step: a sender past its wait holds it.
LEMMA OneInFlightStep ==
  ASSUME TypeOK, OneInFlight, [Next]_vars
  PROVE  OneInFlight'
<1> DEFINE Past == {"loop", "beat", "sent", "answered"}
<1>0. /\ Background \in Senders /\ Callers \subseteq Senders /\ NoOne \notin Senders
      /\ pc \in [Senders -> Labels]
  BY ConstantsAssumption DEF Senders, TypeOK, Labels
<1>1. ASSUME UNCHANGED <<pc, holder>> PROVE OneInFlight'
  BY <1>1 DEF OneInFlight
\* A sender that stays on its side of the lock.
<1>2. ASSUME NEW s \in Senders, NEW l \in Labels, Goto(s, l), UNCHANGED holder,
             l \in Past => pc[s] \in Past
      PROVE  OneInFlight'
  <2>1. \A t \in Senders : pc'[t] \in Past => pc[t] \in Past
    BY <1>2, <1>0, GotoEffect
  <2> QED BY <2>1, <1>2 DEF OneInFlight
\* A sender that leaves for good.
<1>3. ASSUME NEW s \in Senders, Leave(s) PROVE OneInFlight'
  <2>1. pc'[s] \notin Past /\ \A t \in Senders : t # s => pc'[t] = pc[t] /\ (holder = t => holder' = t)
    BY <1>3, LeaveEffect
  <2> QED BY <2>1 DEF OneInFlight
<1>4. ASSUME NEW s \in Senders, Acquire(s) PROVE OneInFlight'
  <2>1. \A t \in Senders : t # s => pc'[t] = pc[t] /\ pc[t] \notin Past
    BY <1>4, <1>0, GotoEffect DEF Acquire, OneInFlight, Labels
  <2> QED BY <2>1, <1>4 DEF OneInFlight, Acquire
<1>5. ASSUME NEW s \in Senders, NEW again \in BOOLEAN, GoOn(s, again), pc[s] \in Past PROVE OneInFlight'
  <2>1. /\ pc'[s] = "loop" => holder' = holder
        /\ pc'[s] \in {"idle", "join", "loop"}
        /\ \A t \in Senders : t # s => pc'[t] = pc[t] /\ (holder = t => holder' = t)
    BY <1>5, GoOnEffect
  <2> QED BY <2>1, <1>5 DEF OneInFlight
<1>6. ASSUME NEW s \in Senders, NEW c \in Callers, pc' = [pc EXCEPT ![c] = "idle", ![s] = "idle"],
             holder' \in {holder, IF holder = s THEN NoOne ELSE holder}
      PROVE  OneInFlight'
  <2>1. \A t \in Senders : IF t \in {c, s} THEN pc'[t] = "idle" ELSE pc'[t] = pc[t]
    BY <1>6, <1>0
  <2> QED BY <2>1, <1>6 DEF OneInFlight
<1>7. CASE Put \/ TimePasses \/ PauseEnds \/ LandLate \/ UNCHANGED vars
  BY <1>7, <1>1 DEF Put, TimePasses, PauseEnds, LandLate, vars
<1>8. CASE BgWake
  BY <1>8, <1>0, <1>2 DEF BgWake, Labels
<1>9. CASE BgSkip
  BY <1>9, <1>0, <1>3 DEF BgSkip
<1>10. ASSUME NEW s \in Senders, SenderStep(s) \/ Land(s) PROVE OneInFlight'
  <2>1. CASE Take(s) \/ Post(s) \/ PostWithBeat(s) \/ Land(s)
    BY <2>1, <1>2 DEF Take, Post, PostWithBeat, Land, Labels
  <2>2. CASE Answered(s) \/ Rejected(s) \/ Failed(s)
    BY <2>2, <1>5 DEF Answered, Rejected, Failed
  <2> QED BY <1>10, <1>4, <2>1, <2>2 DEF SenderStep
<1>11. ASSUME NEW c \in Callers, CallerStep(c) PROVE OneInFlight'
  <2>1. CASE CallFlush(c) \/ CallStop(c)
    BY <2>1, <1>0, <1>2 DEF CallFlush, CallStop, Labels
  <2>2. CASE FlushDone(c) \/ FlushTimeout(c)
    BY <2>2, <1>0, <1>3 DEF FlushDone, FlushTimeout, Return
  <2>3. CASE CancelFlush(c) \/ Interrupt(c)
    <3>1. /\ pc' = [pc EXCEPT ![c] = "idle", ![c] = "idle"]
          /\ holder' = holder \/ holder' = IF holder = c THEN NoOne ELSE holder
      BY <2>3, <1>0 DEF CancelFlush, Interrupt, CancelSend, Goto
    <3> QED BY <3>1, <1>0, <1>6
  <2>4. CASE StopTask(c)
    BY <2>4, <1>0, <1>6 DEF StopTask, CancelSend
  <2> QED BY <1>11, <2>1, <2>2, <2>3, <2>4 DEF CallerStep
<1> QED BY <1>7, <1>8, <1>9, <1>10, <1>11 DEF Next

\* One batch is in flight per client: the background sender, flush() and stop() take turns.
THEOREM OneAtATime == Spec => []OneInFlight
<1>1. Init => OneInFlight
  BY DEF Init, OneInFlight
<1>2. TypeOK /\ OneInFlight /\ [Next]_vars => OneInFlight'
  BY OneInFlightStep
<1> QED BY <1>1, <1>2, TypeCorrect, PTL DEF Spec
-----------------------------------------------------------------------------
(* Nothing is lost.  NothingLost is not inductive alone: a sender must have empty hands when it
   takes a batch, and an answer must mean that the API applied what it answers. *)

EmptyHands ==
  \A s \in Senders : pc[s] \notin {"beat", "sent", "answered"} => held[s] = <<>>

AnsweredLanded ==
  \A s \in Senders : pc[s] = "answered" => Range(held[s]) \subseteq landed

Accounting == TypeOK /\ EmptyHands /\ AnsweredLanded /\ NothingLost

\* An id the client need not send again, or will not.
Gone == (landed \ Refusable) \cup lost \cup abandoned

\* The empty batch carries nothing.
LEMMA NothingHeld == Range(<<>>) = {}
BY EmptySeq DEF Range

\* Accounting survives a step in which every id stays somewhere.
LEMMA KeepAccount ==
  ASSUME NothingLost, 1..offered' \subseteq 1..offered \cup Queued' \cup lost',
         Gone \subseteq Gone', Queued \cup InFlight \subseteq Queued' \cup InFlight' \cup Gone'
  PROVE  NothingLost'
BY DEF NothingLost, Gone

\* Ids in flight stay so unless they were in the batch of the one sender that moved.
LEMMA FlightOf ==
  ASSUME NEW s \in Senders, \A t \in Senders : t # s => held'[t] = held[t]
  PROVE  InFlight \subseteq InFlight' \cup Range(held[s])
BY DEF InFlight

\* The hands and the answers, when only sender s moves and memory only grows.
LEMMA KeepHands ==
  ASSUME TypeOK, EmptyHands, AnsweredLanded, NEW s \in Senders, landed \subseteq landed',
         \A t \in Senders : t # s => held'[t] = held[t] /\ pc'[t] = pc[t],
         pc'[s] \notin {"beat", "sent", "answered"} => held'[s] = <<>>,
         pc'[s] = "answered" => Range(held'[s]) \subseteq landed'
  PROVE  EmptyHands' /\ AnsweredLanded'
<1>1. ASSUME NEW t \in Senders, t # s
      PROVE  /\ pc'[t] \notin {"beat", "sent", "answered"} => held'[t] = <<>>
             /\ pc'[t] = "answered" => Range(held'[t]) \subseteq landed'
  <2>1. held'[t] = held[t] /\ pc'[t] = pc[t]
    BY <1>1
  <2> QED BY <2>1 DEF EmptyHands, AnsweredLanded
<1> QED BY <1>1 DEF EmptyHands, AnsweredLanded

\* A sender that settles its batch: what it held is queued again, in memory, or counted.
LEMMA SettleAccount ==
  ASSUME Accounting, NEW s \in Senders, Release(s), offered' = offered,
         \A t \in Senders : t # s => pc'[t] = pc[t],
         pc'[s] \in {"idle", "join", "loop"},
         landed' = landed, lost \subseteq lost', abandoned \subseteq abandoned',
         Queued \subseteq Queued' \cup lost',
         Range(held[s]) \cap Items \subseteq Queued' \cup Gone'
  PROVE  EmptyHands' /\ AnsweredLanded' /\ NothingLost'
<1>1. held'[s] = <<>> /\ \A t \in Senders : t # s => held'[t] = held[t]
  BY ReleaseEffect DEF Accounting
<1>2. EmptyHands' /\ AnsweredLanded'
  BY <1>1, KeepHands DEF Accounting
<1>3. InFlight \subseteq InFlight' \cup Range(held[s])
  BY <1>1, FlightOf
<1>4. Gone \subseteq Gone'
  BY DEF Gone
<1>5. 1..offered \subseteq Items
  BY ConstantsAssumption DEF Accounting, TypeOK, Items
<1>6. NothingLost'
  BY <1>3, <1>4, <1>5 DEF Accounting, NothingLost, Gone
<1> QED BY <1>2, <1>6

\* A step that moves a sender, with the buffer, the batches and memory as they were.
LEMMA MoveAccount ==
  ASSUME Accounting, NEW s \in Senders, UNCHANGED <<items, offered, lost, held, abandoned, landed>>,
         \A t \in Senders : t # s => pc'[t] = pc[t],
         pc[s] = "join" \/ held[s] = <<>> \/ pc'[s] \in {"beat", "sent"}, pc'[s] # "answered",
         pc'[s] \in {"beat", "sent"} \/ pc[s] \notin {"beat", "sent", "answered"}
  PROVE  EmptyHands' /\ AnsweredLanded' /\ NothingLost'
<1>1. pc[s] = "join" => held[s] = <<>>
  BY DEF Accounting, EmptyHands
<1>2. EmptyHands' /\ AnsweredLanded'
  BY <1>1, KeepHands DEF Accounting
<1>3. NothingLost'
  BY DEF Accounting, NothingLost, Queued, InFlight
<1> QED BY <1>2, <1>3

\* An asyncio cancellation, or stop() ending the background task, puts the batch back.
LEMMA CancelAccount ==
  ASSUME Accounting, NEW s \in Senders, CancelSend(s), pc'[s] = "idle", UNCHANGED abandoned,
         \A t \in Senders : t # s => pc'[t] = pc[t]
  PROVE  EmptyHands' /\ AnsweredLanded' /\ NothingLost'
<1>1. Requeue(held[s]) /\ GiveUpOn(s) /\ Release(s)
  BY DEF CancelSend
<1>2. TypeOK /\ held[s] \in Seq(Ids)
  BY DEF Accounting, TypeOK
<1>3. /\ UNCHANGED offered /\ lost \subseteq lost' /\ landed' = landed
      /\ Range(held[s]) \cup Range(items) \subseteq Range(items') \cup lost'
  BY <1>1, <1>2, RequeueEffect, GiveUpEffect
<1>4. Queued \subseteq Queued' \cup lost' /\ Range(held[s]) \subseteq Queued' \cup Gone'
  BY <1>3 DEF Queued, Gone
<1> QED BY <1>1, <1>3, <1>4, SettleAccount

LEMMA AccountingStep ==
  ASSUME Accounting, [Next]_vars
  PROVE  EmptyHands' /\ AnsweredLanded' /\ NothingLost'
<1> DEFINE Goal == EmptyHands' /\ AnsweredLanded' /\ NothingLost'
<1>0. /\ Background \in Senders /\ Callers \subseteq Senders
      /\ TypeOK /\ EmptyHands /\ AnsweredLanded /\ NothingLost
      /\ pc \in [Senders -> Labels] /\ held \in [Senders -> Seq(Ids)] /\ items \in Seq(Ids)
      /\ Beats \subseteq Ids
  BY ConstantsAssumption DEF Senders, Accounting, TypeOK, Labels, Ids
<1>1. CASE Put
  <2>1. UNCHANGED <<pc, held, abandoned, landed>>
    BY <1>1 DEF Put, api
  <2>2. Queued \subseteq Queued' /\ 1..offered' \subseteq 1..offered \cup Queued' \cup lost' /\ lost \subseteq lost'
    <3>1. offered \in Nat /\ offered' = offered + 1
      BY <1>1, <1>0 DEF Put, TypeOK
    <3>2. CASE Len(items) >= Capacity
      BY <1>1, <3>1, <3>2 DEF Put, Queued
    <3>3. CASE ~(Len(items) >= Capacity)
      <4>1. items' = Append(items, offered + 1) /\ offered + 1 \in Ids /\ lost' = lost
        BY <1>1, <1>0, <3>1, <3>3, ConstantsAssumption DEF Put, Ids, Items, TypeOK
      <4>2. Range(items') = Range(items) \cup {offered + 1}
        <5>1. /\ items' \in Seq(Ids) /\ Len(items') = Len(items) + 1
              /\ \A i \in 1..Len(items) : items'[i] = items[i]
              /\ items'[Len(items) + 1] = offered + 1
          BY <4>1, <1>0, AppendProperties
        <5>2. DOMAIN items = 1..Len(items) /\ DOMAIN items' = 1..(Len(items) + 1) /\ Len(items) \in Nat
          BY <5>1, <1>0, LenProperties
        <5> QED BY <5>1, <5>2 DEF Range
      <4> QED BY <4>1, <4>2, <3>1 DEF Queued
    <3> QED BY <3>2, <3>3
  <2>3. EmptyHands' /\ AnsweredLanded'
    BY <2>1, <1>0 DEF EmptyHands, AnsweredLanded
  <2>4. Gone \subseteq Gone' /\ InFlight' = InFlight
    BY <2>1, <2>2 DEF Gone, InFlight
  <2> QED BY <2>2, <2>3, <2>4, <1>0, KeepAccount
<1>2. CASE TimePasses \/ PauseEnds \/ UNCHANGED vars
  <2>1. UNCHANGED <<items, offered, lost, held, abandoned, landed, pc>>
    BY <1>2 DEF TimePasses, PauseEnds, vars, buffer, api
  <2> QED BY <2>1, <1>0 DEF EmptyHands, AnsweredLanded, NothingLost, Queued, InFlight
<1>3. CASE LandLate
  <2>1. UNCHANGED <<items, offered, lost, held, abandoned, pc>> /\ landed \subseteq landed'
    BY <1>3 DEF LandLate, Apply, buffer
  <2> QED BY <2>1, <1>0 DEF EmptyHands, AnsweredLanded, NothingLost, Queued, InFlight
<1>4. ASSUME NEW s \in Senders, NEW l \in {"idle", "wait", "loop", "join"}, Goto(s, l),
             pc[s] \in {"idle", "wait", "loop"},
             UNCHANGED <<items, offered, lost, held, abandoned, landed>>
      PROVE  Goal
  <2>1. pc'[s] = l /\ \A t \in Senders : t # s => pc'[t] = pc[t]
    BY <1>4, <1>0, GotoEffect DEF Labels
  <2>2. held[s] = <<>>
    BY <1>4, <1>0 DEF EmptyHands
  <2> QED BY <2>1, <2>2, <1>4, MoveAccount
<1>5. CASE BgWake \/ BgSkip
  BY <1>5, <1>4, <1>0 DEF BgWake, BgSkip, Leave, buffer, api
<1>6. ASSUME NEW c \in Callers, CallFlush(c) \/ CallStop(c) \/ FlushDone(c) \/ FlushTimeout(c)
      PROVE  Goal
  <2>1. \E l \in {"idle", "wait", "join"} : Goto(c, l)
    BY <1>6 DEF CallFlush, CallStop, FlushDone, FlushTimeout, Return, Leave
  <2>2. pc[c] \in {"idle", "wait", "loop"} /\ UNCHANGED <<items, offered, lost, held, abandoned, landed>>
    BY <1>6 DEF CallFlush, CallStop, FlushDone, FlushTimeout, buffer, api
  <2> QED BY <2>1, <2>2, <1>4, <1>0
<1>7. ASSUME NEW s \in Senders, Acquire(s) PROVE Goal
  BY <1>7, <1>4 DEF Acquire, buffer, api
<1>8. ASSUME NEW s \in Senders, Take(s) PROVE Goal
  <2> DEFINE n == Min2(BatchLimit, Len(items))
  <2>1. n \in 0..Len(items)
    BY <1>0, ConstantsAssumption DEF Min2
  <2>2. /\ held' = [held EXCEPT ![s] = SubSeq(items, 1, n)]
        /\ items' = SubSeq(items, n + 1, Len(items))
        /\ UNCHANGED <<offered, lost, abandoned, landed>> /\ Goto(s, "beat") /\ pc[s] = "loop"
    BY <1>8 DEF Take, api
  <2> HIDE DEF n
  <2>3. held'[s] = SubSeq(items, 1, n) /\ \A t \in Senders : t # s => held'[t] = held[t]
    BY <2>2, <1>0
  <2>4. pc'[s] = "beat" /\ \A t \in Senders : t # s => pc'[t] = pc[t]
    BY <2>2, <1>0, GotoEffect DEF Labels
  <2>5. Queued \subseteq Queued' \cup InFlight'
    <3>1. Range(items) = Range(held'[s]) \cup Range(items')
      BY <2>1, <2>2, <2>3, <1>0, SplitRange
    <3> QED BY <3>1 DEF Queued, InFlight
  <2>6. InFlight \subseteq InFlight'
    <3>1. Range(held[s]) = {}
      BY <1>0, <2>2, NothingHeld DEF EmptyHands
    <3> QED BY <3>1, <2>3, FlightOf
  <2>7. EmptyHands' /\ AnsweredLanded'
    BY <2>2, <2>3, <2>4, <1>0, KeepHands
  <2> QED BY <2>2, <2>5, <2>6, <2>7, <1>0, KeepAccount DEF Gone
<1>9. ASSUME NEW s \in Senders, Post(s) PROVE Goal
  <2>1. pc'[s] = "sent" /\ \A t \in Senders : t # s => pc'[t] = pc[t]
    BY <1>9, <1>0, GotoEffect DEF Post, Labels
  <2> QED BY <2>1, <1>9, MoveAccount DEF Post, buffer, api
<1>10. ASSUME NEW s \in Senders, PostWithBeat(s) PROVE Goal
  <2> DEFINE beat == MaxItems + beats + 1
  <2>1. beat \in Ids
    BY <1>10, ConstantsAssumption DEF PostWithBeat, Accounting, TypeOK, Ids, Beats
  <2>2. /\ \/ held' = [held EXCEPT ![s] = Append(held[s], beat)] /\ UNCHANGED buffer
           \/ Requeue(<<beat>>) /\ UNCHANGED held
        /\ UNCHANGED <<abandoned, landed>> /\ Goto(s, "sent")
    BY <1>10 DEF PostWithBeat, api
  <2> HIDE DEF beat
  <2>3. pc'[s] = "sent" /\ \A t \in Senders : t # s => pc'[t] = pc[t]
    BY <2>2, <1>0, GotoEffect DEF Labels
  <2>4. CASE held' = [held EXCEPT ![s] = Append(held[s], beat)] /\ UNCHANGED buffer
    <3>1. held'[s] = Append(held[s], beat) /\ \A t \in Senders : t # s => held'[t] = held[t]
      BY <2>4, <1>0
    <3>2. Range(held[s]) \subseteq Range(held'[s])
      <4>1. held[s] \in Seq(Ids)
        BY <1>0
      <4>2. /\ held'[s] \in Seq(Ids) /\ Len(held'[s]) = Len(held[s]) + 1
            /\ \A i \in 1..Len(held[s]) : held'[s][i] = held[s][i]
        BY <4>1, <3>1, <2>1, AppendProperties
      <4>3. DOMAIN held[s] = 1..Len(held[s]) /\ DOMAIN held'[s] = 1..(Len(held[s]) + 1) /\ Len(held[s]) \in Nat
        BY <4>1, <4>2, LenProperties
      <4> QED BY <4>2, <4>3 DEF Range
    <3>3. InFlight \subseteq InFlight'
      BY <3>1, <3>2, FlightOf DEF InFlight
    <3>4. EmptyHands' /\ AnsweredLanded'
      BY <2>2, <2>3, <3>1, <1>0, KeepHands
    <3> QED BY <2>2, <2>4, <3>3, <3>4, <1>0, KeepAccount DEF Gone, Queued, buffer
  <2>5. CASE Requeue(<<beat>>) /\ UNCHANGED held
    <3>1. <<beat>> \in Seq(Ids)
      BY <2>1
    <3>2. UNCHANGED offered /\ lost \subseteq lost' /\ Range(items) \subseteq Range(items') \cup lost'
      BY <3>1, <2>5, <1>0, RequeueEffect
    <3>3. EmptyHands' /\ AnsweredLanded'
      BY <2>2, <2>3, <2>5, <1>0, KeepHands
    <3> QED BY <2>2, <2>5, <3>2, <3>3, <1>0, KeepAccount DEF Gone, Queued, InFlight
  <2> QED BY <2>2, <2>4, <2>5
<1>11. ASSUME NEW s \in Senders, Land(s) PROVE Goal
  <2>1. landed' = landed \cup Range(held[s]) /\ UNCHANGED <<items, offered, lost, held, abandoned>>
    BY <1>11 DEF Land, Apply, buffer
  <2>2. pc'[s] = "answered" /\ \A t \in Senders : t # s => pc'[t] = pc[t]
    BY <1>11, <1>0, GotoEffect DEF Land, Labels
  <2>3. EmptyHands' /\ AnsweredLanded'
    BY <2>1, <2>2, <1>0, KeepHands
  <2> QED BY <2>1, <2>3, <1>0, KeepAccount DEF Gone, Queued, InFlight
<1>12. ASSUME NEW s \in Senders, Answered(s) \/ Rejected(s) PROVE Goal
  <2>1. ASSUME NEW D, D \subseteq Ids, Drop(D), Range(held[s]) \cap Items \subseteq D \cup (landed \ Refusable)
        PROVE  Goal
    <3>1. lost' = lost \cup D /\ UNCHANGED <<items, offered>>
      BY <2>1, <1>0, DropEffect
    <3>2. Release(s) /\ UNCHANGED <<landed, abandoned>>
      BY <1>12 DEF Answered, Rejected, api, GiveUpOn
    <3>3. pc'[s] \in {"idle", "join", "loop"} /\ \A t \in Senders : t # s => pc'[t] = pc[t]
      BY <1>12, <1>0, GoOnEffect DEF Answered, Rejected
    <3>4. Range(held[s]) \cap Items \subseteq Gone'
      BY <2>1, <3>1, <3>2 DEF Gone
    <3> QED BY <3>1, <3>2, <3>3, <3>4, SettleAccount DEF Queued
  <2>2. CASE Answered(s)
    <3>1. /\ Drop(Range(held[s]) \cap Refusable) /\ Range(held[s]) \cap Refusable \subseteq Ids
          /\ Range(held[s]) \subseteq landed
      BY <2>2, <1>0, ConstantsAssumption DEF Answered, AnsweredLanded, Ids
    <3> QED BY <3>1, <2>1
  <2>3. CASE Rejected(s)
    <3>1. Drop(Range(held[s]) \cap Items) /\ Range(held[s]) \cap Items \subseteq Ids
      BY <2>3 DEF Rejected, Ids
    <3> QED BY <3>1, <2>1
  <2> QED BY <1>12, <2>2, <2>3
<1>13. ASSUME NEW s \in Senders, Failed(s) PROVE Goal
  <2>1. Requeue(held[s]) /\ GiveUpOn(s) /\ Release(s) /\ UNCHANGED abandoned /\ held[s] \in Seq(Ids)
    BY <1>13, <1>0 DEF Failed
  <2>2. /\ UNCHANGED offered /\ lost \subseteq lost' /\ landed' = landed
        /\ Range(held[s]) \cup Range(items) \subseteq Range(items') \cup lost'
    BY <2>1, <1>0, RequeueEffect, GiveUpEffect
  <2>3. pc'[s] \in {"idle", "join", "loop"} /\ \A t \in Senders : t # s => pc'[t] = pc[t]
    BY <1>13, <1>0, GoOnEffect DEF Failed
  <2>4. Queued \subseteq Queued' \cup lost' /\ Range(held[s]) \subseteq Queued' \cup Gone'
    BY <2>2 DEF Queued, Gone
  <2> QED BY <2>1, <2>2, <2>3, <2>4, SettleAccount
<1>14. ASSUME NEW c \in Callers, CancelFlush(c) PROVE Goal
  <2>1. pc'[c] = "idle" /\ (\A t \in Senders : t # c => pc'[t] = pc[t]) /\ UNCHANGED abandoned
    BY <1>14, <1>0, GotoEffect DEF CancelFlush, Labels
  <2>2. CASE CancelSend(c)
    BY <2>1, <2>2, <1>0, CancelAccount
  <2>3. CASE pc[c] = "wait" /\ UNCHANGED <<buffer, held, holder, api>>
    BY <1>14, <2>3, <1>4, <1>0 DEF CancelFlush, buffer, api
  <2> QED BY <1>14, <2>2, <2>3 DEF CancelFlush
<1>15. ASSUME NEW c \in Callers, StopTask(c) PROVE Goal
  <2>1. /\ pc[c] = "join" /\ pc[Background] \notin {"loop", "beat"} /\ UNCHANGED abandoned
        /\ pc' = [pc EXCEPT ![c] = "idle", ![Background] = "idle"] /\ c # Background
    BY <1>15, ConstantsAssumption DEF StopTask
  <2>2. pc'[c] = "idle" /\ pc'[Background] = "idle"
        /\ \A t \in Senders : t # c /\ t # Background => pc'[t] = pc[t]
    BY <2>1, <1>0
  <2>3. held[c] = <<>>
    BY <2>1, <1>0 DEF EmptyHands
  <2>4. CASE CancelSend(Background)
    <3>1. /\ Requeue(held[Background]) /\ GiveUpOn(Background) /\ Release(Background)
          /\ held[Background] \in Seq(Ids)
      BY <2>4, <1>0 DEF CancelSend
    <3>2. /\ UNCHANGED offered /\ lost \subseteq lost' /\ landed' = landed
          /\ Range(held[Background]) \cup Range(items) \subseteq Range(items') \cup lost'
      BY <3>1, <1>0, RequeueEffect, GiveUpEffect
    <3>3. held'[Background] = <<>> /\ \A t \in Senders : t # Background => held'[t] = held[t]
      BY <3>1, <1>0, ReleaseEffect
    <3>4. EmptyHands' /\ AnsweredLanded'
      BY <2>2, <2>3, <3>2, <3>3, <1>0 DEF EmptyHands, AnsweredLanded
    <3>5. InFlight \subseteq InFlight' \cup Range(held[Background])
      BY <3>3, <1>0, FlightOf
    <3>6. NothingLost'
      BY <2>1, <3>2, <3>5, <1>0, KeepAccount DEF Gone, Queued
    <3> QED BY <3>4, <3>6
  <2>5. CASE ~Sending(Background) /\ UNCHANGED <<buffer, held, holder, api>>
    <3>1. held[Background] = <<>>
      BY <2>1, <2>5, <1>0 DEF EmptyHands, Sending
    <3>2. UNCHANGED <<items, offered, lost, held, abandoned, landed>>
      BY <2>1, <2>5 DEF buffer, api
    <3>3. EmptyHands' /\ AnsweredLanded'
      BY <2>2, <2>3, <3>1, <3>2, <1>0 DEF EmptyHands, AnsweredLanded
    <3> QED BY <3>2, <3>3, <1>0 DEF NothingLost, Queued, InFlight
  <2> QED BY <1>15, <2>4, <2>5 DEF StopTask
<1>16. ASSUME NEW c \in Callers, Interrupt(c) PROVE Goal
  <2>1. /\ Release(c) /\ abandoned' = abandoned \cup Range(held[c])
        /\ UNCHANGED <<items, offered, lost>> /\ landed' = landed
    BY <1>16 DEF Interrupt, GiveUpOn, buffer
  <2>2. pc'[c] = "idle" /\ \A t \in Senders : t # c => pc'[t] = pc[t]
    BY <1>16, <1>0, GotoEffect DEF Interrupt, Labels
  <2> QED BY <2>1, <2>2, <1>0, SettleAccount DEF Queued, Gone
<1> QED
  BY <1>1, <1>2, <1>3, <1>5, <1>6, <1>7, <1>8, <1>9, <1>10, <1>11, <1>12, <1>13, <1>14, <1>15, <1>16
  DEF Next, SenderStep, CallerStep

\* The accounting holds in every state, the strengthening included.
LEMMA AlwaysAccounted == Spec => []Accounting
<1>1. Init => EmptyHands /\ AnsweredLanded /\ NothingLost
  BY DEF Init, EmptyHands, AnsweredLanded, NothingLost
<1>2. Accounting /\ [Next]_vars => EmptyHands' /\ AnsweredLanded' /\ NothingLost'
  BY AccountingStep
<1>3. Accounting <=> TypeOK /\ EmptyHands /\ AnsweredLanded /\ NothingLost
  BY DEF Accounting
<1> QED BY <1>1, <1>2, <1>3, TypeCorrect, PTL DEF Spec

\* Every item the queue was offered is waiting, being sent, in memory or counted in `dropped`.
THEOREM NothingIsLost == Spec => []NothingLost
<1>1. Accounting => NothingLost
  BY DEF Accounting
<1> QED BY <1>1, AlwaysAccounted, PTL
-----------------------------------------------------------------------------
(* flush() answers for what was queued when it was called.  Past the lock and with an empty queue
   there is nothing in flight, so by NothingLost everything offered so far has been answered. *)

\* A step settles what some sender held, or lets memory grow; only put() does neither.
Settles == offered' = offered /\ landed' = landed /\ lost \subseteq lost' /\ abandoned \subseteq abandoned'
Lands   == UNCHANGED <<offered, lost, abandoned>> /\ landed \subseteq landed'

LEMMA StepKinds ==
  ASSUME TypeOK, [Next]_vars
  PROVE  Put \/ Settles \/ Lands
<1>1. ASSUME UNCHANGED <<offered, lost, abandoned, landed>> PROVE Settles
  BY <1>1 DEF Settles
<1>2. ASSUME NEW s \in Senders, NEW batch, Requeue(batch), UNCHANGED abandoned, landed' = landed
      PROVE  Settles
  BY <1>2 DEF Requeue, Settles
<1>3. CASE TimePasses \/ PauseEnds \/ BgWake \/ BgSkip \/ UNCHANGED vars
  BY <1>3, <1>1 DEF TimePasses, PauseEnds, BgWake, BgSkip, vars, buffer, api
<1>4. CASE LandLate
  BY <1>4 DEF LandLate, Apply, Lands, buffer
<1>5. ASSUME NEW s \in Senders, SenderStep(s) \/ Land(s) PROVE Settles \/ Lands
  <2>1. CASE Acquire(s) \/ Take(s) \/ Post(s)
    BY <2>1, <1>1 DEF Acquire, Take, Post, buffer, api
  <2>2. CASE PostWithBeat(s)
    BY <2>2, <1>1, <1>2 DEF PostWithBeat, buffer, api
  <2>3. CASE Answered(s) \/ Rejected(s)
    BY <2>3 DEF Answered, Rejected, Drop, GiveUpOn, Settles, api
  <2>4. CASE Failed(s)
    BY <2>4, <1>2 DEF Failed, GiveUpOn
  <2>5. CASE Land(s)
    BY <2>5 DEF Land, Apply, Lands, buffer
  <2> QED BY <1>5, <2>1, <2>2, <2>3, <2>4, <2>5 DEF SenderStep
<1>6. ASSUME NEW c \in Callers, CallerStep(c) PROVE Settles
  <2>0. c \in Senders /\ Background \in Senders
    BY DEF Senders
  <2>1. CASE CallFlush(c) \/ CallStop(c) \/ FlushDone(c) \/ FlushTimeout(c)
    BY <2>1, <1>1 DEF CallFlush, CallStop, FlushDone, FlushTimeout, buffer, api
  <2>2. CASE CancelFlush(c) \/ StopTask(c)
    BY <2>0, <2>2, <1>1, <1>2 DEF CancelFlush, StopTask, CancelSend, GiveUpOn, buffer, api
  <2>3. CASE Interrupt(c)
    BY <2>3 DEF Interrupt, GiveUpOn, Settles, buffer
  <2> QED BY <1>6, <2>1, <2>2, <2>3 DEF CallerStep
<1> QED BY <1>3, <1>4, <1>5, <1>6 DEF Next

\* What was settled stays settled, and the count of items offered never falls.
LEMMA UndoubtedGrows ==
  ASSUME TypeOK, [Next]_vars
  PROVE  Undoubted \subseteq Undoubted' /\ offered <= offered'
<1>1. offered \in Nat
  BY ConstantsAssumption DEF TypeOK
<1>2. CASE Put
  BY <1>1, <1>2 DEF Put, Undoubted, api
<1>3. CASE Settles \/ Lands
  BY <1>1, <1>3 DEF Settles, Lands, Undoubted
<1> QED BY <1>2, <1>3, StepKinds

\* flush() answers "true" only from an empty queue, and starts over with what is offered then.
LEMMA WhoAnswersTrue ==
  ASSUME TypeOK, [Next]_vars, NEW c \in Callers
  PROVE  /\ result'[c] = "true" => FlushDone(c) \/ (result[c] = "true" /\ mark'[c] = mark[c])
         /\ mark'[c] \in {mark[c], offered}
<1>0. Background \in Senders /\ c \in Senders /\ Background \notin Callers
  BY ConstantsAssumption DEF Senders
<1> DEFINE Goal == /\ result'[c] = "true" => FlushDone(c) \/ (result[c] = "true" /\ mark'[c] = mark[c])
                   /\ mark'[c] \in {mark[c], offered}
<1>1. ASSUME UNCHANGED <<result, mark>> PROVE Goal
  BY <1>1
<1>2. ASSUME NEW s \in Senders, NEW again \in BOOLEAN, GoOn(s, again), UNCHANGED mark PROVE Goal
  BY <1>2, GoOnEffect
<1>3. CASE Put \/ TimePasses \/ PauseEnds \/ LandLate \/ BgWake \/ BgSkip \/ UNCHANGED vars
  BY <1>3, <1>1 DEF Put, TimePasses, PauseEnds, LandLate, BgWake, BgSkip, vars, calls
<1>4. ASSUME NEW s \in Senders, SenderStep(s) \/ Land(s) PROVE Goal
  <2>1. CASE Acquire(s) \/ Take(s) \/ Post(s) \/ PostWithBeat(s) \/ Land(s)
    BY <2>1, <1>1 DEF Acquire, Take, Post, PostWithBeat, Land, calls
  <2>2. CASE Answered(s) \/ Rejected(s) \/ Failed(s)
    BY <2>2, <1>2 DEF Answered, Rejected, Failed
  <2> QED BY <1>4, <2>1, <2>2 DEF SenderStep
<1>5. ASSUME NEW d \in Callers, CallerStep(d) PROVE Goal
  <2>1. CASE CallFlush(d) \/ CallStop(d)
    BY <2>1 DEF CallFlush, CallStop, TypeOK
  <2>2. CASE FlushDone(d) \/ FlushTimeout(d)
    BY <2>2 DEF FlushDone, FlushTimeout, Return, TypeOK
  <2>3. CASE CancelFlush(d) \/ StopTask(d) \/ Interrupt(d)
    BY <2>3, <1>1 DEF CancelFlush, StopTask, Interrupt, calls
  <2> QED BY <1>5, <2>1, <2>2, <2>3 DEF CallerStep
<1> QED BY <1>3, <1>4, <1>5 DEF Next

\* An empty queue seen past the lock: nothing is in flight either.
LEMMA NothingInFlight ==
  ASSUME Accounting, OneInFlight, NEW c \in Callers, pc[c] = "loop", items = <<>>
  PROVE  1..offered \subseteq Undoubted
<1>1. c \in Senders
  BY DEF Senders
<1>2. ASSUME NEW s \in Senders PROVE held[s] = <<>>
  <2>1. pc[s] \in {"beat", "sent", "answered"} => s = c
    BY <1>1 DEF OneInFlight
  <2> QED BY <2>1 DEF Accounting, EmptyHands
<1>3. InFlight = {} /\ Queued = {}
  BY <1>2, NothingHeld DEF InFlight, Queued
<1> QED BY <1>3 DEF Accounting, NothingLost, Undoubted

MarkOffered == \A c \in Callers : mark[c] <= offered

\* When flush() returns True, every item queued before the call is in memory, counted in
\* `dropped`, or was taken by an interrupt: the batch another sender had in flight included.
THEOREM FlushAnswersForAll == Spec => []FlushMeansAnswered
<1>1. Init => MarkOffered /\ FlushMeansAnswered
  BY DEF Init, MarkOffered, FlushMeansAnswered
<1>2. ASSUME TypeOK, MarkOffered, [Next]_vars PROVE MarkOffered'
  <2>1. offered \in Nat /\ offered' \in Nat /\ offered <= offered'
    <3>1. TypeOK' /\ offered <= offered'
      BY <1>2, TypeStep, UndoubtedGrows
    <3> QED BY <1>2, <3>1, ConstantsAssumption DEF TypeOK
  <2>2. ASSUME NEW c \in Callers PROVE mark'[c] <= offered'
    <3>1. mark[c] \in Nat /\ mark[c] <= offered
      BY <1>2, ConstantsAssumption DEF TypeOK, MarkOffered
    <3>2. mark'[c] \in {mark[c], offered}
      BY <1>2, WhoAnswersTrue
    <3> QED BY <2>1, <3>1, <3>2
  <2> QED BY <2>2 DEF MarkOffered
<1>3. ASSUME Accounting, OneInFlight, MarkOffered, FlushMeansAnswered, [Next]_vars
      PROVE  FlushMeansAnswered'
  <2>1. TypeOK /\ Undoubted \subseteq Undoubted'
    BY <1>3, UndoubtedGrows DEF Accounting
  <2>2. ASSUME NEW c \in Callers, result'[c] = "true" PROVE 1..mark'[c] \subseteq Undoubted'
    <3>1. CASE FlushDone(c)
      <4>1. 1..offered \subseteq Undoubted
        BY <1>3, <3>1, NothingInFlight DEF FlushDone
      <4>2. mark'[c] = mark[c] /\ mark[c] <= offered /\ mark[c] \in Nat /\ offered \in Nat
        BY <1>3, <2>1, <3>1, ConstantsAssumption DEF FlushDone, MarkOffered, TypeOK
      <4> QED BY <2>1, <4>1, <4>2
    <3>2. CASE result[c] = "true" /\ mark'[c] = mark[c]
      BY <1>3, <2>1, <3>2 DEF FlushMeansAnswered
    <3> QED BY <1>3, <2>1, <2>2, <3>1, <3>2, WhoAnswersTrue
  <2> QED BY <2>2 DEF FlushMeansAnswered
<1>4. Accounting => TypeOK
  BY DEF Accounting
<1> QED BY <1>1, <1>2, <1>3, <1>4, AlwaysAccounted, OneAtATime, PTL DEF Spec
-----------------------------------------------------------------------------
(* The queue keeps the promise of track(): it implements Delivery.  What it lands leaves no gap
   because items wait, are batched and are put back in the order they were offered, so whatever
   is older than an item of a batch is in that batch or settled; and a batch the client gave up
   on still has no gap when it lands later, for what is settled stays so. *)

\* The items of a batch, or of the queue, come in the order they were offered.
InOrder(seq) ==
  \A i, j \in DOMAIN seq : i < j /\ seq[i] \in Items /\ seq[j] \in Items => seq[i] < seq[j]

\* Nothing older than an item of S is missing from it, but for what is settled.
Complete(S) == \A i \in S \cap Items : 1..i \subseteq S \cup Undoubted

Ordered ==
  /\ InOrder(items) /\ \A s \in Senders : InOrder(held[s])
  /\ \A x \in InFlight \cap Items, y \in Queued \cap Items : x < y

\* No item is anywhere before it is offered.
OfferedOnly ==
  /\ (Queued \cup InFlight \cup Undoubted) \cap Items \subseteq 1..offered
  /\ \A batch \in late : Range(batch) \cap Items \subseteq 1..offered

NoGaps == Complete(landed) /\ \A batch \in late : Complete(Range(batch))

Orderly == Accounting /\ OneInFlight /\ Ordered /\ OfferedOnly /\ NoGaps

\* Both ends of an ordered sequence are ordered, and the first is older than the second.
LEMMA SplitOrder ==
  ASSUME NEW S, NEW s \in Seq(S), InOrder(s), NEW n \in 0..Len(s)
  PROVE  /\ InOrder(SubSeq(s, 1, n)) /\ InOrder(SubSeq(s, n + 1, Len(s)))
         /\ \A x \in Range(SubSeq(s, 1, n)) \cap Items, y \in Range(SubSeq(s, n + 1, Len(s))) \cap Items : x < y
<1> DEFINE a == SubSeq(s, 1, n)
           b == SubSeq(s, n + 1, Len(s))
<1>1. /\ DOMAIN s = 1..Len(s) /\ Len(s) \in Nat
      /\ DOMAIN a = 1..n /\ \A i \in 1..n : a[i] = s[i]
      /\ DOMAIN b = 1..(Len(s) - n) /\ \A i \in 1..(Len(s) - n) : b[i] = s[i + n]
  OBVIOUS
<1> HIDE DEF a, b
<1>2. InOrder(a)
  BY <1>1 DEF InOrder
<1>3. InOrder(b)
  <2> SUFFICES ASSUME NEW i \in DOMAIN b, NEW j \in DOMAIN b, i < j, b[i] \in Items, b[j] \in Items
               PROVE  b[i] < b[j]
    BY DEF InOrder
  <2>1. i + n \in DOMAIN s /\ j + n \in DOMAIN s /\ i + n < j + n
    BY <1>1
  <2> QED BY <1>1, <2>1 DEF InOrder
<1>4. ASSUME NEW x \in Range(a) \cap Items, NEW y \in Range(b) \cap Items PROVE x < y
  <2>1. PICK i \in DOMAIN a : x = a[i]
    BY DEF Range
  <2>2. PICK j \in DOMAIN b : y = b[j]
    BY DEF Range
  <2>3. i \in DOMAIN s /\ j + n \in DOMAIN s /\ i < j + n /\ x = s[i] /\ y = s[j + n]
    BY <1>1, <2>1, <2>2
  <2> QED BY <2>3 DEF InOrder
<1> QED BY <1>2, <1>3, <1>4 DEF a, b

\* What is put before the queue keeps the order when all of it is older.
LEMMA JoinOrder ==
  ASSUME NEW S, NEW s \in Seq(S), NEW t \in Seq(S), InOrder(s), InOrder(t),
         \A x \in Range(s) \cap Items, y \in Range(t) \cap Items : x < y
  PROVE  InOrder(s \o t)
<1> DEFINE c == s \o t
<1>1. /\ DOMAIN s = 1..Len(s) /\ DOMAIN t = 1..Len(t) /\ Len(s) \in Nat /\ Len(t) \in Nat
      /\ DOMAIN c = 1..(Len(s) + Len(t))
      /\ \A i \in 1..(Len(s) + Len(t)) : c[i] = IF i <= Len(s) THEN s[i] ELSE t[i - Len(s)]
  BY ConcatProperties, LenProperties
<1> HIDE DEF c
<1>2. ASSUME NEW i \in DOMAIN c, NEW j \in DOMAIN c, i < j, c[i] \in Items, c[j] \in Items
      PROVE  c[i] < c[j]
  <2>1. CASE j <= Len(s)
    BY <1>1, <1>2, <2>1 DEF InOrder
  <2>2. CASE i > Len(s)
    <3>1. i - Len(s) \in DOMAIN t /\ j - Len(s) \in DOMAIN t /\ i - Len(s) < j - Len(s)
      BY <1>1, <1>2, <2>2
    <3>2. c[i] = t[i - Len(s)] /\ c[j] = t[j - Len(s)]
      BY <1>1, <1>2, <2>2
    <3> QED BY <1>2, <3>1, <3>2 DEF InOrder
  <2>3. CASE i <= Len(s) /\ j > Len(s)
    <3>1. c[i] = s[i] /\ i \in DOMAIN s /\ c[j] = t[j - Len(s)] /\ j - Len(s) \in DOMAIN t
      BY <1>1, <1>2, <2>3
    <3>2. c[i] \in Range(s) /\ c[j] \in Range(t)
      BY <3>1 DEF Range
    <3> QED BY <1>2, <3>2
  <2>4. i \in Nat /\ j \in Nat
    BY <1>1, <1>2
  <2> QED BY <1>1, <1>2, <2>1, <2>2, <2>3, <2>4
<1> QED BY <1>2 DEF InOrder, c

\* A batch with one more id, a heartbeat or an item younger than all of it.
LEMMA GrowOrder ==
  ASSUME NEW S, NEW s \in Seq(S), InOrder(s), NEW e \in S,
         e \in Items => \A x \in Range(s) \cap Items : x < e
  PROVE  InOrder(Append(s, e)) /\ Range(Append(s, e)) = Range(s) \cup {e}
<1> DEFINE c == Append(s, e)
<1>1. /\ DOMAIN s = 1..Len(s) /\ Len(s) \in Nat /\ DOMAIN c = 1..(Len(s) + 1)
      /\ (\A i \in 1..Len(s) : c[i] = s[i]) /\ c[Len(s) + 1] = e
  BY AppendProperties, LenProperties
<1> HIDE DEF c
<1>2. Range(c) = Range(s) \cup {e}
  BY <1>1 DEF Range
<1>3. ASSUME NEW i \in DOMAIN c, NEW j \in DOMAIN c, i < j, c[i] \in Items, c[j] \in Items
      PROVE  c[i] < c[j]
  <2>1. i \in DOMAIN s /\ c[i] = s[i] /\ c[i] \in Range(s)
    BY <1>1, <1>3 DEF Range
  <2>2. CASE j = Len(s) + 1
    BY <1>1, <1>3, <2>1, <2>2
  <2>3. CASE j # Len(s) + 1
    BY <1>1, <1>3, <2>1, <2>3 DEF InOrder
  <2> QED BY <2>2, <2>3
<1> QED BY <1>2, <1>3 DEF InOrder, c

\* requeue() keeps the order when the batch is older than what waits.
LEMMA RequeueOrder ==
  ASSUME TypeOK, InOrder(items), NEW batch \in Seq(Ids), InOrder(batch), Requeue(batch),
         \A x \in Range(batch) \cap Items, y \in Range(items) \cap Items : x < y
  PROVE  /\ InOrder(items') /\ Range(items') \subseteq Range(batch) \cup Range(items)
         /\ lost \subseteq lost' /\ lost' \subseteq lost \cup Range(batch) /\ offered' = offered
<1>1. items \in Seq(Ids) /\ Len(items) <= Capacity /\ Capacity \in Nat
  BY ConstantsAssumption DEF TypeOK
<1> DEFINE K == Kept(batch)
           C == Cut(batch)
<1>2. /\ K \in Seq(Ids) /\ K = SubSeq(batch, 1, Len(K)) /\ Len(K) \in 0..Len(batch)
      /\ Range(K) \cup Range(C) = Range(batch)
      /\ Range(K \o items) = Range(K) \cup Range(items)
  BY <1>1, RequeueSplits
<1>3. items' = K \o items /\ lost' = lost \cup Range(C) /\ offered' = offered
  BY DEF Requeue
<1> HIDE DEF K, C
<1>4. InOrder(K)
  BY <1>2, SplitOrder
<1>5. InOrder(K \o items)
  BY <1>1, <1>2, <1>4, JoinOrder
<1> QED BY <1>2, <1>3, <1>5

\* Past the lock, no other sender holds a batch.
LEMMA OthersEmpty ==
  ASSUME Accounting, OneInFlight, NEW s \in Senders, pc[s] \in {"loop", "beat", "sent", "answered"}
  PROVE  (\A t \in Senders : t # s => held[t] = <<>>) /\ InFlight = Range(held[s])
<1>1. ASSUME NEW t \in Senders, t # s PROVE held[t] = <<>>
  BY <1>1 DEF OneInFlight, Accounting, EmptyHands
<1> QED BY <1>1, NothingHeld DEF InFlight

\* A batch on its way leaves nothing older behind: what is older and unsettled is in it too.
LEMMA HeldComplete ==
  ASSUME Accounting, OneInFlight, Ordered, OfferedOnly, NEW s \in Senders,
         pc[s] \in {"loop", "beat", "sent", "answered"}
  PROVE  Complete(Range(held[s]))
<1> SUFFICES ASSUME NEW i \in Range(held[s]) \cap Items, NEW j \in 1..i
             PROVE  j \in Range(held[s]) \cup Undoubted
  BY DEF Complete
<1>1. InFlight = Range(held[s])
  BY OthersEmpty
<1>2. i \in Nat /\ i <= offered /\ offered \in Nat /\ offered <= MaxItems /\ MaxItems \in Nat
  BY <1>1, ConstantsAssumption DEF OfferedOnly, Accounting, TypeOK, Items
<1>3. j \in Items /\ j \in 1..offered /\ ~(i < j)
  BY <1>2 DEF Items
<1>4. j \notin Queued
  BY <1>1, <1>3 DEF Ordered
<1> QED BY <1>1, <1>3, <1>4 DEF Accounting, NothingLost, Undoubted

\* A set without gaps stays so while what is settled stays settled.
LEMMA CompleteStays ==
  ASSUME NEW S, Complete(S), Undoubted \subseteq Undoubted'
  PROVE  Complete(S)'
BY DEF Complete

\* Order and gaps through the end of a batch: put back, dropped, refused, given up or abandoned.
LEMMA SettleOrder ==
  ASSUME Orderly, NEW s \in Senders, pc[s] \in {"sent", "answered"}, Release(s),
         offered' = offered, landed' = landed, late' \subseteq late \cup {held[s]},
         InOrder(items'), Range(items') \subseteq Range(held[s]) \cup Range(items),
         lost \subseteq lost', lost' \subseteq lost \cup Range(held[s]),
         abandoned \subseteq abandoned', abandoned' \subseteq abandoned \cup Range(held[s])
  PROVE  Ordered' /\ OfferedOnly' /\ NoGaps'
<1>1. TypeOK /\ InFlight = Range(held[s]) /\ \A t \in Senders : t # s => held[t] = <<>>
  BY OthersEmpty DEF Orderly, Accounting
<1>2. \A t \in Senders : held'[t] = <<>>
  BY <1>1, ReleaseEffect
<1>3. InFlight' = {}
  BY <1>2, NothingHeld DEF InFlight
<1>4. InOrder(<<>>)
  BY DEF InOrder
<1>5. Ordered'
  <2>1. \A t \in Senders : InOrder(held[t])'
    BY <1>2, <1>4 DEF InOrder
  <2>2. InOrder(items)'
    BY DEF InOrder
  <2> QED BY <1>3, <2>1, <2>2 DEF Ordered
<1>6. Undoubted \subseteq Undoubted' /\ Undoubted' \subseteq Undoubted \cup InFlight /\ Queued' \subseteq Queued \cup InFlight
  BY <1>1 DEF Undoubted, Queued
<1>7. OfferedOnly'
  <2>1. (Queued' \cup InFlight' \cup Undoubted') \cap Items \subseteq 1..offered'
    BY <1>3, <1>6 DEF Orderly, OfferedOnly
  <2>2. ASSUME NEW batch \in late' PROVE Range(batch) \cap Items \subseteq 1..offered'
    BY <1>1 DEF Orderly, OfferedOnly
  <2> QED BY <2>1, <2>2 DEF OfferedOnly
<1>8. NoGaps'
  <2>1. Complete(landed)'
    BY <1>6, CompleteStays DEF Orderly, NoGaps, Complete
  <2>2. ASSUME NEW batch \in late' PROVE Complete(Range(batch))'
    <3>1. Complete(Range(batch))
      BY HeldComplete DEF Orderly, NoGaps
    <3> QED BY <1>6, <3>1 DEF Complete
  <2> QED BY <2>1, <2>2 DEF NoGaps
<1> QED BY <1>5, <1>7, <1>8

\* Memory takes a batch that leaves nothing behind.
LEMMA LandOrder ==
  ASSUME Orderly, NEW batch, Complete(Range(batch)), landed' = landed \cup Range(batch),
         Range(batch) \cap Items \subseteq 1..offered, late' \subseteq late,
         UNCHANGED <<items, offered, lost, abandoned, held>>
  PROVE  Ordered' /\ OfferedOnly' /\ NoGaps'
<1>1. Queued' = Queued /\ InFlight' = InFlight /\ Undoubted' = Undoubted \cup Range(batch)
  BY DEF Queued, InFlight, Undoubted
<1>2. Ordered'
  BY <1>1 DEF Orderly, Ordered, InOrder
<1>3. OfferedOnly'
  BY <1>1 DEF Orderly, OfferedOnly
<1>4. Complete(landed)'
  BY <1>1 DEF Orderly, NoGaps, Complete
<1>5. \A b \in late' : Complete(Range(b))'
  BY <1>1 DEF Orderly, NoGaps, Complete
<1> QED BY <1>2, <1>3, <1>4, <1>5 DEF NoGaps

\* A step that leaves what order and gaps are about as it is.
LEMMA KeepOrder ==
  ASSUME Orderly, UNCHANGED <<items, held, offered, lost, abandoned, landed, late>>
  PROVE  Ordered' /\ OfferedOnly' /\ NoGaps'
BY DEF Orderly, Ordered, InOrder, OfferedOnly, NoGaps, Complete, Queued, InFlight, Undoubted

LEMMA OrderlyStep ==
  ASSUME Orderly, [Next]_vars
  PROVE  Ordered' /\ OfferedOnly' /\ NoGaps'
<1> DEFINE Goal == Ordered' /\ OfferedOnly' /\ NoGaps'
<1>0. /\ Background \in Senders /\ Callers \subseteq Senders /\ Refusable \subseteq Items
      /\ Accounting /\ OneInFlight /\ Ordered /\ OfferedOnly /\ NoGaps /\ TypeOK
      /\ items \in Seq(Ids) /\ held \in [Senders -> Seq(Ids)]
  BY ConstantsAssumption DEF Senders, Orderly, Accounting, TypeOK
<1>1. CASE Put
  <2>1. /\ UNCHANGED <<held, abandoned, landed, late>> /\ offered' = offered + 1 /\ offered \in Nat
        /\ offered + 1 \in Items
    BY <1>0, <1>1, ConstantsAssumption DEF Put, api, TypeOK, Items
  <2>2. InFlight' = InFlight /\ 1..offered \subseteq 1..offered' /\ offered + 1 \in 1..offered'
    BY <2>1 DEF InFlight
  <2>3. ASSUME NEW i \in (Queued \cup InFlight \cup Undoubted) \cap Items PROVE i < offered + 1
    BY <1>0, <2>1, <2>3 DEF OfferedOnly
  <2>4. CASE items' = items /\ lost' = lost \cup {offered + 1}
    <3>1. Queued' = Queued /\ Undoubted' = Undoubted \cup {offered + 1}
      BY <2>1, <2>4 DEF Queued, Undoubted
    <3>2. Ordered'
      BY <1>0, <2>1, <2>2, <2>4, <3>1 DEF Ordered, InOrder
    <3>3. OfferedOnly'
      BY <1>0, <2>1, <2>2, <3>1 DEF OfferedOnly
    <3>4. NoGaps'
      BY <1>0, <2>1, <3>1 DEF NoGaps, Complete
    <3> QED BY <3>2, <3>3, <3>4
  <2>5. CASE items' = Append(items, offered + 1) /\ lost' = lost
    <3>1. InOrder(items') /\ Queued' = Queued \cup {offered + 1}
      <4>1. \A x \in Range(items) \cap Items : x < offered + 1
        BY <2>3 DEF Queued
      <4>2. offered + 1 \in Ids
        BY <2>1 DEF Ids
      <4>3. InOrder(items)
        BY <1>0 DEF Ordered
      <4>4. InOrder(Append(items, offered + 1)) /\ Range(Append(items, offered + 1)) = Range(items) \cup {offered + 1}
        BY <1>0, <4>1, <4>2, <4>3, GrowOrder
      <4> QED BY <2>5, <4>4 DEF Queued
    <3>2. Undoubted' = Undoubted
      BY <2>1, <2>5 DEF Undoubted
    <3>3. Ordered'
      <4>1. \A x \in InFlight' \cap Items, y \in Queued' \cap Items : x < y
        BY <1>0, <2>2, <2>3, <3>1 DEF Ordered
      <4>2. InOrder(items)' /\ \A s \in Senders : InOrder(held[s])'
        BY <1>0, <2>1, <3>1 DEF Ordered, InOrder
      <4> QED BY <4>1, <4>2 DEF Ordered
    <3>4. OfferedOnly'
      BY <1>0, <2>1, <2>2, <3>1, <3>2 DEF OfferedOnly
    <3>5. NoGaps'
      BY <1>0, <2>1, <3>2 DEF NoGaps, Complete
    <3> QED BY <3>3, <3>4, <3>5
  <2> QED BY <1>1, <2>4, <2>5 DEF Put
<1>2. CASE TimePasses \/ PauseEnds \/ BgWake \/ BgSkip \/ UNCHANGED vars
  BY <1>2, KeepOrder DEF TimePasses, PauseEnds, BgWake, BgSkip, vars, buffer, api
<1>3. CASE LandLate
  <2>1. PICK batch \in late : Apply(batch) /\ late' = late \ {batch}
    BY <1>3 DEF LandLate
  <2>2. Complete(Range(batch)) /\ Range(batch) \cap Items \subseteq 1..offered
    BY <1>0 DEF NoGaps, OfferedOnly
  <2>3. UNCHANGED <<items, offered, lost, abandoned, held>>
    BY <1>3 DEF LandLate, buffer
  <2> QED BY <2>1, <2>2, <2>3, LandOrder DEF Apply
<1>4. ASSUME NEW s \in Senders, Acquire(s) \/ Post(s) PROVE Goal
  BY <1>4, KeepOrder DEF Acquire, Post, buffer, api
<1>5. ASSUME NEW s \in Senders, Take(s) PROVE Goal
  <2> DEFINE n == Min2(BatchLimit, Len(items))
             a == SubSeq(items, 1, n)
             b == SubSeq(items, n + 1, Len(items))
  <2>1. n \in 0..Len(items)
    BY <1>0, ConstantsAssumption, LenProperties DEF Min2
  <2>2. /\ held' = [held EXCEPT ![s] = a] /\ items' = b /\ pc[s] = "loop"
        /\ UNCHANGED <<offered, lost, abandoned, landed, late>>
    BY <1>5 DEF Take, api
  <2> HIDE DEF n
  <2>3. /\ InOrder(a) /\ InOrder(b) /\ Range(a) \cup Range(b) = Range(items)
        /\ \A x \in Range(a) \cap Items, y \in Range(b) \cap Items : x < y
    BY <1>0, <2>1, SplitOrder, SplitRange DEF Ordered
  <2> HIDE DEF a, b
  <2>4. held'[s] = a /\ (\A t \in Senders : t # s => held'[t] = <<>>)
    BY <1>0, <2>2, OthersEmpty
  <2>5. InFlight' = Range(a) /\ Queued' = Range(b)
    BY <2>2, <2>4, NothingHeld DEF InFlight, Queued
  <2>6. Undoubted' = Undoubted /\ Queued' \cup InFlight' = Queued
    BY <2>2, <2>3, <2>5 DEF Undoubted, Queued
  <2>7. Ordered'
    <3>1. \A t \in Senders : InOrder(held[t])'
      BY <2>3, <2>4 DEF InOrder
    <3>2. InOrder(items)'
      BY <2>2, <2>3 DEF InOrder
    <3> QED BY <2>3, <2>5, <3>1, <3>2 DEF Ordered
  <2>8. OfferedOnly' /\ NoGaps'
    BY <1>0, <2>2, <2>6 DEF OfferedOnly, NoGaps, Complete
  <2> QED BY <2>7, <2>8
<1>6. ASSUME NEW s \in Senders, PostWithBeat(s) PROVE Goal
  <2> DEFINE beat == MaxItems + beats + 1
  <2>1. beat \in Ids /\ beat \notin Items
    <3>1. beats \in Nat /\ beats < MaxBeats
      BY <1>0, <1>6, ConstantsAssumption DEF PostWithBeat, TypeOK
    <3> QED BY <3>1, ConstantsAssumption DEF Ids, Beats, Items
  <2>2. /\ \/ held' = [held EXCEPT ![s] = Append(held[s], beat)] /\ UNCHANGED buffer
           \/ Requeue(<<beat>>) /\ UNCHANGED held
        /\ UNCHANGED <<abandoned, landed, late>>
    BY <1>6 DEF PostWithBeat, api
  <2> HIDE DEF beat
  <2>3. CASE held' = [held EXCEPT ![s] = Append(held[s], beat)] /\ UNCHANGED buffer
    <3>1. /\ InOrder(Append(held[s], beat)) /\ Range(Append(held[s], beat)) = Range(held[s]) \cup {beat}
      BY <1>0, <2>1, GrowOrder DEF Ordered
    <3>2. /\ held'[s] = Append(held[s], beat) /\ \A t \in Senders : t # s => held'[t] = held[t]
      BY <1>0, <2>3
    <3>3. UNCHANGED <<items, offered, lost>> /\ Queued' = Queued /\ Undoubted' = Undoubted
      BY <2>2, <2>3 DEF buffer, Queued, Undoubted
    <3>4. InFlight' \cap Items = InFlight \cap Items
      BY <2>1, <3>1, <3>2 DEF InFlight
    <3>5. Ordered'
      <4>1. \A t \in Senders : InOrder(held[t])'
        <5>1. InOrder(held[s])'
          BY <3>1, <3>2 DEF InOrder
        <5>2. ASSUME NEW t \in Senders, t # s PROVE InOrder(held[t])'
          BY <1>0, <3>2, <5>2 DEF Ordered, InOrder
        <5> QED BY <5>1, <5>2
      <4>2. InOrder(items)'
        BY <1>0, <3>3 DEF Ordered, InOrder
      <4> QED BY <1>0, <3>3, <3>4, <4>1, <4>2 DEF Ordered
    <3>6. OfferedOnly' /\ NoGaps'
      BY <1>0, <2>2, <3>3, <3>4 DEF OfferedOnly, NoGaps, Complete
    <3> QED BY <3>5, <3>6
  <2>4. CASE Requeue(<<beat>>) /\ UNCHANGED held
    <3>1. <<beat>> \in Seq(Ids) /\ Range(<<beat>>) = {beat} /\ InOrder(<<beat>>)
      BY <2>1 DEF Range, InOrder
    <3>2. /\ InOrder(items') /\ Range(items') \subseteq {beat} \cup Range(items)
          /\ lost \subseteq lost' /\ lost' \subseteq lost \cup {beat} /\ offered' = offered
      BY <1>0, <2>1, <2>4, <3>1, RequeueOrder DEF Ordered
    <3>3. InFlight' = InFlight /\ Queued' \cap Items \subseteq Queued
      BY <2>1, <2>4, <3>2 DEF InFlight, Queued
    <3>4. Undoubted \subseteq Undoubted' /\ Undoubted' \cap Items \subseteq Undoubted
      BY <2>1, <2>2, <3>2 DEF Undoubted
    <3>5. Ordered'
      <4>1. InOrder(items)' /\ \A t \in Senders : InOrder(held[t])'
        BY <1>0, <2>4, <3>2 DEF Ordered, InOrder
      <4>2. \A x \in InFlight' \cap Items, y \in Queued' \cap Items : x < y
        BY <1>0, <3>3 DEF Ordered
      <4> QED BY <4>1, <4>2 DEF Ordered
    <3>6. OfferedOnly'
      BY <1>0, <2>2, <3>2, <3>3, <3>4 DEF OfferedOnly
    <3>7. NoGaps'
      BY <1>0, <2>2, <3>4 DEF NoGaps, Complete
    <3> QED BY <3>5, <3>6, <3>7
  <2> QED BY <2>2, <2>3, <2>4
<1>7. ASSUME NEW s \in Senders, Land(s) PROVE Goal
  <2>1. Complete(Range(held[s])) /\ InFlight = Range(held[s])
    BY <1>0, <1>7, HeldComplete, OthersEmpty DEF Land
  <2>2. PICK batch : batch = held[s]
    OBVIOUS
  <2>3. Complete(Range(batch)) /\ Range(batch) \cap Items \subseteq 1..offered
    BY <1>0, <2>1, <2>2 DEF OfferedOnly
  <2>4. landed' = landed \cup Range(batch) /\ UNCHANGED <<items, offered, lost, abandoned, held, late>>
    BY <1>7, <2>2 DEF Land, Apply, buffer
  <2> QED BY <2>3, <2>4, LandOrder
<1>8. ASSUME NEW s \in Senders, pc[s] \in {"sent", "answered"}, Release(s), offered' = offered,
             landed' = landed, late' \subseteq late \cup {held[s]}, UNCHANGED items,
             lost \subseteq lost', lost' \subseteq lost \cup Range(held[s]),
             abandoned \subseteq abandoned', abandoned' \subseteq abandoned \cup Range(held[s])
      PROVE  Goal
  <2>1. InOrder(items') /\ Range(items') \subseteq Range(held[s]) \cup Range(items)
    BY <1>0, <1>8 DEF Ordered
  <2> QED BY <1>8, <2>1, SettleOrder
<1>9. ASSUME NEW s \in Senders, pc[s] \in {"sent", "answered"}, Release(s), Requeue(held[s]),
             GiveUpOn(s), UNCHANGED abandoned
      PROVE  Goal
  <2>1. InFlight = Range(held[s]) /\ held[s] \in Seq(Ids) /\ InOrder(held[s]) /\ InOrder(items)
    BY <1>0, <1>9, OthersEmpty DEF Ordered
  <2>2. \A x \in Range(held[s]) \cap Items, y \in Range(items) \cap Items : x < y
    BY <1>0, <2>1 DEF Ordered, Queued
  <2>3. /\ InOrder(items') /\ Range(items') \subseteq Range(held[s]) \cup Range(items)
        /\ lost \subseteq lost' /\ lost' \subseteq lost \cup Range(held[s]) /\ offered' = offered
    BY <1>0, <1>9, <2>1, <2>2, RequeueOrder
  <2>4. landed' = landed /\ late' \subseteq late \cup {held[s]}
    BY <1>9 DEF GiveUpOn
  <2> QED BY <1>9, <2>3, <2>4, SettleOrder
<1>10. ASSUME NEW s \in Senders, Answered(s) \/ Rejected(s) \/ Failed(s) PROVE Goal
  <2>1. CASE Answered(s)
    BY <2>1, <1>8 DEF Answered, Drop, api
  <2>2. CASE Rejected(s)
    BY <2>2, <1>8 DEF Rejected, Drop, GiveUpOn
  <2>3. CASE Failed(s)
    BY <2>3, <1>9 DEF Failed
  <2> QED BY <1>10, <2>1, <2>2, <2>3
<1>11. ASSUME NEW c \in Callers, CallerStep(c) PROVE Goal
  <2>1. CASE CallFlush(c) \/ CallStop(c) \/ FlushDone(c) \/ FlushTimeout(c)
    BY <2>1, KeepOrder DEF CallFlush, CallStop, FlushDone, FlushTimeout, buffer, api
  <2>2. CASE CancelFlush(c) \/ StopTask(c)
    <3>1. ASSUME UNCHANGED <<buffer, held, holder, api>> PROVE Goal
      BY <2>2, <3>1, KeepOrder DEF CancelFlush, StopTask, buffer, api
    <3>2. ASSUME NEW s \in Senders, CancelSend(s) PROVE Goal
      BY <2>2, <3>2, <1>9 DEF CancelFlush, StopTask, CancelSend, Sending
    <3> QED BY <1>0, <2>2, <3>1, <3>2 DEF CancelFlush, StopTask
  <2>3. CASE Interrupt(c)
    BY <1>0, <2>3, <1>8 DEF Interrupt, GiveUpOn, Sending, buffer
  <2> QED BY <1>11, <2>1, <2>2, <2>3 DEF CallerStep
<1> QED BY <1>1, <1>2, <1>3, <1>4, <1>5, <1>6, <1>7, <1>10, <1>11 DEF Next, SenderStep

LEMMA OrderlyInit == Init => Ordered /\ OfferedOnly /\ NoGaps
<1> SUFFICES ASSUME Init PROVE Ordered /\ OfferedOnly /\ NoGaps
  OBVIOUS
<1>1. items = <<>> /\ (\A s \in Senders : held[s] = <<>>) /\ landed = {} /\ lost = {} /\ abandoned = {} /\ late = {}
  BY DEF Init
<1>2. Queued = {} /\ InFlight = {} /\ Undoubted = {} /\ InOrder(<<>>)
  BY <1>1, NothingHeld DEF Queued, InFlight, Undoubted, InOrder
<1> QED BY <1>1, <1>2 DEF Ordered, OfferedOnly, NoGaps, Complete

LEMMA AlwaysOrderly == Spec => []Orderly
<1>1. Orderly /\ [Next]_vars => Ordered' /\ OfferedOnly' /\ NoGaps'
  BY OrderlyStep
<1>2. Orderly <=> Accounting /\ OneInFlight /\ Ordered /\ OfferedOnly /\ NoGaps
  BY DEF Orderly
<1> QED BY <1>1, <1>2, OrderlyInit, AlwaysAccounted, OneAtATime, PTL DEF Spec

\* A step of the queue offers an item, delivers some in order, gives some up, or is not seen.
LEMMA StepIsDelivery ==
  ASSUME Orderly, Orderly', [Next]_vars
  PROVE  [Promise!Next]_Promise!vars
<1>0. TypeOK /\ MaxItems \in Nat /\ OfferedOnly' /\ NoGaps' /\ offered \in Nat
  <2>1. TypeOK /\ OfferedOnly' /\ NoGaps'
    BY DEF Orderly, Accounting
  <2> QED BY <2>1, ConstantsAssumption DEF TypeOK
<1> DEFINE memory == landed \cap Items
           givenUp == (lost \cup abandoned) \cap Items
<1>1. CASE Put
  <2>1. /\ offered < MaxItems /\ offered' = offered + 1 /\ memory' = memory
        /\ givenUp' \in {givenUp, givenUp \cup {offered + 1}}
    <3>1. /\ offered < MaxItems /\ offered' = offered + 1 /\ UNCHANGED <<abandoned, landed>>
          /\ lost' \in {lost, lost \cup {offered + 1}} /\ offered + 1 \in Items
      BY <1>0, <1>1 DEF Put, api, Items
    <3> QED BY <3>1
  <2>2. Promise!Offer
    BY <2>1 DEF Promise!Offer
  <2> QED BY <2>2 DEF Promise!Next
<1>2. CASE Settles
  <2>1. /\ givenUp' \in SUBSET (1..offered) /\ givenUp \subseteq givenUp'
        /\ offered' = offered /\ memory' = memory
    BY <1>0, <1>2 DEF Settles, OfferedOnly, Undoubted
  <2>2. Promise!GiveUp
    BY <2>1 DEF Promise!GiveUp
  <2> QED BY <2>2 DEF Promise!Next
<1>3. CASE Lands
  <2>1. memory' \in SUBSET (1..offered) /\ memory \subseteq memory' /\ offered' = offered /\ givenUp' = givenUp
    BY <1>0, <1>3 DEF Lands, OfferedOnly, Undoubted
  <2>2. ASSUME NEW i \in memory' PROVE 1..i \subseteq memory' \cup givenUp
    <3>1. 1..i \subseteq Undoubted'
      BY <1>0, <2>2 DEF NoGaps, Complete, Undoubted
    <3>2. 1..i \subseteq Items
      BY <1>0, <2>2 DEF Items
    <3> QED BY <1>3, <3>1, <3>2 DEF Undoubted, Lands
  <2>3. Promise!Deliver
    BY <2>1, <2>2 DEF Promise!Deliver
  <2> QED BY <2>3 DEF Promise!Next
<1> QED BY <1>0, <1>1, <1>2, <1>3, StepKinds

\* The queue implements Delivery: its items reach memory without gaps, whatever senders, retries,
\* lost answers, cancellations and late landings do, and what is given up stays given up.
THEOREM ImplementsDelivery == Spec => KeepsPromise
<1>1. Init => Promise!Init
  BY DEF Init, Promise!Init
<1>2. Orderly /\ Orderly' /\ [Next]_vars => [Promise!Next]_Promise!vars
  BY StepIsDelivery
<1> QED BY <1>1, <1>2, AlwaysOrderly, PTL DEF Spec, KeepsPromise, Promise!Spec
-----------------------------------------------------------------------------
(* Heartbeats are honest.  An id is counted when the API's answer for its batch is read, once: by
   then it has landed, and with its batch it leaves the queue and the hands for good.  So what was
   counted never exceeds the ids that landed and wait nowhere, which is inductive. *)

Waiting == Queued \cup InFlight

\* No id is in two places, nor twice in one.
Once ==
  /\ IsInjective(items) /\ \A s \in Senders : IsInjective(held[s])
  /\ InFlight \cap Queued = {}

\* A heartbeat that was not emitted yet is nowhere.
FreshBeats ==
  \A b \in Beats : b > MaxItems + beats =>
    b \notin Waiting \cup landed /\ \A batch \in late : b \notin Range(batch)

Counted == sent + claimed <= Cardinality(landed \ Waiting)

Honest == Orderly /\ Once /\ FreshBeats /\ Counted

LEMMA SplitInjective ==
  ASSUME NEW S, NEW s \in Seq(S), IsInjective(s), NEW n \in 0..Len(s)
  PROVE  /\ IsInjective(SubSeq(s, 1, n)) /\ IsInjective(SubSeq(s, n + 1, Len(s)))
         /\ Range(SubSeq(s, 1, n)) \cap Range(SubSeq(s, n + 1, Len(s))) = {}
<1> DEFINE a == SubSeq(s, 1, n)
           b == SubSeq(s, n + 1, Len(s))
<1>1. /\ DOMAIN s = 1..Len(s) /\ Len(s) \in Nat
      /\ DOMAIN a = 1..n /\ \A i \in 1..n : a[i] = s[i]
      /\ DOMAIN b = 1..(Len(s) - n) /\ \A i \in 1..(Len(s) - n) : b[i] = s[i + n]
  OBVIOUS
<1> HIDE DEF a, b
<1>2. IsInjective(a)
  BY <1>1 DEF IsInjective
<1>3. IsInjective(b)
  <2>1. ASSUME NEW i \in DOMAIN b, NEW j \in DOMAIN b, b[i] = b[j] PROVE i = j
    <3>1. i + n \in DOMAIN s /\ j + n \in DOMAIN s /\ s[i + n] = s[j + n]
      BY <1>1, <2>1
    <3>2. i + n = j + n
      BY <3>1 DEF IsInjective
    <3> QED BY <1>1, <3>2
  <2> QED BY <2>1 DEF IsInjective
<1>4. Range(a) \cap Range(b) = {}
  <2> SUFFICES ASSUME NEW i \in DOMAIN a, NEW j \in DOMAIN b, a[i] = b[j] PROVE FALSE
    BY DEF Range
  <2>1. i \in DOMAIN s /\ j + n \in DOMAIN s /\ s[i] = s[j + n] /\ i < j + n
    BY <1>1
  <2> QED BY <1>1, <2>1 DEF IsInjective
<1> QED BY <1>2, <1>3, <1>4 DEF a, b

LEMMA JoinInjective ==
  ASSUME NEW S, NEW s \in Seq(S), NEW t \in Seq(S), IsInjective(s), IsInjective(t),
         Range(s) \cap Range(t) = {}
  PROVE  IsInjective(s \o t)
<1> DEFINE c == s \o t
<1>1. /\ DOMAIN s = 1..Len(s) /\ DOMAIN t = 1..Len(t) /\ Len(s) \in Nat /\ Len(t) \in Nat
      /\ DOMAIN c = 1..(Len(s) + Len(t))
      /\ \A i \in 1..(Len(s) + Len(t)) : c[i] = IF i <= Len(s) THEN s[i] ELSE t[i - Len(s)]
  BY ConcatProperties, LenProperties
<1> HIDE DEF c
<1>2. ASSUME NEW i \in DOMAIN c, NEW j \in DOMAIN c, c[i] = c[j], i <= Len(s) PROVE i = j
  <2>1. i \in DOMAIN s /\ c[i] = s[i] /\ c[i] \in Range(s)
    BY <1>1, <1>2 DEF Range
  <2>2. CASE j <= Len(s)
    <3>1. j \in DOMAIN s /\ c[j] = s[j]
      BY <1>1, <2>2
    <3> QED BY <1>2, <2>1, <3>1 DEF IsInjective
  <2>3. CASE ~(j <= Len(s))
    <3>1. j - Len(s) \in DOMAIN t /\ c[j] = t[j - Len(s)]
      BY <1>1, <1>2, <2>3
    <3>2. c[j] \in Range(t)
      BY <3>1 DEF Range
    <3> QED BY <1>2, <2>1, <3>2
  <2> QED BY <2>2, <2>3
<1>3. ASSUME NEW i \in DOMAIN c, NEW j \in DOMAIN c, c[i] = c[j], ~(i <= Len(s)), ~(j <= Len(s)) PROVE i = j
  <2>1. i - Len(s) \in DOMAIN t /\ j - Len(s) \in DOMAIN t /\ t[i - Len(s)] = t[j - Len(s)]
    BY <1>1, <1>3
  <2>2. i - Len(s) = j - Len(s)
    BY <2>1 DEF IsInjective
  <2> QED BY <1>1, <2>2
<1>4. ASSUME NEW i \in DOMAIN c, NEW j \in DOMAIN c, c[i] = c[j] PROVE i = j
  <2>1. CASE i <= Len(s)
    BY <1>2, <1>4, <2>1
  <2>2. CASE j <= Len(s)
    <3>1. c[j] = c[i]
      BY <1>4
    <3>2. j = i
      BY <1>2, <2>2, <3>1, Zenon
    <3> QED BY <3>2
  <2> QED BY <1>3, <1>4, <2>1, <2>2
<1> QED BY <1>4 DEF IsInjective, c

LEMMA GrowInjective ==
  ASSUME NEW S, NEW s \in Seq(S), IsInjective(s), NEW e \in S, e \notin Range(s)
  PROVE  IsInjective(Append(s, e)) /\ Range(Append(s, e)) = Range(s) \cup {e}
<1> DEFINE c == Append(s, e)
<1>1. /\ DOMAIN s = 1..Len(s) /\ Len(s) \in Nat /\ DOMAIN c = 1..(Len(s) + 1)
      /\ (\A i \in 1..Len(s) : c[i] = s[i]) /\ c[Len(s) + 1] = e
  BY AppendProperties, LenProperties
<1> HIDE DEF c
<1>2. Range(c) = Range(s) \cup {e}
  BY <1>1 DEF Range
<1>3. \A i \in 1..Len(s) : c[i] \in Range(s)
  BY <1>1 DEF Range
<1>4. IsInjective(c)
  BY <1>1, <1>3 DEF IsInjective
<1> QED BY <1>2, <1>4 DEF c

\* A batch without a repeated id carries as many ids as it is long.
LEMMA BatchCounts ==
  ASSUME NEW S, NEW s \in Seq(S), IsInjective(s)
  PROVE  IsFiniteSet(Range(s)) /\ Cardinality(Range(s)) = Len(s)
<1>1. DOMAIN s = 1..Len(s) /\ Len(s) \in Nat /\ s \in [1..Len(s) -> Range(s)]
  BY LenProperties DEF Range
<1>2. s \in Surjection(1..Len(s), Range(s))
  BY <1>1 DEF Surjection, Range
<1>3. s \in Injection(1..Len(s), Range(s))
  BY <1>1 DEF Injection, IsInjective
<1>4. IsFiniteSet(1..Len(s)) /\ Cardinality(1..Len(s)) = Len(s)
  BY <1>1, FS_Interval
<1> QED BY <1>2, <1>3, <1>4, FS_Surjection

\* requeue() puts no id in two places.
LEMMA RequeueOnce ==
  ASSUME TypeOK, IsInjective(items), NEW batch \in Seq(Ids), IsInjective(batch), Requeue(batch),
         Range(batch) \cap Range(items) = {}
  PROVE  IsInjective(items') /\ Range(items') \subseteq Range(batch) \cup Range(items)
<1>1. items \in Seq(Ids) /\ Len(items) <= Capacity /\ Capacity \in Nat
  BY ConstantsAssumption DEF TypeOK
<1> DEFINE K == Kept(batch)
<1>2. /\ K \in Seq(Ids) /\ K = SubSeq(batch, 1, Len(K)) /\ Len(K) \in 0..Len(batch)
      /\ Range(K) \subseteq Range(batch)
      /\ Range(K \o items) = Range(K) \cup Range(items)
  BY <1>1, RequeueSplits
<1>3. items' = K \o items
  BY DEF Requeue
<1> HIDE DEF K
<1>4. IsInjective(K)
  BY <1>2, SplitInjective
<1>5. IsInjective(K \o items)
  BY <1>1, <1>2, <1>4, JoinInjective
<1> QED BY <1>2, <1>3, <1>5

\* The ids that landed and wait nowhere: finitely many, and there are more of them after a step
\* that lets memory grow without making what landed wait.
LEMMA MoreDelivered ==
  ASSUME TypeOK, TypeOK', Counted, sent' + claimed' = sent + claimed,
         landed \ Waiting \subseteq landed' \ Waiting'
  PROVE  Counted'
<1>1. /\ landed \ Waiting \subseteq Ids /\ landed' \ Waiting' \subseteq Ids
      /\ sent \in Nat /\ claimed \in Nat
  BY DEF TypeOK
<1>2. IsFiniteSet(landed' \ Waiting') /\ Cardinality(landed' \ Waiting') \in Nat
  BY <1>1, IdsFinite, FiniteIds, FS_Subset
<1>3. Cardinality(landed \ Waiting) <= Cardinality(landed' \ Waiting') /\ Cardinality(landed \ Waiting) \in Nat
  BY <1>1, <1>2, FS_Subset, IdsFinite
<1> QED BY <1>1, <1>2, <1>3 DEF Counted

\* An answered batch: its ids leave the hands having landed, and each is counted once.
LEMMA AnswerCounts ==
  ASSUME Honest, TypeOK', NEW s \in Senders, Answered(s)
  PROVE  Counted'
<1>1. /\ Accounting /\ OneInFlight /\ Once /\ Counted /\ TypeOK /\ held[s] \in Seq(Ids)
      /\ pc[s] = "answered" /\ IsInjective(held[s])
  BY DEF Honest, Orderly, Accounting, TypeOK, Once, Answered
<1>2. InFlight = Range(held[s]) /\ \A t \in Senders : t # s => held[t] = <<>>
  BY <1>1, OthersEmpty
<1>3. Release(s) /\ UNCHANGED <<items, landed, claimed>> /\ sent' = sent + Len(held[s])
  BY DEF Answered, api, Drop
<1>4. InFlight' = {} /\ Queued' = Queued
  BY <1>1, <1>2, <1>3, ReleaseEffect, NothingHeld DEF InFlight, Queued
<1> DEFINE D == landed \ Waiting
           H == Range(held[s])
<1>5. D \cup H \subseteq landed' \ Waiting' /\ D \cap H = {} /\ H \subseteq landed
  BY <1>1, <1>2, <1>3, <1>4 DEF Waiting, Once, Accounting, AnsweredLanded
<1>6. IsFiniteSet(H) /\ Cardinality(H) = Len(held[s])
  BY <1>1, BatchCounts
<1>7. /\ D \subseteq Ids /\ landed' \ Waiting' \subseteq Ids
      /\ sent \in Nat /\ claimed \in Nat /\ Len(held[s]) \in Nat
  BY <1>1, LenProperties DEF TypeOK
<1> HIDE DEF D, H
<1>8. /\ IsFiniteSet(D) /\ Cardinality(D) \in Nat
      /\ IsFiniteSet(landed' \ Waiting') /\ Cardinality(landed' \ Waiting') \in Nat
  BY <1>7, FiniteIds, FS_Subset, IdsFinite
<1>9. Cardinality(D \cup H) = Cardinality(D) + Cardinality(H)
  <2>1. Cardinality(D \cup H) = Cardinality(D) + Cardinality(H) - Cardinality(D \cap H)
    BY <1>6, <1>8, FS_Union, Zenon
  <2>2. Cardinality(D \cap H) = 0
    BY <1>5, FS_EmptySet
  <2> QED BY <1>6, <1>7, <1>8, <2>1, <2>2
<1>10. Cardinality(D \cup H) <= Cardinality(landed' \ Waiting')
  BY <1>5, <1>8, FS_Subset
<1>11. sent + claimed <= Cardinality(D)
  BY <1>1 DEF Counted, D
<1> QED BY <1>3, <1>6, <1>7, <1>8, <1>9, <1>10, <1>11 DEF Counted

LEMMA HonestStep ==
  ASSUME Honest, Orderly', [Next]_vars
  PROVE  Once' /\ FreshBeats' /\ Counted'
<1> DEFINE Goal == Once' /\ FreshBeats' /\ Counted'
<1>0. /\ Background \in Senders /\ Callers \subseteq Senders /\ TypeOK /\ TypeOK'
      /\ Accounting /\ OneInFlight /\ OfferedOnly /\ Once /\ FreshBeats /\ Counted
      /\ items \in Seq(Ids) /\ held \in [Senders -> Seq(Ids)]
      /\ offered \in Nat /\ MaxItems \in Nat /\ beats \in Nat /\ sent \in Nat /\ claimed \in Nat
  <2>1. TypeOK /\ Accounting /\ OneInFlight /\ OfferedOnly /\ Once /\ FreshBeats /\ Counted
    BY DEF Honest, Orderly, Accounting
  <2>2. TypeOK'
    BY DEF Orderly, Accounting
  <2>3. Background \in Senders /\ Callers \subseteq Senders
    BY DEF Senders
  <2>4. /\ items \in Seq(Ids) /\ held \in [Senders -> Seq(Ids)]
        /\ offered \in Nat /\ MaxItems \in Nat /\ beats \in Nat /\ sent \in Nat /\ claimed \in Nat
    BY <2>1, ConstantsAssumption DEF TypeOK
  <2> QED BY <2>1, <2>2, <2>3, <2>4
\* A step that neither emits a heartbeat nor counts, and brings no new id.
<1>1. ASSUME Once', UNCHANGED pulse, Waiting' \subseteq Waiting, landed \subseteq landed',
             landed' \subseteq landed \cup Waiting \cup UNION {Range(b) : b \in late},
             \A b \in late' : b \in late \/ Range(b) \subseteq Waiting
      PROVE  Goal
  <2>1. Counted'
    BY <1>0, <1>1, MoreDelivered DEF pulse
  <2>2. FreshBeats'
    BY <1>0, <1>1 DEF FreshBeats, pulse
  <2> QED BY <1>1, <2>1, <2>2
<1>2. ASSUME UNCHANGED <<items, held, landed, late, pulse>> PROVE Goal
  <2>1. Once' /\ Waiting' = Waiting
    BY <1>0, <1>2 DEF Once, Waiting, Queued, InFlight, IsInjective
  <2> QED BY <1>1, <1>2, <2>1
<1>3. CASE Put
  <2>1. /\ UNCHANGED <<held, landed, late, pulse>> /\ offered + 1 \in Items /\ InFlight' = InFlight
        /\ items' = items \/ items' = Append(items, offered + 1)
    BY <1>0, <1>3 DEF Put, api, Items, TypeOK, InFlight
  <2>2. CASE items' = items
    BY <1>2, <2>1, <2>2
  <2>3. CASE items' = Append(items, offered + 1)
    <3>1. offered + 1 \notin Waiting \cup landed
      BY <1>0, <2>1 DEF OfferedOnly, Waiting, Undoubted
    <3>2. IsInjective(Append(items, offered + 1)) /\ Range(Append(items, offered + 1)) = Range(items) \cup {offered + 1}
      BY <1>0, <2>1, <3>1, GrowInjective DEF Once, Waiting, Queued, Ids
    <3>3. IsInjective(items)' /\ Queued' = Queued \cup {offered + 1}
      BY <2>3, <3>2 DEF Queued, IsInjective
    <3>4. Waiting' = Waiting \cup {offered + 1}
      BY <2>1, <3>3 DEF Waiting
    <3>5. Once'
      BY <1>0, <2>1, <3>1, <3>3 DEF Once, Waiting, IsInjective
    <3>6. FreshBeats'
      <4>1. offered + 1 \notin Beats
        BY <1>0, <2>1, ConstantsAssumption DEF Items, Beats
      <4> QED BY <1>0, <2>1, <3>4, <4>1 DEF FreshBeats, pulse
    <3>7. Counted'
      BY <1>0, <2>1, <3>1, <3>4, MoreDelivered DEF pulse
    <3> QED BY <3>5, <3>6, <3>7
  <2> QED BY <2>1, <2>2, <2>3
<1>4. CASE TimePasses \/ PauseEnds \/ BgWake \/ BgSkip \/ UNCHANGED vars
  BY <1>2, <1>4 DEF TimePasses, PauseEnds, BgWake, BgSkip, vars, buffer, api
<1>5. CASE LandLate
  <2>1. PICK batch \in late : Apply(batch) /\ late' = late \ {batch}
    BY <1>5 DEF LandLate
  <2>2. UNCHANGED <<items, held, pulse>> /\ landed' = landed \cup Range(batch)
    BY <1>5, <2>1 DEF LandLate, Apply, buffer
  <2>3. Once' /\ Waiting' = Waiting
    BY <1>0, <2>2 DEF Once, Waiting, Queued, InFlight, IsInjective
  <2> QED BY <1>1, <2>1, <2>2, <2>3
<1>6. ASSUME NEW s \in Senders, Acquire(s) \/ Post(s) PROVE Goal
  BY <1>2, <1>6 DEF Acquire, Post, buffer, api
<1>7. ASSUME NEW s \in Senders, Take(s) PROVE Goal
  <2> DEFINE n == Min2(BatchLimit, Len(items))
             a == SubSeq(items, 1, n)
             b == SubSeq(items, n + 1, Len(items))
  <2>1. n \in 0..Len(items)
    BY <1>0, ConstantsAssumption, LenProperties DEF Min2
  <2>2. /\ held' = [held EXCEPT ![s] = a] /\ items' = b /\ pc[s] = "loop"
        /\ UNCHANGED <<landed, late, pulse>>
    BY <1>7 DEF Take, api
  <2> HIDE DEF n
  <2>3. /\ IsInjective(a) /\ IsInjective(b) /\ Range(a) \cup Range(b) = Range(items)
        /\ Range(a) \cap Range(b) = {}
    BY <1>0, <2>1, SplitInjective, SplitRange DEF Once
  <2> HIDE DEF a, b
  <2>4. held'[s] = a /\ (\A t \in Senders : t # s => held'[t] = <<>>)
    BY <1>0, <2>2, OthersEmpty
  <2>5. InFlight' = Range(a) /\ Queued' = Range(b)
    BY <2>2, <2>4, NothingHeld DEF InFlight, Queued
  <2>6. \A t \in Senders : IsInjective(held[t])'
    BY <2>3, <2>4 DEF IsInjective
  <2>7. IsInjective(items)'
    BY <2>2, <2>3 DEF IsInjective
  <2>8. Once' /\ Waiting' \subseteq Waiting
    BY <2>3, <2>5, <2>6, <2>7 DEF Once, Waiting, Queued
  <2> QED BY <1>1, <2>2, <2>8
<1>8. ASSUME NEW s \in Senders, PostWithBeat(s) PROVE Goal
  <2> DEFINE beat == MaxItems + beats + 1
  <2>1. /\ beats' = beats + 1 /\ claimed' = claimed + sent /\ sent' = 0 /\ beats < MaxBeats
        /\ UNCHANGED <<landed, late>>
        /\ \/ held' = [held EXCEPT ![s] = Append(held[s], beat)] /\ UNCHANGED buffer
           \/ Requeue(<<beat>>) /\ UNCHANGED held
    BY <1>8 DEF PostWithBeat, api
  <2>2. beat \in Beats /\ beat > MaxItems + beats /\ beat = MaxItems + beats'
    BY <1>0, <2>1, ConstantsAssumption DEF Beats
  <2> HIDE DEF beat
  <2>3. beat \in Ids /\ beat \notin Waiting \cup landed /\ \A batch \in late : beat \notin Range(batch)
    BY <1>0, <2>2 DEF FreshBeats, Ids
  <2>4. ASSUME Once', Waiting' \subseteq Waiting \cup {beat} PROVE Goal
    <3>1. FreshBeats'
      <4>1. ASSUME NEW b \in Beats, b > MaxItems + beats'
            PROVE  b > MaxItems + beats /\ b # beat
        BY <1>0, <2>1, <2>2, <4>1 DEF Beats
      <4> QED BY <1>0, <2>1, <2>4, <4>1 DEF FreshBeats
    <3>2. Counted'
      BY <1>0, <2>1, <2>3, <2>4, MoreDelivered
    <3> QED BY <2>4, <3>1, <3>2
  <2>5. CASE held' = [held EXCEPT ![s] = Append(held[s], beat)] /\ UNCHANGED buffer
    <3>1. beat \notin Range(held[s])
      BY <2>3 DEF Waiting, InFlight
    <3>2. /\ IsInjective(Append(held[s], beat)) /\ Range(Append(held[s], beat)) = Range(held[s]) \cup {beat}
      BY <1>0, <2>3, <3>1, GrowInjective DEF Once
    <3>3. held'[s] = Append(held[s], beat) /\ (\A t \in Senders : t # s => held'[t] = held[t]) /\ items' = items
      BY <1>0, <2>5 DEF buffer
    <3>4. \A t \in Senders : IsInjective(held[t])'
      BY <1>0, <3>2, <3>3 DEF Once, IsInjective
    <3>5. InFlight' \subseteq InFlight \cup {beat} /\ Queued' = Queued
      BY <3>2, <3>3 DEF InFlight, Queued
    <3>6. Once'
      BY <1>0, <2>3, <3>3, <3>4, <3>5 DEF Once, Waiting, IsInjective
    <3> QED BY <2>4, <3>5, <3>6 DEF Waiting
  <2>6. CASE Requeue(<<beat>>) /\ UNCHANGED held
    <3>1. <<beat>> \in Seq(Ids) /\ Range(<<beat>>) = {beat} /\ IsInjective(<<beat>>)
      BY <2>3 DEF Range, IsInjective
    <3>2. IsInjective(items') /\ Queued' \subseteq {beat} \cup Queued
      BY <1>0, <2>3, <2>6, <3>1, RequeueOnce, ZenonT(30) DEF Once, Waiting, Queued
    <3>3. InFlight' = InFlight
      BY <2>6 DEF InFlight
    <3>4. Once'
      BY <1>0, <2>3, <2>6, <3>2, <3>3 DEF Once, Waiting, IsInjective
    <3> QED BY <2>4, <3>2, <3>3, <3>4 DEF Waiting
  <2> QED BY <2>1, <2>5, <2>6
<1>9. ASSUME NEW s \in Senders, Land(s) PROVE Goal
  <2>1. UNCHANGED <<items, held, late, pulse>> /\ landed' = landed \cup Range(held[s])
    BY <1>9 DEF Land, Apply, buffer
  <2>2. Once' /\ Waiting' = Waiting /\ Range(held[s]) \subseteq Waiting
    BY <1>0, <2>1 DEF Once, Waiting, Queued, InFlight, IsInjective
  <2> QED BY <1>1, <2>1, <2>2
\* A batch ends: put back, dropped, refused or abandoned.
<1>10. ASSUME NEW s \in Senders, pc[s] \in {"sent", "answered"}, Release(s), Requeue(held[s]) \/ UNCHANGED items
       PROVE  Once' /\ Waiting' \subseteq Waiting
  <2>1. InFlight = Range(held[s]) /\ \A t \in Senders : t # s => held[t] = <<>>
    BY <1>0, <1>10, OthersEmpty
  <2>2. \A t \in Senders : held'[t] = <<>>
    BY <1>0, <1>10, <2>1, ReleaseEffect
  <2>3. InFlight' = {} /\ \A t \in Senders : IsInjective(held[t])'
    BY <2>2, NothingHeld DEF InFlight, IsInjective
  <2>4. IsInjective(items') /\ Queued' \subseteq Waiting
    <3>1. CASE Requeue(held[s])
      BY <1>0, <2>1, <3>1, RequeueOnce DEF Once, Queued, Waiting
    <3>2. CASE UNCHANGED items
      BY <1>0, <3>2 DEF Once, Queued, Waiting, IsInjective
    <3> QED BY <1>10, <3>1, <3>2
  <2> QED BY <2>3, <2>4 DEF Once, Waiting, IsInjective
<1>11. ASSUME NEW s \in Senders, pc[s] \in {"sent", "answered"}, Release(s), Requeue(held[s]) \/ UNCHANGED items,
              GiveUpOn(s), UNCHANGED pulse
       PROVE  Goal
  <2>1. Once' /\ Waiting' \subseteq Waiting
    BY <1>10, <1>11
  <2>2. landed' = landed /\ \A b \in late' : b \in late \/ Range(b) \subseteq Waiting
    BY <1>11 DEF GiveUpOn, Waiting, InFlight
  <2> QED BY <1>1, <1>11, <2>1, <2>2
<1>12. ASSUME NEW s \in Senders, Answered(s) PROVE Goal
  <2>1. Once' /\ Waiting' \subseteq Waiting
    BY <1>10, <1>12 DEF Answered, Drop
  <2>2. Counted'
    BY <1>0, <1>12, AnswerCounts
  <2>3. FreshBeats'
    BY <1>0, <1>12, <2>1 DEF FreshBeats, Answered, api
  <2> QED BY <2>1, <2>2, <2>3
<1>13. ASSUME NEW s \in Senders, Rejected(s) \/ Failed(s) PROVE Goal
  BY <1>11, <1>13 DEF Rejected, Failed, Drop
<1>14. ASSUME NEW c \in Callers, CallerStep(c) PROVE Goal
  <2>1. CASE CallFlush(c) \/ CallStop(c) \/ FlushDone(c) \/ FlushTimeout(c)
    BY <1>2, <2>1 DEF CallFlush, CallStop, FlushDone, FlushTimeout, buffer, api
  <2>2. CASE CancelFlush(c) \/ StopTask(c)
    <3>1. ASSUME UNCHANGED <<buffer, held, holder, api>> PROVE Goal
      BY <1>2, <2>2, <3>1 DEF CancelFlush, StopTask, buffer, api
    <3>2. ASSUME NEW s \in Senders, CancelSend(s) PROVE Goal
      BY <1>11, <2>2, <3>2 DEF CancelFlush, StopTask, CancelSend, Sending
    <3> QED BY <1>0, <2>2, <3>1, <3>2 DEF CancelFlush, StopTask
  <2>3. CASE Interrupt(c)
    BY <1>0, <1>11, <2>3 DEF Interrupt, Sending, buffer
  <2> QED BY <1>14, <2>1, <2>2, <2>3 DEF CallerStep
<1> QED BY <1>3, <1>4, <1>5, <1>6, <1>7, <1>8, <1>9, <1>12, <1>13, <1>14 DEF Next, SenderStep

\* The heartbeat counters never claim an item the API has not received: what they carried so far
\* and what the next one will are at most the ids that landed.
THEOREM HeartbeatsAreHonest == Spec => []HeartbeatsHonest
<1>1. Init => Once /\ FreshBeats /\ Counted
  <2> SUFFICES ASSUME Init PROVE Once /\ FreshBeats /\ Counted
    OBVIOUS
  <2>1. /\ items = <<>> /\ (\A s \in Senders : held[s] = <<>>) /\ landed = {} /\ late = {}
        /\ sent = 0 /\ claimed = 0
    BY DEF Init
  <2>2. Waiting = {} /\ IsInjective(<<>>) /\ landed \ Waiting = {}
    BY <2>1, NothingHeld DEF Waiting, Queued, InFlight, IsInjective
  <2> QED BY <2>1, <2>2, FS_EmptySet DEF Once, FreshBeats, Counted, Waiting
<1>2. Orderly /\ Orderly' /\ Once /\ FreshBeats /\ Counted /\ [Next]_vars => Once' /\ FreshBeats' /\ Counted'
  BY HonestStep DEF Honest
<1>3. ASSUME Orderly, Counted PROVE HeartbeatsHonest
  <2>1. TypeOK /\ landed \subseteq Ids /\ landed \ Waiting \subseteq landed /\ landed \ Waiting \subseteq Ids
    BY <1>3 DEF Orderly, Accounting, TypeOK
  <2>2. /\ Cardinality(landed \ Waiting) <= Cardinality(landed)
        /\ Cardinality(landed \ Waiting) \in Nat /\ Cardinality(landed) \in Nat
    BY <2>1, FiniteIds, FS_Subset, IdsFinite
  <2> QED BY <1>3, <2>1, <2>2 DEF Counted, HeartbeatsHonest, TypeOK
<1> QED BY <1>1, <1>2, <1>3, AlwaysOrderly, PTL DEF Spec
=============================================================================
