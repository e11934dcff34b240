-------------------------- MODULE VoiceLineProofs --------------------------
(***************************************************************************)
(* What holds of a voice line for every set of utterances, every limit of  *)
(* reads and any number of turns, partials, failures and verifications.    *)
(***************************************************************************)
EXTENDS VoiceLine, SequenceTheorems, TLAPS

Words == Texts \cup {Nothing}
States == {"running", "answered", "refused", "ok", "failed"}
Reads == [words : Words, speculative : BOOLEAN, epoch : Nat, state : States]

\* The type invariant with what it leaves out: the turn, and the history.
Typed ==
    /\ TypeOK
    /\ epoch \in Nat
    /\ read \in Seq(Reads)
    /\ turn \in [step : {"idle", "opening", "choosing", "waiting"}, words : Words,
                 on : SUBSET (1 .. Len(read)), candidates : SUBSET (1 .. Len(read)),
                 asked : BOOLEAN, old : 0 .. Len(read)]
    /\ {from, purged, cleared} \subseteq 0 .. Len(read)

-----------------------------------------------------------------------------
(* The steps the actions share. *)

\* The domain of the reads is their numbers.
LEMMA ReadNumbers ==
    ASSUME Typed
    PROVE  /\ DOMAIN read = 1 .. Len(read) /\ Len(read) \in Nat /\ New \in Nat /\ New = Len(read) + 1
           /\ reads \in Seq(1 .. Len(read)) /\ Len(reads) <= MaxReads
           /\ ToSet(reads) \subseteq 1 .. Len(read)
<1>1. DOMAIN read = 1 .. Len(read) /\ Len(read) \in Nat
    BY LenProperties DEF Typed
<1>2. reads \in Seq(1 .. Len(read)) /\ Len(reads) <= MaxReads
    BY <1>1 DEF Typed, TypeOK
<1> QED BY <1>1, <1>2 DEF New, ToSet

\* add(): a line remembers MAX_READS reads at most, all of them of its own.
LEMMA AddBounded ==
    ASSUME NEW S, NEW all \in Seq(S)
    PROVE  Add(all) \in Seq(S) /\ Len(Add(all)) <= MaxReads
<1>1. MaxReads \in Nat \ {0} /\ Len(all) \in Nat
    BY VoiceLineAssumption
<1> QED BY <1>1 DEF Add

\* A read that starts gets the next number and leaves the others as they are.
LEMMA StartEffect ==
    ASSUME Typed, NEW words \in Words, NEW speculative \in BOOLEAN, Start(words, speculative)
    PROVE  /\ read' \in Seq(Reads) /\ Len(read') = Len(read) + 1
           /\ DOMAIN read' = 1 .. Len(read) + 1
           /\ read'[New] = [words |-> words, speculative |-> speculative, epoch |-> epoch, state |-> "running"]
           /\ \A id \in 1 .. Len(read) : read'[id] = read[id]
           /\ reads' \in Seq(DOMAIN read') /\ Len(reads') <= MaxReads
<1> DEFINE r == [words |-> words, speculative |-> speculative, epoch |-> epoch, state |-> "running"]
<1>1. r \in Reads
    BY DEF Typed, Reads, States
<1>2. read' = Append(read, r) /\ reads' = Add(Append(reads, New))
    BY DEF Start
<1> HIDE DEF r
<1>3. /\ read' \in Seq(Reads) /\ Len(read') = Len(read) + 1 /\ read'[Len(read) + 1] = r
      /\ \A id \in 1 .. Len(read) : read'[id] = read[id]
    BY <1>1, <1>2, AppendProperties DEF Typed
<1>4. DOMAIN read' = 1 .. Len(read) + 1
    BY <1>3, LenProperties
<1>5. Append(reads, New) \in Seq(1 .. Len(read) + 1)
    <2>1. reads \in Seq(1 .. Len(read) + 1)
        BY ReadNumbers, SeqMonotonic
    <2> QED BY <2>1, ReadNumbers, AppendProperties
<1>6. reads' \in Seq(DOMAIN read') /\ Len(reads') <= MaxReads
    BY <1>2, <1>4, <1>5, AddBounded
<1> QED BY <1>3, <1>4, <1>6, ReadNumbers DEF r

\* What a step that starts no read and changes none must keep.
LEMMA SameReads ==
    ASSUME Typed, UNCHANGED <<read, reads, epoch>>,
           line' \in {"none", "live", "closed"},
           {heard', waiting'} \cup due' \subseteq Words,
           speculating' \in DOMAIN read \cup {0}, chosen' \in DOMAIN read \cup {0},
           {settling', pack'} \subseteq BOOLEAN,
           refresh' \in {"no", "queued", "running"}, refreshEpoch' \in 0 .. epoch,
           turn' \in [step : {"idle", "opening", "choosing", "waiting"}, words : Words,
                      on : SUBSET (1 .. Len(read)), candidates : SUBSET (1 .. Len(read)),
                      asked : BOOLEAN, old : 0 .. Len(read)],
           {from', purged', cleared'} \subseteq 0 .. Len(read)
    PROVE  Typed'
BY DEF Typed, TypeOK, Words

\* What a step that changes how reads stand, or which of them are remembered, must keep.
LEMMA ReadsKept ==
    ASSUME Typed, read' \in Seq(Reads), Len(read') = Len(read), epoch' \in Nat, epoch' >= epoch,
           \A id \in 1 .. Len(read) :
                read'[id] \in [words : Words, speculative : BOOLEAN, epoch : 0 .. epoch', state : States],
           reads' \in Seq(1 .. Len(read)), Len(reads') <= MaxReads,
           line' \in {"none", "live", "closed"}, heard' \in Words, waiting' \in Words, due' \subseteq Words,
           speculating' \in 0 .. Len(read), pack' \in BOOLEAN,
           from' \in 0 .. Len(read), purged' \in 0 .. Len(read), cleared' \in 0 .. Len(read),
           UNCHANGED <<settling, chosen, refresh, refreshEpoch, turn>>
    PROVE  Typed'
<1>1. DOMAIN read = 1 .. Len(read) /\ DOMAIN read' = 1 .. Len(read) /\ Len(read) \in Nat
    BY LenProperties, ReadNumbers
<1>2. /\ settling \in BOOLEAN /\ chosen \in 0 .. Len(read)
      /\ refresh \in {"no", "queued", "running"} /\ refreshEpoch \in 0 .. epoch /\ epoch \in Nat
    BY <1>1, SMTT(20) DEF Typed, TypeOK
<1>3. refreshEpoch' \in 0 .. epoch' /\ speculating' \in DOMAIN read' \cup {0} /\ chosen' \in DOMAIN read' \cup {0}
    BY <1>1, <1>2
<1>4. TypeOK'
    BY <1>1, <1>2, <1>3 DEF TypeOK, Words, States
<1> QED BY <1>1, <1>4 DEF Typed

\* What a step that starts a read must keep.
LEMMA ReadStarts ==
    ASSUME Typed, NEW words \in Words, NEW speculative \in BOOLEAN, Start(words, speculative),
           UNCHANGED <<epoch, heard, settling, pack, refresh, refreshEpoch, from, purged, cleared>>,
           line' \in {"none", "live", "closed"},
           {waiting'} \cup due' \subseteq Words,
           speculating' \in {speculating, New}, chosen' \in {chosen, 0},
           turn' \in [step : {"idle", "opening", "choosing", "waiting"}, words : Words,
                      on : SUBSET (1 .. New), candidates : SUBSET (1 .. New),
                      asked : BOOLEAN, old : 0 .. New]
    PROVE  Typed'
<1>1. /\ read' \in Seq(Reads) /\ Len(read') = New /\ DOMAIN read' = 1 .. New /\ New \in Nat
      /\ New = Len(read) + 1 /\ DOMAIN read = 1 .. Len(read) /\ Len(read) \in Nat
      /\ read'[New] = [words |-> words, speculative |-> speculative, epoch |-> epoch, state |-> "running"]
      /\ \A id \in 1 .. Len(read) : read'[id] = read[id]
      /\ reads' \in Seq(DOMAIN read') /\ Len(reads') <= MaxReads
    BY StartEffect, ReadNumbers
<1>2. \A id \in DOMAIN read' :
        read'[id] \in [words : Words, speculative : BOOLEAN, epoch : 0 .. epoch, state : States]
    <2>1. /\ epoch \in Nat
          /\ \A id \in 1 .. Len(read) :
                read[id] \in [words : Words, speculative : BOOLEAN, epoch : 0 .. epoch, state : States]
        BY <1>1 DEF Typed, TypeOK, Words, States
    <2>2. read'[New] \in [words : Words, speculative : BOOLEAN, epoch : 0 .. epoch, state : States]
        BY <1>1, <2>1 DEF States
    <2>3. \A id \in DOMAIN read' : id = New \/ id \in 1 .. Len(read)
        BY <1>1
    <2> QED BY <1>1, <2>1, <2>2, <2>3
<1>3. /\ speculating' \in DOMAIN read' \cup {0} /\ chosen' \in DOMAIN read' \cup {0}
      /\ {from', purged', cleared'} \subseteq 0 .. Len(read')
    <2>1. /\ speculating \in 0 .. Len(read) /\ chosen \in 0 .. Len(read)
          /\ {from, purged, cleared} \subseteq 0 .. Len(read)
        BY <1>1, SMTT(20) DEF Typed, TypeOK
    <2> QED BY <1>1, <2>1
<1> QED BY <1>1, <1>2, <1>3 DEF Typed, TypeOK, Words, States

\* A turn as it was fits the reads there are, one more included.
LEMMA TurnAsItWas ==
    ASSUME Typed
    PROVE  /\ turn \in [step : {"idle", "opening", "choosing", "waiting"}, words : Words,
                      on : SUBSET (1 .. New), candidates : SUBSET (1 .. New),
                      asked : BOOLEAN, old : 0 .. New]
           /\ 1 .. Len(read) \subseteq 1 .. New /\ cleared \in 0 .. New /\ New \in 1 .. New
BY ReadNumbers DEF Typed
-----------------------------------------------------------------------------
(* Type correctness. *)

LEMMA TypedInit == Init => Typed
<1> SUFFICES ASSUME Init PROVE Typed
    OBVIOUS
<1>1. read = <<>> /\ reads = <<>> /\ Len(read) = 0 /\ DOMAIN read = {} /\ read \in Seq(Reads)
      /\ reads \in Seq({}) /\ Len(reads) = 0
    BY EmptySeq DEF Init
<1>2. TypeOK
    <2>1. /\ line = "none" /\ heard = Nothing /\ waiting = Nothing /\ due = {} /\ speculating = 0 /\ chosen = 0
          /\ settling = FALSE /\ pack = FALSE /\ refresh = "no" /\ refreshEpoch = 0 /\ epoch = 0
        BY DEF Init
    <2>2. settling \in BOOLEAN /\ pack \in BOOLEAN
        BY <2>1, Zenon
    <2>3. reads \in Seq(DOMAIN read) /\ Len(reads) <= MaxReads
        BY <1>1, VoiceLineAssumption
    <2>4. {heard, waiting} \cup due \subseteq Texts \cup {Nothing} /\ refreshEpoch \in 0 .. epoch
        BY <2>1
    <2> QED BY <1>1, <2>1, <2>2, <2>3, <2>4 DEF TypeOK
<1>3. turn \in [step : {"idle", "opening", "choosing", "waiting"}, words : Words,
               on : SUBSET (1 .. Len(read)), candidates : SUBSET (1 .. Len(read)),
               asked : BOOLEAN, old : 0 .. Len(read)]
    BY <1>1 DEF Init, Idle, Words
<1> QED BY <1>1, <1>2, <1>3 DEF Init, Typed

\* Each action keeps the types.
LEMMA TypedStep == Typed /\ [Next]_vars => Typed'
<1> SUFFICES ASSUME Typed, [Next]_vars PROVE Typed'
    OBVIOUS
<1> DEFINE TurnType(n) == [step : {"idle", "opening", "choosing", "waiting"}, words : Words,
                           on : SUBSET (1 .. n), candidates : SUBSET (1 .. n), asked : BOOLEAN, old : 0 .. n]
<1>0. /\ line \in {"none", "live", "closed"}
      /\ heard \in Words /\ waiting \in Words /\ due \subseteq Words /\ Nothing \in Words
      /\ speculating \in DOMAIN read \cup {0} /\ chosen \in DOMAIN read \cup {0}
      /\ settling \in BOOLEAN /\ pack \in BOOLEAN
      /\ refresh \in {"no", "queued", "running"} /\ refreshEpoch \in 0 .. epoch /\ epoch \in Nat
      /\ turn \in TurnType(Len(read))
      /\ from \in 0 .. Len(read) /\ purged \in 0 .. Len(read) /\ cleared \in 0 .. Len(read)
      /\ DOMAIN read = 1 .. Len(read) /\ Len(read) \in Nat
    BY ReadNumbers DEF Typed, TypeOK, Words
<1>1. CASE Begin
    <2>1. CASE UNCHANGED <<read, reads>>
        BY <1>0, <1>1, <2>1, SameReads DEF Begin, cache, bounds
    <2>2. CASE Start(Nothing, FALSE)
        BY <1>0, <1>1, <2>2, ReadStarts, TurnAsItWas DEF Begin, cache, bounds
    <2> QED BY <1>1, <2>1, <2>2 DEF Begin
<1>2. ASSUME NEW text \in [of : Utterances, words : Lengths], Hear(text) PROVE Typed'
    <2>1. text \in Words
        BY DEF Words, Texts
    <2> QED BY <1>0, <1>2, <2>1, SameReads DEF Hear, cache
<1>3. ASSUME NEW words \in Said \cup {Nothing}, StartTurn(words) PROVE Typed'
    <2>0. words \in Words
        BY DEF Words, Texts
    <2>1. CASE UNCHANGED <<read, reads>>
        <3>1. turn' \in TurnType(Len(read))
            <4>1. CASE pack
                BY <1>0, <1>3, <2>0, <4>1 DEF StartTurn, Idle
            <4>2. CASE ~pack /\ InFlight # {}
                <5>1. InFlight \subseteq 1 .. Len(read)
                    BY ReadNumbers DEF InFlight
                <5> QED BY <1>0, <1>3, <2>0, <4>2, <5>1 DEF StartTurn, Idle
            <4>3. CASE ~pack /\ InFlight = {}
                <5>1. Len(read') = Len(read) + 1
                    BY <1>3, <2>0, <4>3, StartEffect DEF StartTurn
                <5> QED BY <1>0, <2>1, <5>1
            <4> QED BY <4>1, <4>2, <4>3
        <3> QED BY <1>0, <1>3, <2>1, <3>1, SameReads DEF StartTurn, cache
    <2>2. CASE ~pack /\ InFlight = {} /\ Start(words, FALSE)
        <3>1. turn' \in TurnType(New)
            <4>1. turn' = [Idle EXCEPT !.step = "opening", !.words = words, !.old = cleared, !.asked = TRUE,
                                       !.on = {New}]
                BY <1>3, <2>2 DEF StartTurn
            <4>2. {New} \subseteq 1 .. New /\ cleared \in 0 .. New
                BY TurnAsItWas
            <4> QED BY <2>0, <4>1, <4>2 DEF Idle
        <3> QED BY <1>0, <1>3, <2>0, <2>2, <3>1, ReadStarts DEF StartTurn, cache
    <2> QED BY <1>3, <2>1, <2>2 DEF StartTurn
<1>4. ASSUME NEW why \in {"verify", "end"}, Purge(why) PROVE Typed'
    <2>1. /\ UNCHANGED <<read, reads, line, heard, waiting, due, speculating, settling, chosen, turn, cleared>>
          /\ epoch' = epoch + 1 /\ pack' = FALSE /\ from' = 0 /\ purged' = Len(read)
          /\ UNCHANGED <<refresh, refreshEpoch>>
        BY <1>4 DEF Purge, line_vars
    <2>2. \A id \in 1 .. Len(read) :
            read[id] \in [words : Words, speculative : BOOLEAN, epoch : 0 .. epoch + 1, state : States]
        <3>1. \A id \in 1 .. Len(read) :
                read[id] \in [words : Words, speculative : BOOLEAN, epoch : 0 .. epoch, state : States]
            BY <1>0 DEF Typed, TypeOK, Words, States
        <3>2. 0 .. epoch \subseteq 0 .. epoch + 1
            BY <1>0
        <3> QED BY <3>1, <3>2
    <2>3. read \in Seq(Reads) /\ reads \in Seq(1 .. Len(read)) /\ Len(reads) <= MaxReads
        BY ReadNumbers DEF Typed
    <2>4. epoch' \in Nat /\ epoch' >= epoch /\ speculating \in 0 .. Len(read)
          /\ from' \in 0 .. Len(read) /\ purged' \in 0 .. Len(read)
        BY <1>0, <2>1
    <2>5. pack' \in BOOLEAN
        BY <2>1, Zenon
    <2> QED BY <1>0, <2>1, <2>2, <2>3, <2>4, <2>5, ReadsKept
<1>5. CASE Settle
    BY <1>0, <1>5, SameReads DEF Settle, cache, bounds
<1>6. CASE RefreshStarts
    BY <1>0, <1>6, SameReads DEF RefreshStarts, line_vars, bounds
<1>7. CASE RefreshDone
    <2>1. from' \in {from, 0} /\ pack' \in {pack, TRUE}
        BY <1>7, Zenon DEF RefreshDone, Store
    <2>2. pack' \in BOOLEAN
        BY <1>0, <2>1, Zenon
    <2> QED BY <1>0, <1>7, <2>1, <2>2, SameReads DEF RefreshDone, line_vars, bounds
<1>8. ASSUME NEW text \in Texts, Speculate(text) PROVE Typed'
    <2>0. text \in Words /\ due' \subseteq Words
        BY <1>0, <1>8 DEF Words, Speculate
    <2>1. CASE UNCHANGED <<read, reads>>
        <3>1. speculating' = speculating \/ Start(text, TRUE)
            BY <1>8 DEF Speculate
        <3>2. ~Start(text, TRUE)
            <4>1. Start(text, TRUE) => Len(read') = Len(read) + 1
                BY <2>0, StartEffect
            <4>2. Len(read') = Len(read) /\ Len(read) \in Nat
                BY <1>0, <2>1
            <4>3. Len(read') # Len(read) + 1
                BY <4>2
            <4> QED BY <4>1, <4>3, Zenon
        <3> QED BY <1>0, <1>8, <2>0, <2>1, <3>1, <3>2, SameReads DEF Speculate, cache, bounds
    <2>2. CASE Start(text, TRUE) /\ speculating' = New /\ UNCHANGED waiting
        BY <1>0, <1>8, <2>0, <2>2, ReadStarts, TurnAsItWas DEF Speculate, cache, bounds
    <2> QED BY <1>8, <2>1, <2>2 DEF Speculate
<1>9. ASSUME NEW id \in 1 .. MaxStarted, Answered(id) \/ Finish(id) PROVE Typed'
    <2> DEFINE KeptRead(r) == /\ r \in Seq(Reads) /\ Len(r) = Len(read)
                              /\ \A i \in DOMAIN read :
                                    r[i] \in [words : Words, speculative : BOOLEAN, epoch : 0 .. epoch, state : States]
    <2>0. id \in DOMAIN read
        BY <1>9 DEF Answered, Finish
    <2>1. ASSUME NEW state \in States PROVE KeptRead([read EXCEPT ![id].state = state])
        <3>1. \A i \in DOMAIN read :
                read[i] \in [words : Words, speculative : BOOLEAN, epoch : 0 .. epoch, state : States]
            BY DEF Typed, TypeOK, Words, States
        <3>2. [read[id] EXCEPT !.state = state] \in Reads
            BY <1>0, <2>0, <3>1, SMTT(20) DEF Reads
        <3>3. [read EXCEPT ![id].state = state] = [read EXCEPT ![id] = [read[id] EXCEPT !.state = state]]
            OBVIOUS
        <3>4. [read EXCEPT ![id].state = state] \in Seq(Reads) /\ Len([read EXCEPT ![id].state = state]) = Len(read)
            BY <1>0, <2>0, <3>2, <3>3, ExceptSeq DEF Typed
        <3> QED BY <1>0, <2>0, <3>1, <3>4
    <2>2. KeptRead(read')
        <3>1. CASE Answered(id)
            BY <2>1, <3>1 DEF Answered, States
        <3>2. CASE Finish(id)
            BY <2>1, <3>2 DEF Finish, States
        <3> QED BY <1>9, <3>1, <3>2
    <2>3. /\ UNCHANGED <<reads, epoch, line, heard, settling, refresh, refreshEpoch, turn, chosen, purged, cleared>>
          /\ waiting' \in Words /\ due' \subseteq Words /\ speculating' \in 0 .. Len(read)
          /\ pack' \in BOOLEAN /\ from' \in 0 .. Len(read)
        <3>1. CASE Answered(id)
            <4>1. from' \in {from, id, 0}
                BY <3>1, Zenon DEF Answered, Store
            <4>2. pack' \in {pack, TRUE, FALSE}
                BY <3>1, Zenon DEF Answered, Store
            <4>3. pack' \in BOOLEAN
                BY <1>0, <4>2, Zenon
            <4>4. UNCHANGED <<reads, epoch, line, heard, settling, refresh, refreshEpoch, turn, chosen, purged,
                              cleared, waiting, due, speculating>>
                BY <3>1 DEF Answered
            <4> QED BY <1>0, <2>0, <4>1, <4>3, <4>4
        <3>2. CASE Finish(id)
            BY <1>0, <2>0, <3>2 DEF Finish, cache, bounds
        <3> QED BY <1>9, <3>1, <3>2
    <2>4. reads \in Seq(1 .. Len(read)) /\ Len(reads) <= MaxReads /\ epoch >= epoch
        BY <1>0, ReadNumbers
    <2> QED BY <1>0, <2>2, <2>3, <2>4, ReadsKept
<1>10. CASE Opened
    BY <1>0, <1>10, SameReads, SMTT(20) DEF Opened, Idle, line_vars, cache, bounds
<1>11. CASE Choose
    <2>1. CASE UNCHANGED <<read, reads>> /\ turn' \in TurnType(Len(read))
        BY <1>0, <1>11, <2>1, SameReads DEF Choose, cache, bounds
    <2>2. CASE Start(turn.words, FALSE) /\ turn' = [turn EXCEPT !.step = "waiting", !.candidates = {New}, !.asked = TRUE]
        <3>1. turn' \in TurnType(New)
            BY <2>2, TurnAsItWas
        <3> QED BY <1>0, <1>11, <2>2, <3>1, ReadStarts DEF Choose, cache, bounds
    <2>3. Covering(turn.words) \subseteq 1 .. Len(read)
        BY ReadNumbers DEF Covering
    <2> QED BY <1>0, <1>11, <2>1, <2>2, <2>3, ZenonT(30) DEF Choose
<1>12. CASE TurnDone
    <2>1. chosen' \in DOMAIN read \cup {0}
        BY <1>0, <1>12 DEF TurnDone
    <2> QED BY <1>0, <1>12, <2>1, SameReads DEF TurnDone, Idle, line_vars, bounds
<1>13. CASE ForgetReads
    <2>1. reads' = <<>> /\ reads' \in Seq(1 .. Len(read)) /\ Len(reads') <= MaxReads
        BY <1>13, EmptySeq, VoiceLineAssumption DEF ForgetReads
    <2>2. \A id \in 1 .. Len(read) :
            read[id] \in [words : Words, speculative : BOOLEAN, epoch : 0 .. epoch, state : States]
        BY <1>0 DEF Typed, TypeOK, Words, States
    <2>3. /\ UNCHANGED <<read, epoch, settling, chosen, refresh, refreshEpoch, turn, purged, from, pack, due>>
          /\ line' \in {"none", "live", "closed"} /\ heard' \in Words /\ waiting' \in Words
          /\ speculating' \in 0 .. Len(read) /\ cleared' \in 0 .. Len(read) /\ read \in Seq(Reads)
        BY <1>0, <1>13 DEF ForgetReads, cache, bounds, Typed
    <2> QED BY <1>0, <2>1, <2>2, <2>3, ReadsKept
<1>14. CASE DropLine
    <2>1. reads' = <<>> /\ reads' \in Seq(1 .. Len(read)) /\ Len(reads') <= MaxReads
        BY <1>14, EmptySeq, VoiceLineAssumption DEF DropLine
    <2>2. \A id \in 1 .. Len(read) :
            read[id] \in [words : Words, speculative : BOOLEAN, epoch : 0 .. epoch, state : States]
        BY <1>0 DEF Typed, TypeOK, Words, States
    <2>3. /\ UNCHANGED <<read, epoch, settling, chosen, refresh, refreshEpoch, turn, purged, from, pack, due>>
          /\ line' \in {"none", "live", "closed"} /\ heard' \in Words /\ waiting' \in Words
          /\ speculating' \in 0 .. Len(read) /\ cleared' \in 0 .. Len(read) /\ read \in Seq(Reads)
        BY <1>0, <1>14 DEF DropLine, cache, bounds, Typed
    <2> QED BY <1>0, <2>1, <2>2, <2>3, ReadsKept
<1>15. CASE UNCHANGED vars
    BY <1>0, <1>15, SameReads DEF vars, line_vars, cache, bounds
<1> QED BY <1>1, <1>2, <1>3, <1>4, <1>5, <1>6, <1>7, <1>8, <1>9, <1>10, <1>11, <1>12, <1>13, <1>14, <1>15
        DEF Next, BackgroundStep, CallStep

\* A voice line is well formed in every state: it remembers MAX_READS reads at most, all of its own, and a
\* turn's slots are of one of them.
THEOREM TypeCorrect == Spec => []TypeOK
<1>1. Typed => TypeOK
    BY DEF Typed
<1> QED BY <1>1, TypedInit, TypedStep, PTL DEF Spec

-----------------------------------------------------------------------------
(* A purge holds against the reads under way. *)

\* A read started before the last purge carries an epoch of before it, whatever its answer does later.
PackInv ==
    /\ PackSincePurge
    /\ \A id \in 1 .. purged : read[id].epoch < epoch

LEMMA PackInit == Init => PackInv
BY DEF Init, PackInv, PackSincePurge

\* A read keeps the epoch and the words it began with, whatever step is taken.
LEMMA EpochsKept ==
    ASSUME Typed, Typed', [Next]_vars
    PROVE  /\ Len(read) <= Len(read')
           /\ \A id \in 1 .. Len(read) : read'[id].epoch = read[id].epoch /\ read'[id].words = read[id].words
<1>1. DOMAIN read = 1 .. Len(read) /\ Len(read) \in Nat
    BY ReadNumbers
<1>2. ASSUME NEW words \in Words, NEW speculative \in BOOLEAN, Start(words, speculative)
      PROVE  /\ Len(read) <= Len(read')
             /\ \A id \in 1 .. Len(read) : read'[id].epoch = read[id].epoch /\ read'[id].words = read[id].words
    <2>1. Len(read') = Len(read) + 1 /\ \A id \in 1 .. Len(read) : read'[id] = read[id]
        BY <1>2, StartEffect
    <2> QED BY <1>1, <2>1
<1>3. CASE UNCHANGED read
    BY <1>1, <1>3
<1>4. ASSUME NEW id \in 1 .. MaxStarted, Answered(id) \/ Finish(id)
      PROVE  /\ Len(read) <= Len(read')
             /\ \A i \in 1 .. Len(read) : read'[i].epoch = read[i].epoch /\ read'[i].words = read[i].words
    <2>1. read \in Seq(Reads) /\ \A i \in 1 .. Len(read) : read[i] \in Reads
        BY <1>1, ElementOfSeq DEF Typed
    <2>2. PICK state \in States : read' = [read EXCEPT ![id].state = state]
        BY <1>4 DEF Answered, Finish, States
    <2>3. DOMAIN read' = DOMAIN read /\ Len(read') = Len(read)
        <3>1. DOMAIN read' = DOMAIN read
            BY <2>2
        <3>2. DOMAIN read' = 1 .. Len(read') /\ Len(read') \in Nat
            BY LenProperties DEF Typed
        <3> QED BY <1>1, <3>1, <3>2
    <2> QED BY <1>1, <2>1, <2>2, <2>3 DEF Reads
<1>5. Nothing \in Words /\ turn.words \in Words /\ Said \cup {Nothing} \subseteq Words /\ Texts \subseteq Words
    BY DEF Typed, Words, Texts
<1>6. \/ UNCHANGED read
      \/ \E words \in Words, speculative \in BOOLEAN : Start(words, speculative)
      \/ \E id \in 1 .. MaxStarted : Answered(id) \/ Finish(id)
    <2>1. CASE Begin
        BY <1>5, <2>1 DEF Begin
    <2>2. ASSUME NEW words \in Said \cup {Nothing}, StartTurn(words)
          PROVE  UNCHANGED read \/ Start(words, FALSE)
        BY <2>2 DEF StartTurn
    <2>3. ASSUME NEW text \in Texts, Speculate(text) PROVE UNCHANGED read \/ Start(text, TRUE)
        BY <2>3 DEF Speculate
    <2>4. CASE Choose
        BY <1>5, <2>4 DEF Choose
    <2>5. CASE UNCHANGED vars
        BY <2>5 DEF vars, line_vars
    <2>6. ASSUME NEW text \in [of : Utterances, words : Lengths], Hear(text) PROVE UNCHANGED read
        BY <2>6 DEF Hear
    <2>7. ASSUME NEW why \in {"verify", "end"}, Purge(why) PROVE UNCHANGED read
        BY <2>7 DEF Purge, line_vars
    <2>8. CASE Settle \/ RefreshStarts \/ RefreshDone \/ Opened \/ TurnDone \/ ForgetReads \/ DropLine
        BY <2>8 DEF Settle, RefreshStarts, RefreshDone, Opened, TurnDone, ForgetReads, DropLine, line_vars
    <2> QED BY <1>5, <2>1, <2>2, <2>3, <2>4, <2>5, <2>6, <2>7, <2>8 DEF Next, BackgroundStep, CallStep
<1> QED BY <1>2, <1>3, <1>4, <1>6

\* Only a purge moves the epoch, and only a store moves the pack.
LEMMA PackStep == Typed /\ Typed' /\ PackInv /\ [Next]_vars => PackInv'
<1> SUFFICES ASSUME Typed, Typed', PackInv, [Next]_vars PROVE PackInv'
    OBVIOUS
<1>0. /\ Len(read) \in Nat /\ purged \in 0 .. Len(read) /\ from \in 0 .. Len(read) /\ epoch \in Nat
      /\ \A id \in 1 .. Len(read) : read[id] \in Reads /\ read[id].epoch \in 0 .. epoch
    BY ReadNumbers, ElementOfSeq DEF Typed, TypeOK
<1>1. \A id \in 1 .. Len(read) : read'[id].epoch = read[id].epoch
    BY EpochsKept
<1>2. ASSUME UNCHANGED <<epoch, purged>>, PackSincePurge' PROVE PackInv'
    BY <1>0, <1>1, <1>2 DEF PackInv
<1>3. CASE UNCHANGED <<pack, from, purged, epoch>>
    BY <1>2, <1>3 DEF PackInv, PackSincePurge
<1>4. ASSUME NEW why \in {"verify", "end"}, Purge(why) PROVE PackInv'
    <2>1. pack' = FALSE /\ purged' = Len(read) /\ epoch' = epoch + 1
        BY <1>4 DEF Purge
    <2>2. \A id \in 1 .. purged' : read'[id].epoch < epoch'
        BY <1>0, <1>1, <2>1
    <2> QED BY <2>1, <2>2 DEF PackInv, PackSincePurge
<1>5. ASSUME NEW id \in 1 .. MaxStarted, Answered(id) PROVE PackInv'
    <2>1. UNCHANGED <<epoch, purged>> /\ id \in 1 .. Len(read)
        BY <1>5, ReadNumbers DEF Answered
    <2>2. \/ UNCHANGED <<pack, from>>
          \/ read[id].epoch = epoch /\ from' = id
          \/ from' = 0
          \/ pack' = pack /\ from' = from
        BY <1>5, Zenon DEF Answered, Store
    <2>3. read[id].epoch = epoch => id > purged
        BY <1>0, <2>1 DEF PackInv
    <2>4. PackSincePurge'
        BY <2>1, <2>2, <2>3 DEF PackInv, PackSincePurge
    <2> QED BY <1>2, <2>1, <2>4
<1>6. CASE RefreshDone
    <2>1. UNCHANGED <<epoch, purged>> /\ (from' = 0 \/ UNCHANGED <<pack, from>>)
        BY <1>6 DEF RefreshDone, Store
    <2>2. PackSincePurge'
        BY <2>1 DEF PackInv, PackSincePurge
    <2> QED BY <1>2, <2>1, <2>2
<1>7. ASSUME NEW id \in 1 .. MaxStarted, Finish(id) PROVE UNCHANGED <<pack, from, purged, epoch>>
    BY <1>7 DEF Finish, cache
<1>8. CASE Begin \/ Settle \/ RefreshStarts \/ Opened \/ Choose \/ TurnDone \/ ForgetReads \/ DropLine \/ UNCHANGED vars
    BY <1>3, <1>8 DEF Begin, Settle, RefreshStarts, Opened, Choose, TurnDone, ForgetReads, DropLine, vars, cache
<1>9. ASSUME NEW text \in [of : Utterances, words : Lengths], Hear(text) PROVE UNCHANGED <<pack, from, purged, epoch>>
    BY <1>9 DEF Hear, cache
<1>10. ASSUME NEW words \in Said \cup {Nothing}, StartTurn(words) PROVE UNCHANGED <<pack, from, purged, epoch>>
    BY <1>10 DEF StartTurn, cache
<1>11. ASSUME NEW text \in Texts, Speculate(text) PROVE UNCHANGED <<pack, from, purged, epoch>>
    BY <1>11 DEF Speculate, cache
<1> QED BY <1>3, <1>4, <1>5, <1>6, <1>7, <1>8, <1>9, <1>10, <1>11 DEF Next, BackgroundStep, CallStep

\* No answer of a read that was under way at verify() or end() brings a pack back, however many reads, purges
\* and refreshes cross.
THEOREM PurgeHolds == Spec => []PackSincePurge
<1>1. PackInv => PackSincePurge
    BY DEF PackInv
<1> QED BY <1>1, TypedInit, TypedStep, PackInit, PackStep, PTL DEF Spec

-----------------------------------------------------------------------------
(* One speculative read at a time. *)

\* The speculative reads not done yet, of those started since the line last forgot its reads, are the one
\* the line names.
SpeculationInv ==
    \A id \in 1 .. Len(read) : id > cleared /\ read[id].speculative /\ ~Done(id) => speculating = id

LEMMA SpeculationStep == Typed /\ Typed' /\ SpeculationInv /\ [Next]_vars => SpeculationInv'
<1> SUFFICES ASSUME Typed, Typed', SpeculationInv, [Next]_vars PROVE SpeculationInv'
    OBVIOUS
<1>0. /\ Len(read) \in Nat /\ cleared \in 0 .. Len(read) /\ DOMAIN read = 1 .. Len(read)
      /\ New = Len(read) + 1 /\ speculating \in 0 .. Len(read)
      /\ \A id \in 1 .. Len(read) : read[id] \in Reads
    <2>1. \A id \in 1 .. Len(read) : read[id] \in Reads
        BY ElementOfSeq DEF Typed
    <2>2. DOMAIN read = 1 .. Len(read) /\ Len(read) \in Nat /\ New = Len(read) + 1
        BY ReadNumbers
    <2>3. cleared \in 0 .. Len(read)
        BY DEF Typed
    <2>4. speculating \in DOMAIN read \cup {0}
        BY DEF Typed, TypeOK
    <2> QED BY <2>1, <2>2, <2>3, <2>4
<1>1. CASE UNCHANGED <<read, speculating, cleared>>
    BY <1>1 DEF SpeculationInv, Done
<1>2. ASSUME NEW words \in Words, Start(words, FALSE), UNCHANGED <<speculating, cleared>> PROVE SpeculationInv'
    <2>1. /\ Len(read') = Len(read) + 1
          /\ read'[New] = [words |-> words, speculative |-> FALSE, epoch |-> epoch, state |-> "running"]
          /\ \A id \in 1 .. Len(read) : read'[id] = read[id]
        BY <1>2, StartEffect
    <2>2. ~read'[New].speculative
        BY <2>1
    <2> QED BY <1>0, <1>2, <2>1, <2>2 DEF SpeculationInv, Done
<1>3. ASSUME NEW text \in Texts, Speculate(text) PROVE SpeculationInv'
    <2>1. CASE UNCHANGED <<read, speculating>>
        BY <1>1, <1>3, <2>1 DEF Speculate
    <2>2. CASE ~Busy(speculating) /\ Start(text, TRUE) /\ speculating' = New
        <3>1. text \in Words
            BY DEF Words
        <3>2. /\ Len(read') = Len(read) + 1 /\ UNCHANGED cleared
              /\ \A id \in 1 .. Len(read) : read'[id] = read[id]
            BY <1>3, <2>2, <3>1, StartEffect DEF Speculate
        <3>3. \A id \in 1 .. Len(read) : ~(id > cleared /\ read[id].speculative /\ ~Done(id))
            BY <1>0, <2>2 DEF SpeculationInv, Busy
        <3> QED BY <1>0, <2>2, <3>2, <3>3 DEF SpeculationInv, Done
    <2> QED BY <1>3, <2>1, <2>2 DEF Speculate
<1>4. ASSUME NEW id \in 1 .. MaxStarted, Answered(id) \/ Finish(id) PROVE SpeculationInv'
    <2>1. id \in 1 .. Len(read) /\ ~Done(id) /\ UNCHANGED cleared
        BY <1>0, <1>4 DEF Answered, Finish, Done
    <2>2. PICK state \in States : read' = [read EXCEPT ![id].state = state]
        BY <1>4 DEF Answered, Finish, States
    <2>3. Len(read') = Len(read)
        <3>1. DOMAIN read' = DOMAIN read
            BY <2>2
        <3>2. DOMAIN read' = 1 .. Len(read') /\ Len(read') \in Nat
            BY LenProperties DEF Typed
        <3> QED BY <1>0, <3>1, <3>2
    <2>4. \A i \in 1 .. Len(read) : read'[i].speculative = read[i].speculative /\ (i # id => read'[i] = read[i])
        BY <1>0, <2>2 DEF Reads
    <2>5. CASE Answered(id)
        BY <2>1, <2>3, <2>4, <2>5 DEF Answered, SpeculationInv, Done
    <2>6. CASE Finish(id)
        <3>1. read'[id].state \in {"ok", "failed"}
            BY <1>0, <2>1, <2>6 DEF Finish, Reads
        <3>2. speculating' = speculating \/ speculating = id
            BY <2>6 DEF Finish
        <3> QED BY <2>1, <2>3, <2>4, <3>1, <3>2 DEF SpeculationInv, Done
    <2> QED BY <1>4, <2>5, <2>6
<1>5. CASE ForgetReads \/ DropLine
    BY <1>0, <1>5 DEF ForgetReads, DropLine, SpeculationInv
<1>6. CASE Begin
    <2>1. Nothing \in Words
        BY DEF Words
    <2> QED BY <1>1, <1>2, <1>6, <2>1 DEF Begin
<1>7. ASSUME NEW words \in Said \cup {Nothing}, StartTurn(words) PROVE SpeculationInv'
    <2>1. words \in Words
        BY DEF Words, Texts
    <2> QED BY <1>1, <1>2, <1>7, <2>1 DEF StartTurn
<1>8. CASE Choose
    <2>1. turn.words \in Words
        BY DEF Typed
    <2> QED BY <1>1, <1>2, <1>8, <2>1 DEF Choose
<1>9. ASSUME NEW text \in [of : Utterances, words : Lengths], Hear(text) PROVE SpeculationInv'
    BY <1>1, <1>9 DEF Hear
<1>10. ASSUME NEW why \in {"verify", "end"}, Purge(why) PROVE SpeculationInv'
    BY <1>1, <1>10 DEF Purge, line_vars
<1>11. CASE Settle \/ RefreshStarts \/ RefreshDone \/ Opened \/ TurnDone \/ UNCHANGED vars
    BY <1>1, <1>11 DEF Settle, RefreshStarts, RefreshDone, Opened, TurnDone, vars, line_vars
<1> QED BY <1>3, <1>4, <1>5, <1>6, <1>7, <1>8, <1>9, <1>10, <1>11 DEF Next, BackgroundStep, CallStep

\* A second speculative read starts only when the first is done, whatever settles and answers meanwhile.
THEOREM OneAtATime == Spec => []OneSpeculation
<1>1. Init => SpeculationInv
    BY DEF Init, SpeculationInv
<1>2. Typed /\ SpeculationInv => OneSpeculation
    BY ReadNumbers DEF SpeculationInv, OneSpeculation
<1> QED BY <1>1, <1>2, TypedInit, TypedStep, SpeculationStep, PTL DEF Spec

-----------------------------------------------------------------------------
(* The slots are the turn's. *)

\* The reads a line remembers were started since it last forgot them.
ReadsSince == \A id \in ToSet(reads) : id > cleared

\* The reads a turn may take its slots from answer its words and are younger than what was forgotten
\* before the turn began.
CandidatesFit ==
    /\ turn.old <= cleared
    /\ \A id \in turn.candidates : id > turn.old /\ Fits(read[id].words, turn.words)

SlotsInv == ReadsSince /\ CandidatesFit

\* add() remembers no read but those it is given.
LEMMA AddKeeps ==
    ASSUME NEW S, NEW all \in Seq(S)
    PROVE  ToSet(Add(all)) \subseteq ToSet(all)
<1>1. MaxReads \in Nat \ {0} /\ Len(all) \in Nat /\ DOMAIN all = 1 .. Len(all)
    BY VoiceLineAssumption, LenProperties
<1>2. PICK m \in 1 .. Len(all) + 1 : Add(all) = SubSeq(all, m, Len(all))
    <2>1. CASE Len(all) > MaxReads
        <3>1. Add(all) = SubSeq(all, Len(all) - MaxReads + 1, Len(all))
            BY <2>1 DEF Add
        <3>2. Len(all) - MaxReads + 1 \in 1 .. Len(all) + 1
            BY <1>1, <2>1
        <3> QED BY <3>1, <3>2
    <2>2. CASE ~(Len(all) > MaxReads)
        <3>1. Add(all) = SubSeq(all, 1, Len(all))
            BY <2>2 DEF Add
        <3>2. 1 \in 1 .. Len(all) + 1
            BY <1>1
        <3> QED BY <3>1, <3>2
    <2> QED BY <2>1, <2>2
<1>3. Len(SubSeq(all, m, Len(all))) = Len(all) - m + 1
    BY <1>1, <1>2
<1>4. \A i \in 1 .. Len(all) - m + 1 : SubSeq(all, m, Len(all))[i] = all[m + i - 1] /\ m + i - 1 \in 1 .. Len(all)
    BY <1>1, <1>2
<1>5. DOMAIN SubSeq(all, m, Len(all)) = 1 .. Len(all) - m + 1
    BY <1>1, <1>2
<1> QED BY <1>1, <1>2, <1>4, <1>5 DEF ToSet

\* A read that starts is younger than all that was forgotten.
LEMMA StartSince ==
    ASSUME Typed, ReadsSince, NEW words \in Words, NEW speculative \in BOOLEAN, Start(words, speculative),
           UNCHANGED cleared
    PROVE  ReadsSince'
<1>1. reads \in Seq(Nat) /\ Append(reads, New) \in Seq(Nat) /\ New \in Nat
    <2>1. reads \in Seq(Nat) /\ New \in Nat
        BY ReadNumbers, SeqMonotonic
    <2> QED BY <2>1, AppendProperties
<1>2. ToSet(Append(reads, New)) \subseteq ToSet(reads) \cup {New}
    <2>1. /\ DOMAIN Append(reads, New) = 1 .. Len(reads) + 1 /\ DOMAIN reads = 1 .. Len(reads) /\ Len(reads) \in Nat
          /\ \A i \in 1 .. Len(reads) : Append(reads, New)[i] = reads[i]
          /\ Append(reads, New)[Len(reads) + 1] = New
        BY <1>1, AppendProperties, LenProperties
    <2>2. \A i \in 1 .. Len(reads) + 1 : i = Len(reads) + 1 \/ i \in 1 .. Len(reads)
        BY <2>1
    <2> QED BY <2>1, <2>2 DEF ToSet
<1>3. reads' = Add(Append(reads, New))
    BY DEF Start
<1>4. ToSet(reads') \subseteq ToSet(reads) \cup {New}
    BY <1>1, <1>2, <1>3, AddKeeps
<1>5. New > cleared
    BY ReadNumbers DEF Typed
<1> QED BY <1>4, <1>5 DEF ReadsSince

\* What a line remembers changes by a start, or is forgotten whole.
LEMMA SlotsStep == Typed /\ Typed' /\ SlotsInv /\ [Next]_vars => SlotsInv'
<1> SUFFICES ASSUME Typed, Typed', SlotsInv, [Next]_vars PROVE SlotsInv'
    OBVIOUS
<1>0. /\ Len(read) \in Nat /\ cleared \in 0 .. Len(read) /\ New = Len(read) + 1 /\ turn.old \in Nat
      /\ turn.candidates \subseteq 1 .. Len(read) /\ turn.words \in Words /\ turn.old <= cleared
      /\ ToSet(reads) \subseteq 1 .. Len(read)
    BY ReadNumbers DEF Typed, SlotsInv, CandidatesFit
<1>1. \A id \in 1 .. Len(read) : read'[id].words = read[id].words
    BY EpochsKept
<1>2. ASSUME UNCHANGED turn, cleared' \in Nat, cleared' >= cleared PROVE CandidatesFit'
    BY <1>0, <1>1, <1>2 DEF SlotsInv, CandidatesFit
<1>3. ASSUME turn'.candidates = {}, turn'.old <= cleared' PROVE CandidatesFit'
    BY <1>3 DEF CandidatesFit
<1>4. CASE UNCHANGED <<reads, cleared, turn>>
    BY <1>0, <1>2, <1>4 DEF SlotsInv, ReadsSince
<1>5. ASSUME NEW words \in Words, NEW speculative \in BOOLEAN, Start(words, speculative), UNCHANGED <<cleared, turn>>
      PROVE  SlotsInv'
    BY <1>0, <1>2, <1>5, StartSince DEF SlotsInv
<1>6. Nothing \in Words /\ Said \cup {Nothing} \subseteq Words /\ Texts \subseteq Words
    BY DEF Words, Texts
<1>7. CASE Begin
    BY <1>4, <1>5, <1>6, <1>7 DEF Begin
<1>8. ASSUME NEW words \in Said \cup {Nothing}, StartTurn(words) PROVE SlotsInv'
    <2>1. UNCHANGED cleared /\ (UNCHANGED reads \/ Start(words, FALSE))
        BY <1>8 DEF StartTurn
    <2>2. ReadsSince'
        BY <1>6, <2>1, StartSince DEF SlotsInv, ReadsSince
    <2>3. turn'.candidates = {} /\ turn'.old = cleared
        BY <1>8 DEF StartTurn, Idle
    <2> QED BY <1>0, <1>3, <2>1, <2>2, <2>3 DEF SlotsInv
<1>9. CASE Opened
    <2>1. /\ UNCHANGED <<reads, cleared>> /\ turn'.words \in {turn.words, Nothing}
          /\ turn' = [turn EXCEPT !.step = "choosing"] \/ turn' = Idle
        BY <1>9 DEF Opened, line_vars, Idle, Typed
    <2>2. CASE turn' = Idle
        BY <1>0, <1>3, <2>1, <2>2 DEF SlotsInv, ReadsSince, Idle
    <2>3. CASE turn' = [turn EXCEPT !.step = "choosing"]
        <3>1. turn'.candidates = turn.candidates /\ turn'.words = turn.words /\ turn'.old = turn.old
            BY <2>3 DEF Typed
        <3> QED BY <1>0, <1>1, <2>1, <3>1 DEF SlotsInv, ReadsSince, CandidatesFit
    <2> QED BY <2>1, <2>2, <2>3
<1>10. CASE Choose
    <2>0. UNCHANGED cleared /\ turn'.words = turn.words /\ turn'.old = turn.old
        BY <1>10 DEF Choose, Typed
    <2>1. ReadsSince'
        BY <1>0, <1>10, <2>0, StartSince DEF Choose, SlotsInv, ReadsSince
    <2>2. CASE turn'.candidates = turn.candidates
        BY <1>0, <1>1, <2>0, <2>1, <2>2 DEF SlotsInv, CandidatesFit
    <2>3. CASE turn'.candidates = Covering(turn.words)
        <3>1. \A id \in Covering(turn.words) :
                id \in 1 .. Len(read) /\ id > cleared /\ Fits(read[id].words, turn.words)
            BY <1>0 DEF Covering, Fits, SlotsInv, ReadsSince
        <3> QED BY <1>0, <1>1, <2>0, <2>1, <2>3, <3>1 DEF SlotsInv, CandidatesFit
    <2>4. CASE turn'.candidates = {New} /\ Start(turn.words, FALSE)
        <3>0. read'[New] = [words |-> turn.words, speculative |-> FALSE, epoch |-> epoch, state |-> "running"]
            BY <1>0, <2>4, StartEffect
        <3>1. read'[New].words = turn.words
            BY <3>0
        <3>2. Fits(read'[New].words, turn'.words) /\ New > turn'.old
            BY <1>0, <2>0, <3>1 DEF Fits
        <3> QED BY <1>0, <2>0, <2>1, <2>4, <3>2 DEF SlotsInv, CandidatesFit
    <2>5. \/ turn' = [turn EXCEPT !.step = "waiting"]
          \/ turn' = [turn EXCEPT !.step = "waiting", !.candidates = Covering(turn.words)]
          \/ turn' = [turn EXCEPT !.step = "waiting", !.candidates = {New}, !.asked = TRUE] /\ Start(turn.words, FALSE)
        BY <1>10 DEF Choose
    <2>6. \/ turn'.candidates = turn.candidates
          \/ turn'.candidates = Covering(turn.words)
          \/ turn'.candidates = {New} /\ Start(turn.words, FALSE)
        BY <2>5 DEF Typed
    <2> QED BY <2>2, <2>3, <2>4, <2>6
<1>11. CASE TurnDone
    BY <1>0, <1>3, <1>11 DEF TurnDone, Idle, line_vars, SlotsInv, ReadsSince
<1>12. CASE ForgetReads \/ DropLine
    <2>1. reads' = <<>> /\ cleared' = Len(read) /\ UNCHANGED turn
        BY <1>12 DEF ForgetReads, DropLine
    <2>2. ReadsSince'
        BY <2>1 DEF ReadsSince, ToSet
    <2> QED BY <1>0, <1>2, <2>1, <2>2 DEF SlotsInv
<1>13. ASSUME NEW text \in Texts, Speculate(text) PROVE SlotsInv'
    BY <1>4, <1>5, <1>6, <1>13 DEF Speculate
<1>14. ASSUME NEW id \in 1 .. MaxStarted, Answered(id) \/ Finish(id) PROVE UNCHANGED <<reads, cleared, turn>>
    BY <1>14 DEF Answered, Finish
<1>15. ASSUME NEW text \in [of : Utterances, words : Lengths], Hear(text) PROVE UNCHANGED <<reads, cleared, turn>>
    BY <1>15 DEF Hear
<1>16. ASSUME NEW why \in {"verify", "end"}, Purge(why) PROVE UNCHANGED <<reads, cleared, turn>>
    BY <1>16 DEF Purge, line_vars
<1>17. CASE Settle \/ RefreshStarts \/ RefreshDone \/ UNCHANGED vars
    BY <1>4, <1>17 DEF Settle, RefreshStarts, RefreshDone, vars, line_vars
<1> QED BY <1>4, <1>7, <1>8, <1>9, <1>10, <1>11, <1>12, <1>13, <1>14, <1>15, <1>16, <1>17
        DEF Next, BackgroundStep, CallStep

\* Only the end of a turn chooses slots.
LEMMA ChoiceFits ==
    ASSUME Typed, SlotsInv, [Next]_vars, chosen' # 0, chosen' # chosen
    PROVE  Fits(read[chosen'].words, turn.words) /\ chosen' > turn.old
<1>1. TurnDone
    <2>1. ASSUME NEW words \in Said \cup {Nothing} PROVE ~StartTurn(words)
        BY DEF StartTurn
    <2>2. ASSUME NEW text \in Texts PROVE ~Speculate(text)
        BY DEF Speculate
    <2>3. ASSUME NEW id \in 1 .. MaxStarted PROVE ~Answered(id) /\ ~Finish(id)
        BY DEF Answered, Finish
    <2>4. ASSUME NEW text \in [of : Utterances, words : Lengths] PROVE ~Hear(text)
        BY DEF Hear
    <2>5. ASSUME NEW why \in {"verify", "end"} PROVE ~Purge(why)
        BY DEF Purge
    <2>6. ~Begin /\ ~Settle /\ ~RefreshStarts /\ ~RefreshDone /\ ~Opened /\ ~Choose /\ ~ForgetReads /\ ~DropLine
        BY DEF Begin, Settle, RefreshStarts, RefreshDone, Opened, Choose, ForgetReads, DropLine
    <2>7. ~UNCHANGED vars
        BY DEF vars
    <2> QED BY <2>1, <2>2, <2>3, <2>4, <2>5, <2>6, <2>7 DEF Next, BackgroundStep, CallStep
<1>2. chosen' \in turn.candidates
    BY <1>1 DEF TurnDone
<1> QED BY <1>2 DEF SlotsInv, CandidatesFit

\* Whatever partials, answers, failures and verifications cross a turn, the slots it gets answer its own words
\* and were not read before a verify() that it came after.
THEOREM SlotsAreTheTurns == Spec => SlotsFit
<1>1. Init => SlotsInv
    BY EmptySeq DEF Init, SlotsInv, ReadsSince, CandidatesFit, Idle, ToSet
<1>2. Typed /\ SlotsInv /\ [Next]_vars =>
        [chosen' # 0 /\ chosen' # chosen => Fits(read[chosen'].words, turn.words) /\ chosen' > turn.old]_vars
    BY ChoiceFits
<1> QED BY <1>1, <1>2, TypedInit, TypedStep, SlotsStep, PTL DEF Spec, SlotsFit
=============================================================================
