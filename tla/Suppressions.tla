---------------------------- MODULE Suppressions ----------------------------
(***************************************************************************)
(* The local copy of the suppression list (coordination/suppression.py)    *)
(* and the checks that read it and read it again (Niadra.may_contact). The *)
(* list is a log of changes that pages with cursors give out. An entry     *)
(* stands for the contact it forbids: destination, purpose, channel and an *)
(* hour inside its window. One reader at a time holds the cursor, so a     *)
(* round trip and what it does to the copy are one step.                   *)
(***************************************************************************)
EXTENDS Integers, Sequences, FiniteSets, FiniteSetsExt

CONSTANTS
    Entries,      \* entries of the list
    Open,         \* those of purposes that fail open (FAIL_OPEN)
    Callers,      \* threads that check
    Page,         \* PAGE: entries of a full page
    MaxPages,     \* MAX_PAGES: round trips of one read
    FirstRounds,  \* FIRST_READ_ROUNDS
    MaxChanges, MaxTurnovers, MaxGone, MaxFailed, MaxAges  \* bounds on what happens to the list and the reads

ASSUME SuppressionsAssumption ==
    /\ Open \subseteq Entries
    /\ {Page, MaxPages, FirstRounds} \subseteq Nat \ {0}
    /\ {MaxChanges, MaxTurnovers, MaxGone, MaxFailed, MaxAges} \subseteq Nat

Later == "later"
NoReader == [who |-> "nobody", left |-> 0]
NoCursor == [log |-> 0, at |-> 0]

VARIABLES
    listed,   \* the space keeps a list
    log,      \* its changes, oldest first
    logs,     \* how many logs there were: a cursor of an older one is answered with reset
    salt,     \* the salt its keys are made with
    known,    \* _salt, 0 for none
    copy,     \* _entries: the salt of each entry's key, 0 for an entry not held
    cursor,   \* _cursor
    readAt,   \* _read_at: "never", "fresh", "old"
    absent,   \* _absent
    reader,   \* who holds the copy's cursor (_suppressions_reading), and its round trips left
    check,    \* what each caller does, about which entry, and the answer it got last
    sure,     \* history: entries of the last copy read in full, in force ever since, and
    sureLog,  \* the log they were read from
    late,     \* history: a wait for another's read ran out of time
    changes, gone, failed, ages

list == <<listed, log, logs, salt>>
local == <<known, copy, cursor, readAt, absent>>
history == <<sure, sureLog, late>>
bounds == <<changes, gone, failed, ages>>
list_vars == <<list, local, reader, check, history, bounds>>

Idle == [step |-> "idle", about |-> CHOOSE e \in Entries : TRUE, answer |-> "none"]

ListInit ==
    /\ listed = TRUE /\ log = <<>> /\ logs = 1 /\ salt = 1
    /\ known = 0 /\ copy = [e \in Entries |-> 0] /\ cursor = NoCursor /\ readAt = "never" /\ absent = FALSE
    /\ reader = NoReader /\ check = [c \in Callers |-> Idle]
    /\ sure = {} /\ sureLog = 1 /\ late = FALSE
    /\ changes = 0 /\ gone = 0 /\ failed = 0 /\ ages = 0

Held == absent \/ readAt # "never"
Due == readAt # "fresh"
Reading == reader # NoReader

\* what the changes of a log come to
LastOf(changes_, e) == Max({i \in DOMAIN changes_ : changes_[i].entry = e} \cup {0})
InForce == {e \in Entries : LastOf(log, e) # 0 /\ ~log[LastOf(log, e)].removed}

-----------------------------------------------------------------------------
(* The list, which is Niadra's *)

Change(e) ==
    /\ listed /\ changes < MaxChanges
    /\ changes' = changes + 1
    /\ log' = Append(log, [entry |-> e, removed |-> e \in InForce])
    /\ sure' = sure \ {e}
    /\ UNCHANGED <<listed, logs, salt, local, reader, check, sureLog, late, gone, failed, ages>>

\* the log starts anew: only what is in force is kept, under the same salt or another
Turnover ==
    /\ logs <= MaxTurnovers
    /\ logs' = logs + 1 /\ salt' \in {salt, salt + 1}
    /\ \E kept \in [1 .. Cardinality(InForce) -> InForce] :
        /\ \A e \in InForce : \E i \in DOMAIN kept : kept[i] = e
        /\ log' = [i \in DOMAIN kept |-> [entry |-> kept[i], removed |-> FALSE]]
    /\ UNCHANGED <<listed, local, reader, check, history, bounds>>

\* the space's list is turned off, and on
Toggle ==
    /\ gone < 2 * MaxGone
    /\ gone' = gone + 1 /\ listed' = ~listed /\ sure' = {}
    /\ UNCHANGED <<log, logs, salt, local, reader, check, sureLog, late, changes, failed, ages>>

\* the page after a cursor; a reset starts from the beginning
PageAfter(from) ==
    LET start == IF from.log = logs THEN from.at ELSE 0
    IN  [items |-> SubSeq(log, start + 1, Min({start + Page, Len(log)})), reset |-> from # NoCursor /\ from.log # logs,
         next |-> [log |-> logs, at |-> Min({start + Page, Len(log)})]]

-----------------------------------------------------------------------------
(* Checks *)

\* _claim_suppressions
Claim(who, rounds) == ~Reading /\ reader' = [who |-> who, left |-> rounds]

\* _read_suppressions_later
ReadLater == IF Reading THEN UNCHANGED reader ELSE Claim(Later, MaxPages)

\* may_contact: a copy that is due is read in the background, the first one by the check, or by who reads it
\* already
MayContact(c, e) ==
    /\ check[c].step = "idle"
    /\ \E step \in {IF ~Due \/ Held THEN "answering" ELSE IF Reading THEN "waiting" ELSE "first"} :
        /\ check' = [check EXCEPT ![c] = [step |-> step, about |-> e, answer |-> "none"]]
        /\ CASE step = "first" -> Claim(c, FirstRounds)
             [] step = "answering" /\ Due -> ReadLater
             [] OTHER -> UNCHANGED reader
    /\ UNCHANGED <<list, local, history, bounds>>

\* _suppressions_idle.wait: the read ended, or its time did
WaitEnds(c) ==
    /\ check[c].step = "waiting"
    /\ late' = (late \/ Reading)
    /\ check' = [check EXCEPT ![c].step = "after"]
    /\ UNCHANGED <<list, local, reader, sure, sureLog, bounds>>

\* the end of _read_suppressions_first: without a copy, the rest goes on in the background
After(c) ==
    /\ check[c].step = "after"
    /\ check' = [check EXCEPT ![c].step = "answering"]
    /\ IF Held THEN UNCHANGED reader ELSE ReadLater
    /\ UNCHANGED <<list, local, history, bounds>>

\* blocking and may_contact, or the purpose's direction without a copy
Goes(e) ==
    \/ absent
    \/ ~absent /\ (known = 0 \/ readAt = "never") /\ e \in Open
    \/ ~absent /\ known # 0 /\ readAt # "never" /\ copy[e] # known

Answer(c) ==
    /\ check[c].step = "answering"
    /\ check' = [check EXCEPT ![c] = [Idle EXCEPT !.answer = IF Goes(check[c].about) THEN "go" ELSE "wait"]]
    /\ UNCHANGED <<list, local, reader, history, bounds>>

-----------------------------------------------------------------------------
(* A read of the copy: _read_suppressions *)

\* one round trip less, or the end and _release_suppressions, after which a check goes on
Goon(more) ==
    IF more /\ reader.left > 1
    THEN reader' = [reader EXCEPT !.left = @ - 1] /\ UNCHANGED check
    ELSE /\ reader' = NoReader
         /\ check' = [c \in Callers |-> IF c = reader.who THEN [check[c] EXCEPT !.step = "after"] ELSE check[c]]

\* take_salt
TakeSalt ==
    /\ Reading /\ reader.left > 0 /\ known = 0 /\ listed
    /\ known' = salt
    /\ Goon(TRUE)
    /\ UNCHANGED <<list, copy, cursor, readAt, absent, history, bounds>>

Applied(page, old) ==
    [e \in Entries |->
        LET i == LastOf(page.items, e)
        IN  IF i = 0 THEN old[e] ELSE IF page.items[i].removed THEN 0 ELSE salt]

Nobody == [e \in Entries |-> 0]

\* what apply() makes of the entries; a bug: a reset keeps what it does not name
AppliedOver(page) == Applied(page, copy)
Absorbed(page) == Applied(page, IF page.reset THEN Nobody ELSE copy)

\* what take_salt leaves of the copy when the salt changed
OfNewSalt == Nobody

\* apply(): a page of another salt empties the copy, and the new salt is next; a page that is not full ends it
ApplyPage ==
    /\ Reading /\ reader.left > 0 /\ known # 0 /\ listed
    /\ LET page == PageAfter(cursor) IN
        IF salt # known
        THEN /\ known' = 0 /\ cursor' = NoCursor /\ copy' = OfNewSalt
             /\ Goon(TRUE)
             /\ UNCHANGED <<readAt, absent, history>>
        ELSE /\ copy' = Absorbed(page)
             /\ cursor' = page.next /\ absent' = FALSE
             /\ Goon(Len(page.items) = Page)
             /\ UNCHANGED <<known, late>>
             /\ IF Len(page.items) = Page
                THEN UNCHANGED <<readAt, sure, sureLog>>
                ELSE readAt' = "fresh" /\ sure' = {e \in InForce : copy'[e] = salt} /\ sureLog' = logs
    /\ UNCHANGED <<list, bounds>>

\* failed(): 404 says there is no list
NoList ==
    /\ Reading /\ reader.left > 0 /\ ~listed
    /\ absent' = TRUE /\ readAt' = "fresh" /\ copy' = Nobody
    /\ Goon(FALSE)
    /\ UNCHANGED <<list, known, cursor, history, bounds>>

\* anything else: the copy stays; a bug: it does not; another: the reader is not released
FailsEmpty ==
    /\ Reading /\ reader.left > 0 /\ failed < MaxFailed
    /\ failed' = failed + 1
    /\ copy' = Nobody
    /\ Goon(FALSE)
    /\ UNCHANGED <<list, known, cursor, readAt, absent, history, changes, gone, ages>>

FailsHolding ==
    /\ Reading /\ reader.left > 0 /\ failed < MaxFailed
    /\ failed' = failed + 1
    /\ reader' = [reader EXCEPT !.left = 0]
    /\ check' = [c \in Callers |-> IF c = reader.who THEN [check[c] EXCEPT !.step = "after"] ELSE check[c]]
    /\ UNCHANGED <<list, local, history, changes, gone, ages>>

Fails ==
    /\ Reading /\ reader.left > 0 /\ failed < MaxFailed
    /\ failed' = failed + 1
    /\ Goon(FALSE)
    /\ UNCHANGED <<list, local, history, changes, gone, ages>>

\* REFRESH seconds pass
Age ==
    /\ readAt = "fresh" /\ ages < MaxAges
    /\ ages' = ages + 1 /\ readAt' = "old"
    /\ UNCHANGED <<list, known, copy, cursor, absent, reader, check, history, changes, gone, failed>>

-----------------------------------------------------------------------------
Asks == \E c \in Callers, e \in Entries : MayContact(c, e)
Round == TakeSalt \/ ApplyPage \/ NoList \/ Fails
GoesOn(c) == WaitEnds(c) \/ After(c) \/ Answer(c)

ListNext ==
    \/ \E e \in Entries : Change(e)
    \/ Turnover \/ Toggle \/ Age \/ Round \/ Asks
    \/ \E c \in Callers : GoesOn(c)

\* a round trip has its budget, and a check's thread goes on
ListFairness == WF_list_vars(Round) /\ \A c \in Callers : WF_list_vars(GoesOn(c))

ListSpec == ListInit /\ [][ListNext]_list_vars

ListFairSpec == ListSpec /\ ListFairness

-----------------------------------------------------------------------------
(* Properties *)

\* The shapes of the state; a cursor is held only with a salt, and a copy read in full with one or none.
ListTypeOK ==
    /\ {listed, absent} \subseteq BOOLEAN /\ salt \in 1 .. logs /\ known \in 0 .. salt
    /\ log \in Seq([entry : Entries, removed : BOOLEAN])
    /\ copy \in [Entries -> 0 .. salt] /\ \A e \in Entries : copy[e] \in {0, known}
    /\ cursor.log \in 0 .. logs /\ (cursor # NoCursor => known # 0)
    /\ readAt \in {"never", "fresh", "old"}
    /\ reader.who \in Callers \cup {Later, "nobody"} /\ reader.left \in 0 .. Max({MaxPages, FirstRounds})
    /\ \A c \in Callers : check[c].step \in {"idle", "first", "waiting", "after", "answering"}

\* When a read ends with a page that is not full, the copy holds the entries in force, under the salt of
\* now, and nothing else: whatever changed between its pages and the reads before, however many of them
\* failed, whether the log started anew or the salt was turned. (A list that went away and came back is
\* another matter: see the README.)
CopyInStep ==
    [][Due /\ readAt' = "fresh" /\ ~absent' /\ gone = 0 =>
        \A e \in Entries : copy'[e] = IF e \in InForce THEN salt ELSE 0]_list_vars

Told(c) == check[c].step = "answering" /\ check'[c].step = "idle"

\* An opt-out of the last copy read in full forbids its contact as long as it is in force and its log is the
\* same, while reads fail, the copy grows old or the next pages come in.
OptOutHolds ==
    [][\A c \in Callers :
        Told(c) /\ check[c].about \in sure /\ sureLog = logs => check'[c].answer = "wait"]_list_vars

\* While checks are asked, the copy is read again and again, whatever failed before.
CopyComes == []<><<Asks>>_list_vars => []<>(readAt = "fresh")

\* "When the list cannot be read, the last copy keeps applying, however old: an opt-out does not wait for
\* Niadra" (the module's documentation).
LastCopyKeepsApplying ==
    [][\A c \in Callers : Told(c) /\ check[c].about \in sure => check'[c].answer = "wait"]_list_vars
=============================================================================
