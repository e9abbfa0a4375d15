------------------------ MODULE EdaCandidatesProofs ------------------------
(***************************************************************************)
(* What EdaCandidates guarantees for every number of sources, candidates   *)
(* and threads, with crashes at any moment.                                *)
(***************************************************************************)
EXTENDS EdaCandidates, TLAPS

-----------------------------------------------------------------------------
(***************************************************************************)
(* Types.  A thread is in one of the steps of its handler, and what it is  *)
(* about to record is an event of that handler.                            *)
(***************************************************************************)
Bundles == UNION {[D -> Contents] : D \in SUBSET Files}

Promotions(c) ==
    {e \in [type : {"EdaRevisionPromoted"}, candidate : {c}, before : Bundles, after : Bundles] :
        DOMAIN e.before = DOMAIN e.after /\ Target[c] \in DOMAIN e.after}

Reversals(c) ==
    {e \in [type : {"EdaChangeReverted"}, candidate : {c}, promotion : Nat,
            before : Bundles, after : Bundles] : Target[c] \in DOMAIN e.after}

EventsOf(c) ==
    {Validated(c), Created(c), Accepted(c), Rejected(c), Deleted(c)}
        \cup Promotions(c) \cup Reversals(c)

EventSet == {Imported} \cup UNION {EventsOf(c) : c \in Candidates}

Descriptors ==
    [version : Nat,
     heads : [Files -> [sha : Contents, revision : Candidates \cup {"none", "base", "revert"}]]]

Places == {"none", "there", "moved", "gone"}

Recordings == {"record", "append", "sync", "synced"}

\* Where a handler is, and what it records there.
Doing(s) ==
    LET c == s.candidate
    IN  /\ s.at = "replace" => DOMAIN s.bundle # {}
        /\ \/ s.at = "idle" /\ s.op = "none"
           \/ s.op = "dry_run" /\ c \in Candidates /\
                \/ s.at = "validate"
                \/ s.at \in Recordings /\ s.event = Validated(c)
           \/ s.op = "apply" /\ c \in Candidates /\
                \/ s.at \in {"validate", "write"}
                \/ s.at \in Recordings /\ s.event = Validated(c)
                \/ s.at \in Recordings \cup {"head", "headed"} /\ s.event = Created(c)
           \/ s.op = "accept" /\ c \in Candidates /\
                \/ s.at = "prior"
                \/ s.at \in Recordings /\ s.event = Accepted(c)
           \/ s.op = "reject" /\ c \in Candidates /\
                \/ s.at = "prior"
                \/ s.at \in Recordings /\ s.event = Rejected(c)
           \/ s.op = "delete" /\ c \in Candidates /\
                \/ s.at = "move"
                \/ s.at \in Recordings \cup {"unlink"} /\ s.event = Deleted(c)
           \/ s.op = "promote" /\ c \in Candidates /\
                \/ s.at \in {"decision", "stage"}
                \/ s.at \in Recordings \cup {"replace", "head", "headed"} /\ s.event \in Promotions(c)
           \/ s.op = "revert" /\ c \in Candidates
                /\ s.at \in Recordings \cup {"replace", "head", "headed"} /\ s.event \in Reversals(c)
           \/ s.op = "migrate" /\
                \/ s.at = "import"
                \/ s.at \in Recordings /\ s.event = Imported
                \/ s.at \in Recordings /\ c \in Candidates /\ s.event \in {Created(c), Accepted(c)}

Steps ==
    {"idle", "validate", "write", "prior", "move", "unlink", "decision", "stage", "replace",
     "import", "head", "headed"} \cup Recordings

ThreadSet ==
    [at : Steps, op : Operations \cup {"none"}, candidate : Candidates \cup {"none"},
     event : EventSet \cup {NoEvent}, expected : Nat, bundle : Bundles, todo : SUBSET Candidates,
     desc : Descriptors]

\* The type invariant.
TypeOK ==
    /\ events \in Seq(EventSet)
    /\ files \in [Files -> Contents]
    /\ dir \in [Candidates -> Places]
    /\ made \in [Candidates -> [Files -> Contents]]
    /\ objects \subseteq Files \X Contents
    /\ descriptor \in Descriptors
    /\ proc \in [Procs -> ThreadSet]
    /\ \A p \in Procs : Doing(proc[p])

-----------------------------------------------------------------------------
\* The thread at rest.
LEMMA IdleTypes == Idle \in ThreadSet /\ Doing(Idle) /\ Idle.at = "idle" /\ Idle.op = "none"
<1>1. Nothing \in Bundles
    <2>1. Nothing \in [{} -> Contents]
        BY DEF Nothing
    <2> QED
        BY <2>1 DEF Bundles
<1>2. NoHead \in [sha : Contents, revision : Candidates \cup {"none", "base", "revert"}]
    BY DEF NoHead, ArtifactHead, Contents, Absent
<1>3. [version |-> 0, heads |-> [f \in Files |-> NoHead]] \in Descriptors
    BY <1>2 DEF Descriptors
<1>4. NoVersion \in Nat
    BY EdaAssumption DEF NoVersion
<1> QED
    BY <1>1, <1>3, <1>4 DEF Idle, ThreadSet, Steps, Doing

\* What a thread becomes when it has something to record.
LEMMA RecordingTypes ==
    ASSUME NEW s \in ThreadSet, NEW e \in EventSet
    PROVE  /\ Recording(s, e) \in ThreadSet
           /\ Recording(s, e).at \in {"record", "append"}
           /\ Recording(s, e).event = e
           /\ Recording(s, e).op = s.op /\ Recording(s, e).candidate = s.candidate
           /\ Recording(s, e).bundle = s.bundle
BY DEF Recording, ThreadSet, Steps, Recordings

\* The events a handler records are events of the stream.
LEMMA EventTypes ==
    ASSUME NEW c \in Candidates
    PROVE  EventsOf(c) \subseteq EventSet /\ Imported \in EventSet
BY DEF EventSet

\* A step that changes one thread, and nothing else the types depend on.
LEMMA ThreadTypes ==
    ASSUME TypeOK, NEW p \in Procs, NEW from, NEW s \in ThreadSet, Doing(s), Step(p, from, s)
    PROVE  proc' \in [Procs -> ThreadSet] /\ \A q \in Procs : Doing(proc'[q])
<1>1. proc \in [Procs -> ThreadSet] /\ proc' = [proc EXCEPT ![p] = s]
    BY DEF TypeOK, Step
<1>2. proc' \in [Procs -> ThreadSet]
    BY <1>1
<1>3. \A q \in Procs : proc'[q] = IF q = p THEN s ELSE proc[q]
    BY <1>1
<1>4. \A q \in Procs : Doing(proc'[q])
    <2> SUFFICES ASSUME NEW q \in Procs PROVE Doing(proc'[q])
        OBVIOUS
    <2>1. CASE q = p
        BY <1>3, <2>1
    <2>2. CASE q # p
        BY <1>3, <2>2 DEF TypeOK
    <2> QED
        BY <2>1, <2>2
<1> QED
    BY <1>2, <1>4

\* A handler that starts.
LEMMA BeginTypes ==
    ASSUME TypeOK, NEW p \in Procs, NEW s \in ThreadSet, Begin(p, s),
           \A n \in Nat : Doing([s EXCEPT !.expected = n])
    PROVE  proc' \in [Procs -> ThreadSet] /\ \A q \in Procs : Doing(proc'[q])
<1>1. PICK versioned \in BOOLEAN :
        Step(p, "idle", [s EXCEPT !.expected = IF versioned THEN Len(events) ELSE NoVersion])
    BY EdaAssumption DEF Begin
<1>2. (IF versioned THEN Len(events) ELSE NoVersion) \in Nat
    BY EdaAssumption DEF TypeOK, NoVersion
<1>3. PICK n \in Nat : Step(p, "idle", [s EXCEPT !.expected = n])
    BY <1>1, <1>2
<1>4. [s EXCEPT !.expected = n] \in ThreadSet
    BY DEF ThreadSet
<1> QED
    BY <1>3, <1>4, ThreadTypes

\* The types of what a promotion writes.
LEMMA BundleTypes ==
    ASSUME TypeOK, NEW c \in Candidates
    PROVE  /\ Bundle(c) \in Bundles
           /\ Target[c] \in DOMAIN Bundle(c) /\ Target[c] \in Files
           /\ DOMAIN Bundle(c) \subseteq Files
<1>1. Target[c] \in Files /\ Siblings(c) \subseteq Files
    BY EdaAssumption DEF Siblings
<1>2. Bundle(c) \in [{Target[c]} \cup Siblings(c) -> Contents]
    BY <1>1 DEF Bundle, TypeOK, Contents
<1> QED
    BY <1>1, <1>2 DEF Bundles

LEMMA StoredTypes ==
    ASSUME NEW bundle \in Bundles
    PROVE  Stored(bundle) \subseteq Files \X Contents /\ DOMAIN bundle \subseteq Files
BY DEF Stored, Bundles

LEMMA InitTypes == Init => TypeOK
<1> SUFFICES ASSUME Init PROVE TypeOK
    OBVIOUS
<1>1. events \in Seq(EventSet) /\ objects \subseteq Files \X Contents
    BY DEF Init
<1>2. files \in [Files -> Contents]
    BY DEF Init, Contents
<1>3. made \in [Candidates -> [Files -> Contents]]
    BY <1>2 DEF Init
<1>4. dir \in [Candidates -> Places]
    BY DEF Init, Places
<1>5. descriptor \in Descriptors
    BY IdleTypes DEF Init, ThreadSet
<1>6. proc \in [Procs -> ThreadSet] /\ \A p \in Procs : Doing(proc[p])
    BY IdleTypes DEF Init
<1> QED
    BY <1>1, <1>2, <1>3, <1>4, <1>5, <1>6 DEF TypeOK

\* Which events of the stream are promotions.
LEMMA PromotionTypes ==
    ASSUME TypeOK, NEW i \in At({"EdaRevisionPromoted"})
    PROVE  \E c \in Candidates : events[i] \in Promotions(c)
<1>1. i \in DOMAIN events /\ events[i] \in EventSet /\ events[i].type = "EdaRevisionPromoted"
    BY DEF At, TypeOK
<1>2. PICK c \in Candidates : events[i] \in EventsOf(c)
    BY <1>1 DEF EventSet, Imported
<1> QED
    BY <1>1, <1>2 DEF EventsOf, Validated, Created, Accepted, Rejected, Deleted, Reversals

LEMMA HandlerTypes == ASSUME TypeOK, NEW p \in Procs, Handler(p) PROVE TypeOK'
<1>1. ASSUME NEW c \in Candidates, Delete(p, c) PROVE TypeOK'
    <2> DEFINE s == [Idle EXCEPT !.at = "move", !.op = "delete", !.candidate = c]
    <2>1. Begin(p, s) /\ UNCHANGED <<events, files, dir, made, objects, descriptor>>
        BY <1>1 DEF Delete
    <2>2. s \in ThreadSet /\ \A n \in Nat : Doing([s EXCEPT !.expected = n])
        BY <2>1, IdleTypes DEF Begin, ThreadSet, Steps, Doing
    <2> HIDE DEF s
    <2> QED
        BY <2>1, <2>2, BeginTypes DEF TypeOK
<1>2. ASSUME NEW c \in Candidates, Promote(p, c) PROVE TypeOK'
    <2> DEFINE s == [Idle EXCEPT !.at = "decision", !.op = "promote", !.candidate = c]
    <2>1. Begin(p, s) /\ UNCHANGED <<events, files, dir, made, objects, descriptor>>
        BY <1>2 DEF Promote
    <2>2. s \in ThreadSet /\ \A n \in Nat : Doing([s EXCEPT !.expected = n])
        BY <2>1, IdleTypes DEF Begin, ThreadSet, Steps, Doing
    <2> HIDE DEF s
    <2> QED
        BY <2>1, <2>2, BeginTypes DEF TypeOK
<1>3. ASSUME NEW c \in Candidates, NEW op \in {"dry_run", "apply"}, Apply(p, c, op) PROVE TypeOK'
    <2> DEFINE first == IF Target[c] \in Kicad THEN "validate" ELSE "write"
               s == [Idle EXCEPT !.at = first, !.op = op, !.candidate = c]
    <2>1. /\ Begin(p, s) /\ UNCHANGED <<events, files, dir, objects, descriptor>>
          /\ made' = IF op = "apply" THEN [made EXCEPT ![c] = files] ELSE made
          /\ op = "apply" \/ first = "validate"
        BY <1>3 DEF Apply
    <2>2. first \in {"validate", "write"}
        OBVIOUS
    <2> HIDE DEF first
    <2>3. s \in ThreadSet /\ \A n \in Nat : Doing([s EXCEPT !.expected = n])
        BY <2>1, <2>2, IdleTypes DEF Begin, ThreadSet, Steps, Doing
    <2>4. made' \in [Candidates -> [Files -> Contents]]
        BY <2>1 DEF TypeOK
    <2> HIDE DEF s
    <2> QED
        BY <2>1, <2>3, <2>4, BeginTypes DEF TypeOK
<1>4. ASSUME NEW c \in Candidates, NEW op \in {"accept", "reject"}, Decide(p, c, op) PROVE TypeOK'
    <2> DEFINE s == [Idle EXCEPT !.at = "prior", !.op = op, !.candidate = c]
    <2>1. Begin(p, s) /\ UNCHANGED <<events, files, dir, made, objects, descriptor>>
        BY <1>4 DEF Decide
    <2>2. s \in ThreadSet /\ \A n \in Nat : Doing([s EXCEPT !.expected = n])
        BY <2>1, IdleTypes DEF Begin, ThreadSet, Steps, Doing
    <2> HIDE DEF s
    <2> QED
        BY <2>1, <2>2, BeginTypes DEF TypeOK
<1>5. ASSUME NEW i \in At({"EdaRevisionPromoted"}), Revert(p, i) PROVE TypeOK'
    <2> DEFINE e == events[i]
               s == [Idle EXCEPT !.at = "replace", !.op = "revert", !.candidate = e.candidate,
                                 !.bundle = e.before, !.event = Reverted(i)]
    <2>1. Begin(p, s) /\ UNCHANGED <<events, files, dir, made, objects, descriptor>>
        BY <1>5 DEF Revert
    <2>2. PICK c \in Candidates : e \in Promotions(c)
        BY PromotionTypes
    <2>3. /\ i \in Nat /\ Reverted(i) \in Reversals(c) /\ e.before \in Bundles /\ e.candidate = c
          /\ DOMAIN e.before # {}
        BY <2>2 DEF Reverted, Reversals, Promotions, At, TypeOK
    <2>4. Reverted(i) \in EventSet
        BY <2>3 DEF EventSet, EventsOf
    <2> HIDE DEF e
    <2>5. s \in ThreadSet /\ \A n \in Nat : Doing([s EXCEPT !.expected = n])
        BY <2>1, <2>3, <2>4, IdleTypes DEF Begin, ThreadSet, Steps, Doing
    <2> HIDE DEF s
    <2> QED
        BY <2>1, <2>5, BeginTypes DEF TypeOK
<1>6. ASSUME Migrate(p) PROVE TypeOK'
    <2> DEFINE s == [Idle EXCEPT !.at = "import", !.op = "migrate",
                                 !.todo = {c \in Candidates : dir[c] = "there"} \ Known]
    <2>1. Begin(p, s) /\ UNCHANGED <<events, files, dir, made, objects, descriptor>>
        BY <1>6 DEF Migrate
    <2>2. s \in ThreadSet /\ \A n \in Nat : Doing([s EXCEPT !.expected = n])
        BY <2>1, IdleTypes DEF Begin, ThreadSet, Steps, Doing
    <2> HIDE DEF s
    <2> QED
        BY <2>1, <2>2, BeginTypes DEF TypeOK
<1> QED
    BY <1>1, <1>2, <1>3, <1>4, <1>5, <1>6 DEF Handler

\* What a thread is about to append is an event.
LEMMA RecordedTypes ==
    ASSUME NEW s \in ThreadSet, Doing(s), s.at \in Recordings
    PROVE  s.event \in EventSet
<1>1. CASE s.candidate \in Candidates /\ s.event \in EventsOf(s.candidate)
    BY <1>1, EventTypes
<1>2. CASE s.event = Imported
    BY <1>2 DEF EventSet
<1> QED
    BY <1>1, <1>2 DEF Doing, Recordings, EventsOf

LEMMA ContinuationTypes ==
    ASSUME NEW s \in ThreadSet, Doing(s), s.at = "synced"
    PROVE  Continuation(s) \in ThreadSet /\ Doing(Continuation(s))
<1> DEFINE c    == s.candidate
           more == [s EXCEPT !.expected = NoVersion]
<1>0. NoVersion \in Nat /\ Idle \in ThreadSet /\ Doing(Idle)
    BY EdaAssumption, IdleTypes DEF NoVersion
<1>1. more \in ThreadSet /\ more.op = s.op /\ more.candidate = c
    BY <1>0 DEF ThreadSet
<1>2. CASE s.op \in {"dry_run", "accept", "reject"} \/ (s.op = "migrate" /\ s.event = Imported)
    <2>1. Continuation(s) = Idle
        BY <1>2 DEF Continuation, Imported, Created
    <2> QED
        BY <1>0, <2>1
<1>3. CASE s.op = "apply" /\ s.event.type = "EdaValidationCompleted"
    <2> DEFINE to == [s EXCEPT !.at = "write", !.expected = s.expected + 1]
    <2>1. Continuation(s) = to
        BY <1>3 DEF Continuation
    <2>2. s.expected + 1 \in Nat
        BY DEF ThreadSet
    <2>3. to \in ThreadSet
        BY <2>2 DEF ThreadSet, Steps
    <2>4. Doing(to)
        BY <1>3 DEF Doing, ThreadSet
    <2> QED
        BY <2>1, <2>3, <2>4
<1>4. CASE s.op = "migrate" /\ s.event # Imported
    <2>1. CASE s.event = Created(c) /\ c \in Approved
        <3>1. Continuation(s) = Recording(more, Accepted(c))
            BY <1>4, <2>1 DEF Continuation
        <3>2. c \in Candidates /\ Accepted(c) \in EventSet
            BY <2>1, EdaAssumption, EventTypes DEF EventsOf
        <3> HIDE DEF more
        <3> QED
            BY <1>1, <1>4, <3>1, <3>2, RecordingTypes DEF Doing, Recordings
    <2>2. CASE ~(s.event = Created(c) /\ c \in Approved)
        <3> DEFINE to == [more EXCEPT !.at = "import"]
        <3>1. to \in ThreadSet /\ Doing(to)
            BY <1>1, <1>4 DEF ThreadSet, Steps, Doing
        <3>2. Continuation(s) = to
            BY <1>4, <2>2 DEF Continuation
        <3> QED
            BY <3>1, <3>2
    <2> QED
        BY <2>1, <2>2
<1>5. CASE s.op = "delete"
    <2> DEFINE to == [s EXCEPT !.at = "unlink"]
    <2>1. Continuation(s) = to
        BY <1>5 DEF Continuation
    <2>2. to \in ThreadSet /\ Doing(to)
        BY <1>5 DEF ThreadSet, Steps, Doing
    <2> QED
        BY <2>1, <2>2
<1>6. CASE s.op \in {"promote", "revert"} \/ (s.op = "apply" /\ s.event.type # "EdaValidationCompleted")
    <2> DEFINE to == [s EXCEPT !.at = "head"]
    <2>1. Continuation(s) = to
        BY <1>6 DEF Continuation
    <2>2. to \in ThreadSet
        BY DEF ThreadSet, Steps
    <2>3. Doing(to)
        BY <1>6 DEF ThreadSet, Doing, Validated, Recordings
    <2> QED
        BY <2>1, <2>2, <2>3
<1>7. \/ s.op \in {"dry_run", "accept", "reject"} \/ (s.op = "migrate" /\ s.event = Imported)
      \/ s.op = "apply" /\ s.event.type = "EdaValidationCompleted"
      \/ s.op = "migrate" /\ s.event # Imported
      \/ s.op = "delete"
      \/ s.op \in {"promote", "revert"} \/ (s.op = "apply" /\ s.event.type # "EdaValidationCompleted")
    BY DEF Doing
<1> QED
    BY <1>2, <1>3, <1>4, <1>5, <1>6, <1>7

LEMMA HeadTypes ==
    ASSUME TypeOK, NEW s \in ThreadSet, Doing(s), s.at = "head"
    PROVE  /\ s.candidate \in Candidates /\ Target[s.candidate] \in Files
           /\ NewHead(s, Target[s.candidate])
                \in [sha : Contents, revision : Candidates \cup {"none", "base", "revert"}]
<1> DEFINE c == s.candidate
           f == Target[c]
           Heads == [sha : Contents, revision : Candidates \cup {"none", "base", "revert"}]
<1>1. /\ c \in Candidates /\ s.op \in {"apply", "promote", "revert"}
      /\ s.op = "revert" => s.event \in Reversals(c)
    BY DEF Doing, Recordings
<1>2. f \in Files /\ made[c][f] \in Contents /\ c \in Contents
    BY <1>1, EdaAssumption DEF TypeOK, Contents
<1>3. CASE s.op = "apply"
    <2>1. descriptor.heads[f] \in Heads
        BY <1>2 DEF TypeOK, Descriptors
    <2>2. ArtifactHead(made[c][f], "base") \in Heads
        BY <1>2 DEF ArtifactHead
    <2> QED
        BY <1>1, <1>2, <1>3, <2>1, <2>2 DEF NewHead
<1>4. CASE s.op = "promote"
    BY <1>1, <1>2, <1>4 DEF NewHead, ArtifactHead
<1>5. CASE s.op = "revert"
    <2>1. s.event.after[f] \in Contents
        BY <1>1, <1>5 DEF Reversals, Bundles
    <2>2. NoHead \in Heads
        BY DEF NoHead, ArtifactHead, Contents
    <2> QED
        BY <1>1, <1>2, <1>5, <2>1, <2>2 DEF NewHead, ArtifactHead
<1> QED
    BY <1>1, <1>2, <1>3, <1>4, <1>5

\* A file that is replaced gets the content of the bundle.
LEMMA ReplacedTypes ==
    ASSUME TypeOK, NEW bundle \in Bundles, NEW f, files' = [files EXCEPT ![f] = bundle[f]],
           f \in DOMAIN bundle
    PROVE  files' \in [Files -> Contents]
BY DEF Bundles, TypeOK

\* A thread that goes on, or ends, and the rest as it was.
LEMMA ContinueTypes == ASSUME TypeOK, NEW p \in Procs, Continue(p) PROVE TypeOK'
<1> DEFINE s == proc[p]
           c == proc[p].candidate
<1>0. s \in ThreadSet /\ Doing(s) /\ Idle \in ThreadSet /\ Doing(Idle)
    BY IdleTypes DEF TypeOK
<1>1. CASE Validate(p)
    <2>1. s.at = "validate" /\ c \in Candidates /\ s.op \in {"dry_run", "apply"}
        BY <1>0, <1>1 DEF Validate, Step, Doing, Recordings
    <2>2. Validated(c) \in EventSet
        BY <2>1, EventTypes DEF EventsOf
    <2>3. Recording(s, Validated(c)) \in ThreadSet /\ Doing(Recording(s, Validated(c)))
        BY <1>0, <2>1, <2>2, RecordingTypes DEF Doing, Recordings
    <2> QED
        BY <1>1, <2>3, ThreadTypes DEF Validate, TypeOK
<1>2. CASE Write(p)
    <2>1. s.at = "write" /\ c \in Candidates /\ s.op = "apply"
        BY <1>0, <1>2 DEF Write, Doing, Recordings
    <2>2. Created(c) \in EventSet
        BY <2>1, EventTypes DEF EventsOf
    <2>3. Recording(s, Created(c)) \in ThreadSet /\ Doing(Recording(s, Created(c)))
        BY <1>0, <2>1, <2>2, RecordingTypes DEF Doing, Recordings
    <2>4. Step(p, "write", Recording(s, Created(c)))
        BY <1>2 DEF Write, Step
    <2>5. made' \in [Candidates -> [Files -> Contents]] /\ dir' \in [Candidates -> Places]
        BY <1>2, <2>1 DEF Write, TypeOK, Places
    <2>6. Target[c] \in Files /\ c \in Contents
        BY <2>1, EdaAssumption DEF Contents
    <2>7. objects' \subseteq Files \X Contents
        BY <1>2, <2>6 DEF Write, TypeOK
    <2> QED
        BY <1>2, <2>3, <2>4, <2>5, <2>7, ThreadTypes DEF Write, TypeOK
<1>3. CASE WriteFails(p)
    <2>1. Step(p, "write", Idle)
        BY <1>3 DEF WriteFails, Step
    <2> QED
        BY <1>0, <1>3, <2>1, ThreadTypes DEF WriteFails, TypeOK
<1>4. CASE ReadSnapshot(p)
    <2> DEFINE to == [s EXCEPT !.at = "append", !.expected = Len(events)]
    <2>0. Len(events) \in Nat
        BY DEF TypeOK
    <2>1. to \in ThreadSet
        BY <1>0, <2>0 DEF ThreadSet, Steps, Recordings
    <2>2. Doing(to)
        BY <1>0, <1>4 DEF ReadSnapshot, Step, Doing, Recordings, ThreadSet
    <2> QED
        BY <1>4, <2>1, <2>2, ThreadTypes DEF ReadSnapshot, TypeOK
<1>5. CASE AppendEvent(p)
    <2> DEFINE to == [s EXCEPT !.at = "sync"]
    <2>1. to \in ThreadSet
        BY <1>0 DEF ThreadSet, Steps, Recordings
    <2>2. Doing(to)
        BY <1>0, <1>5 DEF AppendEvent, Step, Doing, Recordings, ThreadSet
    <2>3. s.event \in EventSet
        BY <1>0, <1>5, RecordedTypes DEF AppendEvent, Step, Recordings
    <2>4. events' \in Seq(EventSet)
        BY <1>5, <2>3 DEF AppendEvent, TypeOK
    <2> QED
        BY <1>5, <2>1, <2>2, <2>4, ThreadTypes DEF AppendEvent, TypeOK
<1>6. CASE AppendConflict(p)
    <2>1. dir' \in [Candidates -> Places]
        BY <1>6 DEF AppendConflict, TypeOK, Places
    <2> QED
        BY <1>0, <1>6, <2>1, ThreadTypes DEF AppendConflict, TypeOK
<1>7. CASE SyncRead(p)
    <2> DEFINE read == [descriptor EXCEPT !.version = Len(events)]
               to == [s EXCEPT !.at = "synced", !.desc = read]
    <2>0. read \in Descriptors
        BY DEF TypeOK, Descriptors
    <2>1. to \in ThreadSet
        BY <1>0, <2>0 DEF ThreadSet, Steps, Recordings
    <2>2. Doing(to)
        BY <1>0, <1>7 DEF SyncRead, Step, Doing, Recordings, ThreadSet
    <2> QED
        BY <1>7, <2>1, <2>2, ThreadTypes DEF SyncRead, TypeOK
<1>8. CASE SyncWrite(p)
    <2>1. s.at = "synced"
        BY <1>8 DEF SyncWrite, Step
    <2>2. Continuation(s) \in ThreadSet /\ Doing(Continuation(s))
        BY <1>0, <2>1, ContinuationTypes
    <2>3. descriptor' \in Descriptors
        BY <1>0, <1>8 DEF SyncWrite, ThreadSet
    <2> QED
        BY <1>8, <2>2, <2>3, ThreadTypes DEF SyncWrite, TypeOK
<1>9. CASE HeadRead(p)
    <2>1. s.at = "head"
        BY <1>9 DEF HeadRead, Step
    <2>2. /\ c \in Candidates /\ Target[c] \in Files
          /\ NewHead(s, Target[c]) \in [sha : Contents, revision : Candidates \cup {"none", "base", "revert"}]
        BY <1>0, <2>1, HeadTypes
    <2> DEFINE desc == [version |-> s.expected + 1,
                        heads   |-> [descriptor.heads EXCEPT ![Target[c]] = NewHead(s, Target[c])]]
               to == [s EXCEPT !.at = "headed", !.desc = desc]
               gone == s.op = "apply" /\ files[Target[c]] = Absent
    <2>3. desc \in Descriptors
        BY <1>0, <2>2 DEF Descriptors, TypeOK, ThreadSet
    <2>4. to \in ThreadSet
        BY <1>0, <2>3 DEF ThreadSet, Steps
    <2>5. Doing(to)
        BY <1>0, <2>1 DEF Doing, Recordings, ThreadSet
    <2>6. Step(p, "head", IF gone THEN Idle ELSE to)
        BY <1>9 DEF HeadRead
    <2>7. objects' \subseteq Files \X Contents
        BY <1>9, <2>2 DEF HeadRead, TypeOK
    <2> HIDE DEF to, gone
    <2> QED
        BY <1>0, <1>9, <2>4, <2>5, <2>6, <2>7, ThreadTypes DEF HeadRead, TypeOK
<1>10. CASE HeadWrite(p)
    <2>1. descriptor' \in Descriptors
        BY <1>0, <1>10 DEF HeadWrite, ThreadSet
    <2> QED
        BY <1>0, <1>10, <2>1, ThreadTypes DEF HeadWrite, TypeOK
<1>11. CASE Prior(p)
    <2>1. s.at = "prior" /\ c \in Candidates /\ s.op \in {"accept", "reject"}
        BY <1>0, <1>11 DEF Prior, Step, Doing, Recordings
    <2>2. Accepted(c) \in EventSet /\ Rejected(c) \in EventSet
        BY <2>1, EventTypes DEF EventsOf
    <2>3. Recording(s, Rejected(c)) \in ThreadSet /\ (s.op = "reject" => Doing(Recording(s, Rejected(c))))
        BY <1>0, <2>1, <2>2, RecordingTypes DEF Doing, Recordings
    <2>4. Recording(s, Accepted(c)) \in ThreadSet /\ (s.op = "accept" => Doing(Recording(s, Accepted(c))))
        BY <1>0, <2>1, <2>2, RecordingTypes DEF Doing, Recordings
    <2>5. \/ s.op = "reject" /\ Step(p, "prior", Recording(s, Rejected(c)))
          \/ s.op = "accept" /\ Step(p, "prior", Recording(s, Accepted(c)))
          \/ Step(p, "prior", Idle)
        BY <1>11, <2>1 DEF Prior
    <2> QED
        BY <1>0, <1>11, <2>3, <2>4, <2>5, ThreadTypes DEF Prior, TypeOK
<1>12. CASE Move(p)
    <2>1. s.at = "move" /\ c \in Candidates /\ s.op = "delete"
        BY <1>0, <1>12 DEF Move, Step, Doing, Recordings
    <2>2. Deleted(c) \in EventSet
        BY <2>1, EventTypes DEF EventsOf
    <2>3. Recording(s, Deleted(c)) \in ThreadSet /\ Doing(Recording(s, Deleted(c)))
        BY <1>0, <2>1, <2>2, RecordingTypes DEF Doing, Recordings
    <2>4. Step(p, "move", Recording(s, Deleted(c))) \/ Step(p, "move", Idle)
        BY <1>12 DEF Move
    <2>5. dir' \in [Candidates -> Places]
        BY <1>12 DEF Move, TypeOK, Places
    <2> QED
        BY <1>0, <1>12, <2>3, <2>4, <2>5, ThreadTypes DEF Move, TypeOK
<1>13. CASE Unlink(p)
    <2>1. dir' \in [Candidates -> Places]
        BY <1>13 DEF Unlink, TypeOK, Places
    <2> QED
        BY <1>0, <1>13, <2>1, ThreadTypes DEF Unlink, TypeOK
<1>14. CASE Decision(p)
    <2> DEFINE to == [s EXCEPT !.at = "stage"]
    <2>1. to \in ThreadSet
        BY <1>0 DEF ThreadSet, Steps
    <2>2. Doing(to)
        BY <1>0, <1>14 DEF Decision, Step, Doing, Recordings, ThreadSet
    <2>3. Step(p, "decision", to) \/ Step(p, "decision", Idle)
        BY <1>14 DEF Decision
    <2> HIDE DEF to
    <2> QED
        BY <1>0, <1>14, <2>1, <2>2, <2>3, ThreadTypes DEF Decision, TypeOK
<1>15. CASE Stage(p)
    <2>1. s.at = "stage" /\ c \in Candidates /\ s.op = "promote"
        BY <1>0, <1>15 DEF Stage, Doing, Recordings
    <2> DEFINE bundle == Bundle(c)
               before == [f \in DOMAIN bundle |-> files[f]]
               e == Promoted(c, before, bundle)
               to == [s EXCEPT !.at = "replace", !.bundle = bundle, !.event = e]
    <2>2. Step(p, "stage", to) /\ objects' = objects \cup Stored(before) \cup Stored(bundle)
        BY <1>15 DEF Stage
    <2>3. bundle \in Bundles /\ Target[c] \in DOMAIN bundle /\ DOMAIN bundle \subseteq Files
        BY <2>1, BundleTypes
    <2> HIDE DEF bundle
    <2>4. before \in Bundles /\ DOMAIN before = DOMAIN bundle
        BY <2>3 DEF TypeOK, Bundles
    <2> HIDE DEF before
    <2>5. e \in Promotions(c)
        BY <2>3, <2>4 DEF Promoted, Promotions
    <2>6. e \in EventSet
        BY <2>1, <2>5 DEF EventSet, EventsOf
    <2> HIDE DEF e
    <2>7. to \in ThreadSet
        BY <1>0, <2>3, <2>6 DEF ThreadSet, Steps
    <2>8. Doing(to)
        BY <1>0, <2>1, <2>3, <2>5 DEF Doing, ThreadSet
    <2>9. objects' \subseteq Files \X Contents
        BY <2>2, <2>3, <2>4, StoredTypes DEF TypeOK
    <2> HIDE DEF to
    <2> QED
        BY <1>15, <2>2, <2>7, <2>8, <2>9, ThreadTypes DEF Stage, TypeOK
<1>16. CASE StageFails(p)
    BY <1>0, <1>16, ThreadTypes DEF StageFails, TypeOK
<1>17. CASE Replace(p)
    <2>1. s.at = "replace"
        BY <1>17 DEF Replace, Step
    <2>2. /\ c \in Candidates /\ s.op \in {"promote", "revert"} /\ s.event \in EventSet
          /\ s.op = "promote" => s.event \in Promotions(c)
          /\ s.op = "revert" => s.event \in Reversals(c)
        BY <1>0, <2>1, EventTypes DEF Doing, Recordings, EventsOf
    <2> DEFINE f == IF Target[c] \in DOMAIN s.bundle THEN Target[c]
                    ELSE CHOOSE g \in DOMAIN s.bundle : TRUE
               rest == [g \in DOMAIN s.bundle \ {f} |-> s.bundle[g]]
               left == [s EXCEPT !.bundle = rest]
    <2>3. rest \in Bundles
        <3>1. PICK D \in SUBSET Files : s.bundle \in [D -> Contents]
            BY <1>0 DEF ThreadSet, Bundles
        <3>2. rest \in [D \ {f} -> Contents] /\ D \ {f} \in SUBSET Files
            BY <3>1
        <3> QED
            BY <3>2 DEF Bundles
    <2>4. left \in ThreadSet
        BY <1>0, <2>3 DEF ThreadSet
    <2>5. /\ left.op = s.op /\ left.candidate = c /\ left.event = s.event /\ left.at = "replace"
        BY <1>0, <2>1 DEF ThreadSet
    <2>6. IF rest = Nothing THEN Step(p, "replace", Recording(left, s.event))
          ELSE Step(p, "replace", left)
        BY <1>17 DEF Replace
    <2>0. rest # Nothing => DOMAIN rest # {}
        BY DEF Nothing
    <2>7. files' = [files EXCEPT ![f] = s.bundle[f]]
        BY <1>17 DEF Replace
    <2>8. files' \in [Files -> Contents]
        <3>1. f \in DOMAIN s.bundle
            BY <1>0, <2>1 DEF Doing
        <3> QED
            BY <1>0, <2>7, <3>1, ReplacedTypes DEF ThreadSet
    <2>11. left.bundle = rest
        BY <1>0 DEF ThreadSet
    <2> HIDE DEF left
    <2>9. rest # Nothing => Doing(left)
        BY <2>0, <2>2, <2>5, <2>11 DEF Doing, Recordings
    <2>10. Recording(left, s.event) \in ThreadSet /\ Doing(Recording(left, s.event))
        BY <2>2, <2>4, <2>5, RecordingTypes DEF Doing, Recordings
    <2> QED
        BY <1>17, <2>4, <2>6, <2>8, <2>9, <2>10, ThreadTypes DEF Replace, TypeOK
<1>18. CASE Import(p)
    <2>1. PICK d \in s.todo :
            LET to == [s EXCEPT !.todo = @ \ {d}, !.candidate = d]
                there == dir[d] = "there"
            IN  /\ Step(p, "import", IF there THEN Recording(to, Created(d)) ELSE to)
                /\ objects' = IF there THEN objects \cup {<<Target[d], d>>} ELSE objects
        BY <1>18 DEF Import
    <2> DEFINE to == [s EXCEPT !.todo = s.todo \ {d}, !.candidate = d]
    <2>2. d \in Candidates /\ s.at = "import"
        BY <1>0, <2>1 DEF ThreadSet, Step
    <2>3. s.op = "migrate"
        BY <1>0, <2>2 DEF Doing, Recordings
    <2>4. to \in ThreadSet /\ to.op = "migrate" /\ to.at = "import" /\ to.candidate = d
        BY <1>0, <2>2, <2>3 DEF ThreadSet
    <2>5. Doing(to)
        BY <2>4 DEF Doing
    <2>6. Step(p, "import", Recording(to, Created(d))) \/ Step(p, "import", to)
        BY <1>0, <2>1 DEF ThreadSet
    <2> HIDE DEF to
    <2>7. Created(d) \in EventSet
        BY <2>2, EventTypes DEF EventsOf
    <2>8. Recording(to, Created(d)) \in ThreadSet /\ Doing(Recording(to, Created(d)))
        BY <2>2, <2>4, <2>7, RecordingTypes DEF Doing, Recordings
    <2>9. objects' \subseteq Files \X Contents
        BY <2>1, <2>2, EdaAssumption DEF TypeOK, Contents
    <2> QED
        BY <1>18, <2>4, <2>5, <2>6, <2>8, <2>9, ThreadTypes DEF Import, TypeOK
<1>19. CASE ImportSummary(p)
    <2> DEFINE more == [s EXCEPT !.expected = NoVersion]
    <2>1. s.at = "import" /\ Step(p, "import", Recording(more, Imported))
        BY <1>19 DEF ImportSummary, Step
    <2>2. s.op = "migrate" /\ NoVersion \in Nat
        BY <1>0, <2>1, EdaAssumption DEF Doing, Recordings, NoVersion
    <2>3. more \in ThreadSet /\ more.op = "migrate" /\ Imported \in EventSet
        BY <1>0, <2>2 DEF ThreadSet, EventSet
    <2> HIDE DEF more
    <2>4. Recording(more, Imported) \in ThreadSet /\ Doing(Recording(more, Imported))
        BY <2>3, RecordingTypes DEF Doing, Recordings
    <2> QED
        BY <1>19, <2>1, <2>4, ThreadTypes DEF ImportSummary, TypeOK
<1> QED
    BY <1>1, <1>2, <1>3, <1>4, <1>5, <1>6, <1>7, <1>8, <1>9, <1>10, <1>11, <1>12, <1>13, <1>14,
       <1>15, <1>16, <1>17, <1>18, <1>19 DEF Continue

LEMMA TypesStep == TypeOK /\ [Next]_vars => TypeOK'
<1> SUFFICES ASSUME TypeOK, [Next]_vars PROVE TypeOK'
    OBVIOUS
<1>1. ASSUME NEW p \in Procs, Handler(p) PROVE TypeOK'
    BY <1>1, HandlerTypes
<1>2. ASSUME NEW p \in Procs, Continue(p) PROVE TypeOK'
    BY <1>2, ContinueTypes
<1>3. ASSUME NEW f \in Files, Edit(f) PROVE TypeOK'
    BY <1>3 DEF Edit, TypeOK, Contents
<1>4. CASE Crash
    BY <1>4, IdleTypes DEF Crash, TypeOK
<1>5. CASE UNCHANGED vars
    BY <1>5 DEF vars, TypeOK
<1> QED
    BY <1>1, <1>2, <1>3, <1>4, <1>5 DEF Next

\* Every event, file, candidate directory, object and thread is well formed,
\* and a thread records only what its handler is there for (api.py).
THEOREM TypesHold == Spec => []TypeOK
BY InitTypes, TypesStep, PTL DEF Spec

-----------------------------------------------------------------------------
(***************************************************************************)
(* The inductive invariant.  Every thread knows something of the stream,   *)
(* the directories and the object store, and nobody else takes it away.    *)
(***************************************************************************)
Recorded(e) == \E k \in DOMAIN events : events[k] = e

\* Between the look at the decisions and the append the acceptance stays in
\* the stream.
Accepting ==
    \A p \in Procs :
        proc[p].op = "promote" /\ proc[p].at \in {"stage", "replace", "record", "append"}
            => Recorded(Accepted(proc[p].candidate))

\* A deletion that has moved its directory, and an application that has not
\* written one yet.
Removing(p) == proc[p].op = "delete" /\ proc[p].at \in Recordings \cup {"unlink"}

Making(p) ==
    /\ proc[p].op = "apply"
    /\ \/ proc[p].at \in {"validate", "write"}
       \/ proc[p].at \in Recordings /\ proc[p].event = Validated(proc[p].candidate)

\* A directory that is moved, or not made yet, belongs to one thread, which
\* knows whether the deletion is recorded.
Owning ==
    /\ \A p \in Procs : Removing(p) =>
        /\ dir[proc[p].candidate] = "moved"
        /\ Recorded(Deleted(proc[p].candidate)) <=> proc[p].at \in {"sync", "synced", "unlink"}
    /\ \A p \in Procs : Making(p) => dir[proc[p].candidate] = "none"
    /\ \A p, q \in Procs :
        /\ Removing(p) /\ Removing(q) /\ proc[p].candidate = proc[q].candidate => p = q
        /\ Making(p) /\ Making(q) /\ proc[p].candidate = proc[q].candidate => p = q
    /\ \A c \in Candidates :
        /\ Recorded(Deleted(c)) => dir[c] \in {"moved", "gone"}
        /\ dir[c] = "gone" => Recorded(Deleted(c))

\* What is in a source that is about to be replaced, and what replaces it, is
\* stored, and so is what a recorded promotion has written.
Keeping ==
    /\ \A i \in At({"EdaRevisionPromoted"}) : Stored(events[i].after) \subseteq objects
    /\ \A p \in Procs :
        /\ proc[p].op = "promote" /\ proc[p].at \in {"replace", "record", "append"}
            => Stored(proc[p].event.after) \subseteq objects
        /\ proc[p].at = "replace" =>
            /\ Stored(proc[p].bundle) \subseteq objects
            /\ \A f \in DOMAIN proc[p].bundle :
                    files[f] # Absent => <<f, files[f]>> \in objects

-----------------------------------------------------------------------------
(***************************************************************************)
(* What a thread does in one step, in terms of its fields.                 *)
(***************************************************************************)
Same(s, t) == t.op = s.op /\ t.candidate = s.candidate

LEMMA HandlerMoves ==
    ASSUME TypeOK, NEW p \in Procs, Handler(p)
    PROVE  /\ \A q \in Procs : q # p => proc'[q] = proc[q]
           /\ proc[p].at = "idle"
           /\ \/ proc'[p].at \in {"move", "prior", "import", "decision", "validate", "write"}
              \/ /\ proc'[p].op = "revert"
                 /\ \E i \in At({"EdaRevisionPromoted"}) :
                        Revert(p, i) /\ proc'[p].at = "replace" /\ proc'[p].bundle = events[i].before
           /\ proc'[p].op = "apply" =>
                /\ dir[proc'[p].candidate] = "none"
                /\ \A q \in Procs : proc[q].op = "apply" => proc[q].candidate # proc'[p].candidate
           /\ UNCHANGED <<events, files, dir, objects>>
<1> DEFINE t == proc'[p]
<1>0. proc \in [Procs -> ThreadSet] /\ p \in Procs
    BY DEF TypeOK
<1>1. ASSUME NEW c \in Candidates, Delete(p, c)
      PROVE  t.at = "move" /\ t.op = "delete"
    BY <1>0, <1>1 DEF Delete, Begin, Step, Idle
<1>2. ASSUME NEW c \in Candidates, Promote(p, c)
      PROVE  t.at = "decision" /\ t.op = "promote"
    BY <1>0, <1>2 DEF Promote, Begin, Step, Idle
<1>3. ASSUME NEW c \in Candidates, NEW op \in {"dry_run", "apply"}, Apply(p, c, op)
      PROVE  /\ t.at \in {"validate", "write"} /\ t.candidate = c
             /\ dir[c] = "none" /\ \A q \in Procs : proc[q].op = "apply" => proc[q].candidate # c
    BY <1>0, <1>3 DEF Apply, Begin, Step, Idle
<1>4. ASSUME NEW c \in Candidates, NEW op \in {"accept", "reject"}, Decide(p, c, op)
      PROVE  t.at = "prior" /\ t.op # "apply"
    BY <1>0, <1>4 DEF Decide, Begin, Step, Idle
<1>5. ASSUME NEW i \in At({"EdaRevisionPromoted"}), Revert(p, i)
      PROVE  t.at = "replace" /\ t.op = "revert" /\ t.bundle = events[i].before
    BY <1>0, <1>5 DEF Revert, Begin, Step, Idle
<1>6. ASSUME Migrate(p)
      PROVE  t.at = "import" /\ t.op = "migrate"
    BY <1>0, <1>6 DEF Migrate, Begin, Step, Idle
<1>7. \A q \in Procs : q # p => proc'[q] = proc[q]
    BY <1>0 DEF Handler, Delete, Promote, Apply, Decide, Revert, Migrate, Begin, Step
<1>8. proc[p].at = "idle" /\ UNCHANGED <<events, files, dir, objects>>
    BY DEF Handler, Delete, Promote, Apply, Decide, Revert, Migrate, Begin, Step
<1> QED
    BY <1>1, <1>2, <1>3, <1>4, <1>5, <1>6, <1>7, <1>8 DEF Handler

LEMMA OthersUntouched ==
    ASSUME TypeOK, NEW p \in Procs, Continue(p)
    PROVE  \A q \in Procs : q # p => proc'[q] = proc[q]
<1>1. \E s : proc' = [proc EXCEPT ![p] = s]
    BY DEF Continue, Validate, Write, WriteFails, ReadSnapshot, AppendEvent, AppendConflict,
        SyncRead, SyncWrite, HeadRead, HeadWrite, Prior, Move, Unlink, Decision, Stage,
        StageFails, Replace, Import, ImportSummary, Step
<1> QED
    BY <1>1 DEF TypeOK

LEMMA ContinuationMoves ==
    ASSUME NEW s \in ThreadSet, Doing(s), s.at = "synced"
    PROVE  LET t == Continuation(s)
           IN  \/ t.at = "idle" /\ t.op = "none"
               \/ /\ Same(s, t)
                  /\ \/ t.at = "write" /\ s.event = Validated(s.candidate)
                     \/ t.at = "head"
                     \/ t.at = "unlink" /\ t.event = s.event
               \/ s.op = "migrate" /\ t.op = "migrate"
<1> DEFINE c    == s.candidate
           more == [s EXCEPT !.expected = NoVersion]
<1>1. CASE s.op = "apply" /\ s.event.type = "EdaValidationCompleted"
    <2>1. Continuation(s) = [s EXCEPT !.at = "write", !.expected = s.expected + 1]
        BY <1>1 DEF Continuation
    <2>2. s.event = Validated(c)
        BY <1>1 DEF Doing, Created
    <2> QED
        BY <2>1, <2>2 DEF ThreadSet, Same
<1>2. CASE s.op \in {"promote", "revert"} \/ (s.op = "apply" /\ s.event.type # "EdaValidationCompleted")
    <2>1. Continuation(s) = [s EXCEPT !.at = "head"]
        BY <1>2 DEF Continuation
    <2> QED
        BY <2>1 DEF ThreadSet, Same
<1>3. CASE s.op = "delete"
    <2>1. Continuation(s) = [s EXCEPT !.at = "unlink"]
        BY <1>3 DEF Continuation
    <2> QED
        BY <2>1 DEF ThreadSet, Same
<1>4. CASE s.op = "migrate"
    <2>1. Continuation(s) \in {Idle, Recording(more, Accepted(c)), [more EXCEPT !.at = "import"]}
        BY <1>4 DEF Continuation
    <2> QED
        BY <1>4, <2>1, IdleTypes DEF Recording, ThreadSet
<1>5. CASE s.op \in {"dry_run", "accept", "reject"}
    <2>1. Continuation(s) = Idle
        BY <1>5 DEF Continuation
    <2> QED
        BY <2>1, IdleTypes
<1>6. s.op \in {"dry_run", "apply", "accept", "reject", "delete", "promote", "revert", "migrate"}
    BY DEF Doing
<1> QED
    BY <1>1, <1>2, <1>3, <1>4, <1>5, <1>6

\* The steps that do not only go on.
LEMMA Moves ==
    ASSUME TypeOK, NEW p \in Procs, Continue(p)
    PROVE  LET s == proc[p]  t == proc'[p]
           IN  \/ t.at = "idle" /\ t.op = "none"
               \/ /\ Same(s, t)
                  /\ \/ s.at = "validate" /\ t.at \in {"record", "append"}
                     \/ s.at = "write" /\ t.at \in {"record", "append"} /\ Write(p)
                     \/ s.at = "record" /\ t.at = "append" /\ t.event = s.event
                     \/ s.at = "append" /\ t.at = "sync" /\ t.event = s.event /\ AppendEvent(p)
                     \/ s.at = "sync" /\ t.at = "synced" /\ t.event = s.event
                     \/ s.at = "synced" /\ t.at = "write" /\ s.event = Validated(s.candidate)
                     \/ s.at = "synced" /\ t.at = "head"
                     \/ s.at = "synced" /\ t.at = "unlink" /\ t.event = s.event
                     \/ s.at = "head" /\ t.at = "headed"
                     \/ s.at = "prior" /\ t.at \in {"record", "append"}
                     \/ s.at = "move" /\ t.at \in {"record", "append"} /\ Move(p)
                     \/ s.at = "decision" /\ t.at = "stage" /\ Decision(p)
                        /\ AcceptedLast(RevisionEvents(s.candidate) \cap At(Decisions))
                     \/ s.at = "stage" /\ t.at = "replace" /\ Stage(p)
                     \/ s.at = "replace" /\ t.at \in {"replace", "record", "append"} /\ Replace(p)
                        /\ t.event = s.event
               \/ s.op = "migrate" /\ t.op = "migrate"
<1> DEFINE s == proc[p]
           t == proc'[p]
           Rests == t.at = "idle" /\ t.op = "none"
<1>0. /\ s \in ThreadSet /\ Doing(s) /\ proc \in [Procs -> ThreadSet]
      /\ Idle.at = "idle" /\ Idle.op = "none"
    BY IdleTypes DEF TypeOK
<1>00. \A from, to : Step(p, from, to) => s.at = from /\ t = to
    BY <1>0 DEF Step
<1>1. CASE Validate(p)
    <2>1. s.at = "validate" /\ t = Recording(s, Validated(s.candidate))
        BY <1>00, <1>1 DEF Validate
    <2> QED
        BY <1>0, <2>1 DEF Recording, ThreadSet, Same
<1>2. CASE Write(p)
    <2>1. s.at = "write" /\ t = Recording(s, Created(s.candidate))
        BY <1>0, <1>2 DEF Write
    <2> QED
        BY <1>0, <1>2, <2>1 DEF Recording, ThreadSet, Same
<1>3. CASE WriteFails(p) \/ AppendConflict(p) \/ HeadWrite(p) \/ Unlink(p) \/ StageFails(p)
    <2>1. t = Idle
        BY <1>0, <1>3 DEF WriteFails, AppendConflict, HeadWrite, Unlink, StageFails, Step
    <2> QED
        BY <1>0, <2>1
<1>4. CASE ReadSnapshot(p)
    <2>1. s.at = "record" /\ t = [s EXCEPT !.at = "append", !.expected = Len(events)]
        BY <1>00, <1>4 DEF ReadSnapshot
    <2> QED
        BY <1>0, <2>1 DEF ThreadSet, Same
<1>5. CASE AppendEvent(p)
    <2>1. s.at = "append" /\ t = [s EXCEPT !.at = "sync"]
        BY <1>00, <1>5 DEF AppendEvent
    <2> QED
        BY <1>0, <1>5, <2>1 DEF ThreadSet, Same
<1>6. CASE SyncRead(p)
    <2> DEFINE read == [descriptor EXCEPT !.version = Len(events)]
    <2>1. s.at = "sync" /\ t = [s EXCEPT !.at = "synced", !.desc = read]
        BY <1>00, <1>6 DEF SyncRead
    <2> QED
        BY <1>0, <2>1 DEF ThreadSet, Same
<1>7. CASE SyncWrite(p)
    <2>1. s.at = "synced" /\ t = Continuation(s)
        BY <1>00, <1>7 DEF SyncWrite
    <2> QED
        BY <1>0, <2>1, ContinuationMoves
<1>8. CASE HeadRead(p)
    <2>1. s.at = "head" /\ (t = Idle \/ \E d : t = [s EXCEPT !.at = "headed", !.desc = d])
        BY <1>00, <1>8 DEF HeadRead
    <2> QED
        BY <1>0, <2>1 DEF ThreadSet, Same
<1>9. CASE Prior(p)
    <2>1. s.at = "prior" /\ (t = Idle \/ \E e : t = Recording(s, e))
        BY <1>00, <1>9 DEF Prior
    <2> QED
        BY <1>0, <2>1 DEF Recording, ThreadSet, Same
<1>10. CASE Move(p)
    <2>1. s.at = "move" /\ (t = Idle \/ t = Recording(s, Deleted(s.candidate)))
        BY <1>00, <1>10 DEF Move
    <2> QED
        BY <1>0, <1>10, <2>1 DEF Recording, ThreadSet, Same
<1>11. CASE Decision(p)
    <2>1. /\ s.at = "decision"
          /\ \/ t = Idle
             \/ /\ t = [s EXCEPT !.at = "stage"]
                /\ AcceptedLast(RevisionEvents(s.candidate) \cap At(Decisions))
        BY <1>00, <1>11 DEF Decision
    <2> QED
        BY <1>0, <1>11, <2>1 DEF ThreadSet, Same
<1>12. CASE Stage(p)
    <2>1. s.at = "stage" /\ \E b, e : t = [s EXCEPT !.at = "replace", !.bundle = b, !.event = e]
        BY <1>00, <1>12 DEF Stage
    <2> QED
        BY <1>0, <1>12, <2>1 DEF ThreadSet, Same
<1>13. CASE Replace(p)
    <2>1. /\ s.at = "replace"
          /\ \E b : \/ t = Recording([s EXCEPT !.bundle = b], s.event)
                    \/ t = [s EXCEPT !.bundle = b]
        BY <1>00, <1>13 DEF Replace
    <2> QED
        BY <1>0, <1>13, <2>1 DEF Recording, ThreadSet, Same
<1>14. CASE Import(p) \/ ImportSummary(p)
    <2>1. s.at = "import"
        BY <1>00, <1>14 DEF Import, ImportSummary
    <2>2. s.op = "migrate"
        BY <1>0, <2>1 DEF Doing, Recordings
    <2>3. t.op = s.op
        <3>1. CASE Import(p)
            <4>1. \E d, todo :
                    \/ t = Recording([s EXCEPT !.todo = todo, !.candidate = d], Created(d))
                    \/ t = [s EXCEPT !.todo = todo, !.candidate = d]
                BY <1>0, <1>00, <3>1 DEF Import
            <4> QED
                BY <1>0, <4>1 DEF Recording, ThreadSet
        <3>2. CASE ImportSummary(p)
            <4>1. t = Recording([s EXCEPT !.expected = NoVersion], Imported)
                BY <1>00, <3>2 DEF ImportSummary
            <4> QED
                BY <1>0, <4>1 DEF Recording, ThreadSet
        <3> QED
            BY <1>14, <3>1, <3>2
    <2> QED
        BY <2>2, <2>3
<1> QED
    BY <1>1, <1>2, <1>3, <1>4, <1>5, <1>6, <1>7, <1>8, <1>9, <1>10, <1>11, <1>12, <1>13, <1>14
    DEF Continue

\* A step leaves a thread as it was, unless it is the thread's or a crash.
LEMMA OthersSteps ==
    ASSUME TypeOK, [Next]_vars, NEW p \in Procs
    PROVE  proc'[p] = proc[p] \/ Handler(p) \/ Continue(p) \/ Crash
<1>1. ASSUME NEW q \in Procs, q # p, Handler(q) \/ Continue(q)
      PROVE  proc'[p] = proc[p]
    BY <1>1, HandlerMoves, OthersUntouched
<1>2. ASSUME NEW f \in Files, Edit(f)
      PROVE  proc'[p] = proc[p]
    BY <1>2 DEF Edit
<1>3. UNCHANGED vars => proc'[p] = proc[p]
    BY DEF vars
<1> QED
    BY <1>1, <1>2, <1>3 DEF Next

-----------------------------------------------------------------------------
(***************************************************************************)
(* The stream grows, and so does the object store.                         *)
(***************************************************************************)
LEMMA StreamGrows ==
    ASSUME TypeOK, [Next]_vars
    PROVE  \/ events' = events
           \/ \E p \in Procs : /\ AppendEvent(p) /\ Continue(p)
                               /\ proc[p].event \in EventSet
                               /\ events' = Append(events, proc[p].event)
<1>1. ASSUME NEW p \in Procs, AppendEvent(p)
      PROVE  /\ proc[p].event \in EventSet
             /\ events' = Append(events, proc[p].event)
    <2>1. proc[p] \in ThreadSet /\ Doing(proc[p]) /\ proc[p].at \in Recordings
        BY <1>1 DEF TypeOK, AppendEvent, Step, Recordings
    <2> QED
        BY <1>1, <2>1, RecordedTypes DEF AppendEvent
<1>2. ASSUME NEW p \in Procs, Continue(p), ~AppendEvent(p)
      PROVE  events' = events
    BY <1>2 DEF Continue, Validate, Write, WriteFails, ReadSnapshot, AppendConflict,
        SyncRead, SyncWrite, HeadRead, HeadWrite, Prior, Move, Unlink, Decision, Stage,
        StageFails, Replace, Import, ImportSummary
<1>3. ASSUME NEW p \in Procs, Handler(p)
      PROVE  events' = events
    BY <1>3, HandlerMoves
<1>4. ASSUME NEW f \in Files, Edit(f)
      PROVE  events' = events
    BY <1>4 DEF Edit
<1>5. CASE Crash \/ UNCHANGED vars
    BY <1>5 DEF Crash, vars
<1> QED
    BY <1>1, <1>2, <1>3, <1>4, <1>5 DEF Next

\* What is recorded stays, and what is new is the event of a thread.
LEMMA RecordedStays ==
    ASSUME TypeOK, [Next]_vars
    PROVE  /\ \A e : Recorded(e)' <=> \/ Recorded(e)
                                      \/ \E p \in Procs : AppendEvent(p) /\ proc[p].event = e
           /\ Len(events) \in Nat /\ Len(events)' \in Nat /\ Len(events) <= Len(events)'
           /\ \A i \in DOMAIN events : i \in DOMAIN events' /\ events'[i] = events[i]
           /\ \A i \in DOMAIN events' : i \in DOMAIN events \/ i = Len(events) + 1
<1>1. CASE events' = events
    <2>1. \A p \in Procs : ~AppendEvent(p)
        BY <1>1 DEF AppendEvent, TypeOK
    <2> QED
        BY <1>1, <2>1 DEF Recorded, TypeOK
<1>2. ASSUME NEW p \in Procs, AppendEvent(p), proc[p].event \in EventSet,
             events' = Append(events, proc[p].event)
      PROVE  /\ \A e : Recorded(e)' <=> Recorded(e) \/ proc[p].event = e
             /\ Len(events) \in Nat /\ Len(events)' = Len(events) + 1
             /\ \A i \in DOMAIN events : i \in DOMAIN events' /\ events'[i] = events[i]
             /\ \A i \in DOMAIN events' : i \in DOMAIN events \/ i = Len(events) + 1
             /\ events'[Len(events) + 1] = proc[p].event
    <2>1. /\ Len(events) \in Nat /\ Len(events') = Len(events) + 1
          /\ \A i \in 1 .. Len(events) : events'[i] = events[i]
          /\ events'[Len(events) + 1] = proc[p].event
          /\ DOMAIN events = 1 .. Len(events) /\ DOMAIN events' = 1 .. Len(events) + 1
        BY <1>2 DEF TypeOK
    <2>2. \A i \in DOMAIN events : i \in DOMAIN events' /\ events'[i] = events[i]
        BY <2>1
    <2>3. \A i \in DOMAIN events' : i \in DOMAIN events \/ i = Len(events) + 1
        BY <2>1
    <2>4. Len(events) + 1 \in DOMAIN events'
        BY <2>1
    <2>5. ASSUME NEW e, Recorded(e)' PROVE Recorded(e) \/ proc[p].event = e
        <3>1. PICK k \in DOMAIN events' : events'[k] = e
            BY <2>5 DEF Recorded
        <3> QED
            BY <2>1, <2>2, <2>3, <3>1 DEF Recorded
    <2>6. ASSUME NEW e, Recorded(e) PROVE Recorded(e)'
        <3>1. PICK k \in DOMAIN events : events[k] = e
            BY <2>6 DEF Recorded
        <3> QED
            BY <2>2, <3>1 DEF Recorded
    <2>7. ASSUME NEW e, proc[p].event = e PROVE Recorded(e)'
        BY <2>1, <2>4, <2>7 DEF Recorded
    <2> QED
        BY <2>1, <2>2, <2>3, <2>5, <2>6, <2>7
<1>3. CASE events' # events
    <2>1. PICK p \in Procs : /\ AppendEvent(p) /\ proc[p].event \in EventSet
                             /\ events' = Append(events, proc[p].event)
        BY <1>3, StreamGrows
    <2>2. \A q \in Procs : AppendEvent(q) => proc[q].event = proc[p].event
        <3> SUFFICES ASSUME NEW q \in Procs, AppendEvent(q)
                     PROVE  proc[q].event = proc[p].event
            OBVIOUS
        <3>1. events' = Append(events, proc[q].event) /\ proc[q].event \in EventSet
            <4>1. proc[q] \in ThreadSet /\ Doing(proc[q]) /\ proc[q].at \in Recordings
                BY DEF TypeOK, AppendEvent, Step, Recordings
            <4> QED
                BY <4>1, RecordedTypes DEF AppendEvent
        <3>2. events'[Len(events) + 1] = proc[q].event
            BY <3>1 DEF TypeOK
        <3>3. events'[Len(events) + 1] = proc[p].event
            BY <2>1 DEF TypeOK
        <3> QED
            BY <3>2, <3>3
    <2>3. \A e : (\E q \in Procs : AppendEvent(q) /\ proc[q].event = e) <=> proc[p].event = e
        BY <2>1, <2>2
    <2>4. /\ \A e : Recorded(e)' <=> Recorded(e) \/ proc[p].event = e
          /\ Len(events) \in Nat /\ Len(events)' = Len(events) + 1
          /\ \A i \in DOMAIN events : i \in DOMAIN events' /\ events'[i] = events[i]
          /\ \A i \in DOMAIN events' : i \in DOMAIN events \/ i = Len(events) + 1
        BY <1>2, <2>1
    <2>5. Len(events)' \in Nat /\ Len(events) <= Len(events)'
        BY <2>4
    <2> QED
        BY <2>3, <2>4, <2>5
<1> QED
    BY <1>1, <1>3

-----------------------------------------------------------------------------
(***************************************************************************)
(* Promotions.                                                             *)
(***************************************************************************)
\* An acceptance that is the last word is in the stream.
LEMMA AcceptedIsRecorded ==
    ASSUME TypeOK, NEW c \in Candidates,
           AcceptedLast(RevisionEvents(c) \cap At(Decisions))
    PROVE  Recorded(Accepted(c))
<1>1. PICK i \in DOMAIN events : events[i].type = "EdaChangeAccepted" /\ events[i].candidate = c
    BY DEF AcceptedLast, IsLast, RevisionEvents, At
<1>2. events[i] \in EventSet /\ events[i] # Imported
    BY <1>1 DEF TypeOK, Imported
<1>3. PICK d \in Candidates : events[i] \in EventsOf(d)
    BY <1>2 DEF EventSet
<1>4. events[i] = Accepted(d)
    BY <1>1, <1>3 DEF EventsOf, Validated, Created, Accepted, Rejected, Deleted, Promotions, Reversals
<1>5. d = c
    BY <1>1, <1>4 DEF Accepted
<1> QED
    BY <1>4, <1>5 DEF Recorded

\* Nobody takes the acceptance away from a promotion that has seen it.
LEMMA AcceptingStep == TypeOK /\ Accepting /\ [Next]_vars => Accepting'
<1> SUFFICES ASSUME TypeOK, Accepting, [Next]_vars, NEW p \in Procs,
                    proc'[p].op = "promote",
                    proc'[p].at \in {"stage", "replace", "record", "append"},
                    NEW c, c = proc'[p].candidate
             PROVE  Recorded(Accepted(c))'
    BY DEF Accepting, Recorded, Accepted
<1>0. Recorded(Accepted(c)) => Recorded(Accepted(c))'
    BY RecordedStays
<1>1. ASSUME proc'[p] = proc[p] PROVE Recorded(Accepted(c))
    BY <1>1 DEF Accepting
<1>2. ASSUME Handler(p) PROVE FALSE
    BY <1>2, HandlerMoves
<1>3. ASSUME Continue(p) PROVE Recorded(Accepted(c))
    <2>1. Doing(proc[p]) /\ proc[p] \in ThreadSet
        BY DEF TypeOK
    <2>2. proc[p].op = "promote" /\ c = proc[p].candidate
        BY <1>3, Moves DEF Same
    <2>3. c \in Candidates
        BY <2>1, <2>2 DEF Doing
    <2>4. CASE proc[p].at \in {"stage", "replace", "record"}
        BY <2>2, <2>4 DEF Accepting
    <2>5. CASE proc[p].at = "decision"
        <3>1. AcceptedLast(RevisionEvents(c) \cap At(Decisions))
            BY <1>3, <2>2, <2>5, Moves
        <3> QED
            BY <2>3, <3>1, AcceptedIsRecorded
    <2>6. proc[p].at \in {"stage", "replace", "record", "decision"}
        <3>1. proc[p].at \notin {"validate", "write", "prior", "move"}
            BY <2>1, <2>2 DEF Doing, Recordings
        <3> QED
            BY <1>3, <2>2, <3>1, Moves
    <2> QED
        BY <2>4, <2>5, <2>6
<1>4. ASSUME Crash PROVE FALSE
    <2>1. proc'[p] = Idle
        BY <1>4 DEF Crash
    <2> QED
        BY <2>1, IdleTypes
<1> QED
    BY <1>0, <1>1, <1>2, <1>3, <1>4, OthersSteps

\* A promotion is recorded behind an acceptance of its candidate, whoever
\* decides, deletes or promotes at the same time
\* (promote_project_eda_candidate).
THEOREM PromotionsAreAccepted == Spec => []PromotedWereAccepted
<1>1. Init => Accepting /\ PromotedWereAccepted
    BY IdleTypes DEF Init, Accepting, PromotedWereAccepted, At
<1>2. TypeOK /\ Accepting /\ PromotedWereAccepted /\ [Next]_vars => PromotedWereAccepted'
    <2> SUFFICES ASSUME TypeOK, Accepting, PromotedWereAccepted, [Next]_vars,
                        NEW i \in DOMAIN events', events'[i].type = "EdaRevisionPromoted"
                 PROVE  \E k \in 1 .. i - 1 : events'[k] = Accepted(events'[i].candidate)
        BY DEF PromotedWereAccepted, At
    <2>1. CASE i \in DOMAIN events
        <3>1. events'[i] = events[i] /\ i \in Nat /\ DOMAIN events = 1 .. Len(events)
            BY <2>1, RecordedStays DEF TypeOK
        <3>2. PICK k \in 1 .. i - 1 : events[k] = Accepted(events[i].candidate)
            BY <2>1, <3>1 DEF PromotedWereAccepted, At
        <3>3. k \in DOMAIN events
            BY <2>1, <3>1, RecordedStays
        <3>4. events'[k] = Accepted(events'[i].candidate)
            BY <3>1, <3>2, <3>3, RecordedStays
        <3> QED
            BY <3>4
    <2>2. CASE i \notin DOMAIN events
        <3>1. i = Len(events) + 1 /\ Len(events) \in Nat /\ DOMAIN events = 1 .. Len(events)
            BY <2>2, RecordedStays DEF TypeOK
        <3>2. PICK p \in Procs : AppendEvent(p) /\ events' = Append(events, proc[p].event)
            BY <2>2, StreamGrows
        <3>3. events'[i] = proc[p].event
            BY <3>1, <3>2 DEF TypeOK
        <3>4. proc[p].at = "append" /\ Doing(proc[p])
            BY <3>2 DEF AppendEvent, Step, TypeOK
        <3>5. proc[p].op = "promote" /\ proc[p].event.candidate = proc[p].candidate
            BY <3>3, <3>4 DEF Doing, Recordings, Validated, Created, Accepted, Rejected, Deleted,
                Imported, Promotions, Reversals
        <3>6. PICK k \in DOMAIN events : events[k] = Accepted(proc[p].candidate)
            BY <3>4, <3>5 DEF Accepting, Recorded
        <3>7. k \in 1 .. i - 1
            BY <3>1
        <3>8. events'[k] = Accepted(events'[i].candidate)
            BY <3>3, <3>5, <3>6, RecordedStays
        <3> QED
            BY <3>7, <3>8
    <2> QED
        BY <2>1, <2>2
<1> QED
    BY <1>1, <1>2, AcceptingStep, TypesHold, PTL DEF Spec

-----------------------------------------------------------------------------
(***************************************************************************)
(* Directories.                                                            *)
(***************************************************************************)

\* A directory is made, moved, put back and removed by the thread it belongs
\* to.
LEMMA DirectorySteps ==
    ASSUME TypeOK, [Next]_vars
    PROVE  \/ dir' = dir
           \/ \E p \in Procs :
                LET c == proc[p].candidate
                IN  /\ c \in Candidates
                    /\ \/ Making(p) /\ ~Making(p)' /\ dir' = [dir EXCEPT ![c] = "there"]
                       \/ Removing(p) /\ ~Removing(p)' /\ proc[p].at = "append"
                            /\ dir' = [dir EXCEPT ![c] = "there"]
                       \/ Move(p) /\ dir[c] = "there" /\ dir' = [dir EXCEPT ![c] = "moved"]
                       \/ Removing(p) /\ ~Removing(p)' /\ proc[p].at = "unlink"
                            /\ dir' = [dir EXCEPT ![c] = "gone"]
<1>0. proc \in [Procs -> ThreadSet] /\ Idle.at = "idle"
    BY IdleTypes DEF TypeOK
<1>1. ASSUME NEW p \in Procs, Write(p)
      PROVE  /\ proc[p].candidate \in Candidates /\ Making(p) /\ ~Making(p)'
             /\ dir' = [dir EXCEPT ![proc[p].candidate] = "there"]
    <2>1. proc[p].at = "write" /\ proc'[p] = Recording(proc[p], Created(proc[p].candidate))
        BY <1>0, <1>1 DEF Write
    <2>2. proc[p].op = "apply" /\ proc[p].candidate \in Candidates
        BY <2>1 DEF TypeOK, Doing, Recordings
    <2>3. proc'[p].event = Created(proc[p].candidate) /\ proc'[p].at \in {"record", "append"}
        BY <1>0, <2>1 DEF Recording, ThreadSet
    <2>4. proc'[p].event # Validated(proc'[p].candidate)
        BY <2>3 DEF Created, Validated
    <2> QED
        BY <1>1, <2>1, <2>2, <2>3, <2>4 DEF Making, Write
<1>2. ASSUME NEW p \in Procs, AppendConflict(p), dir' # dir
      PROVE  /\ proc[p].candidate \in Candidates /\ Removing(p) /\ ~Removing(p)'
             /\ proc[p].at = "append" /\ dir' = [dir EXCEPT ![proc[p].candidate] = "there"]
    <2>1. proc[p].at = "append" /\ proc'[p] = Idle /\ proc[p].op = "delete"
        BY <1>0, <1>2 DEF AppendConflict, Step
    <2>2. proc[p].candidate \in Candidates
        BY <2>1 DEF TypeOK, Doing, Recordings
    <2> QED
        BY <1>0, <1>2, <2>1, <2>2 DEF Removing, Recordings, AppendConflict
<1>3. ASSUME NEW p \in Procs, Move(p), dir' # dir
      PROVE  /\ proc[p].candidate \in Candidates /\ dir[proc[p].candidate] = "there"
             /\ dir' = [dir EXCEPT ![proc[p].candidate] = "moved"]
    <2>1. proc[p].at = "move"
        BY <1>3 DEF Move, Step
    <2>2. proc[p].candidate \in Candidates
        BY <2>1 DEF TypeOK, Doing, Recordings
    <2> QED
        BY <1>3, <2>2 DEF Move
<1>4. ASSUME NEW p \in Procs, Unlink(p)
      PROVE  /\ proc[p].candidate \in Candidates /\ Removing(p) /\ ~Removing(p)'
             /\ proc[p].at = "unlink" /\ dir' = [dir EXCEPT ![proc[p].candidate] = "gone"]
    <2>1. proc[p].at = "unlink" /\ proc'[p] = Idle
        BY <1>0, <1>4 DEF Unlink, Step
    <2>2. proc[p].op = "delete" /\ proc[p].candidate \in Candidates
        BY <2>1 DEF TypeOK, Doing, Recordings
    <2> QED
        BY <1>0, <1>4, <2>1, <2>2 DEF Removing, Recordings, Unlink
<1>5. ASSUME NEW p \in Procs, Continue(p), ~Write(p), ~AppendConflict(p), ~Move(p), ~Unlink(p)
      PROVE  dir' = dir
    BY <1>5 DEF Continue, Validate, WriteFails, ReadSnapshot, AppendEvent, SyncRead, SyncWrite,
        HeadRead, HeadWrite, Prior, Decision, Stage, StageFails, Replace, Import, ImportSummary
<1>6. ASSUME NEW p \in Procs, Handler(p) PROVE dir' = dir
    BY <1>6, HandlerMoves
<1>7. ASSUME NEW f \in Files, Edit(f) PROVE dir' = dir
    BY <1>7 DEF Edit
<1>8. ASSUME Crash \/ UNCHANGED vars PROVE dir' = dir
    BY <1>8 DEF Crash, vars
<1>9. ASSUME NEW p \in Procs, Continue(p), dir' # dir
      PROVE  Write(p) \/ AppendConflict(p) \/ Move(p) \/ Unlink(p)
    BY <1>5, <1>9
<1>10. dir' = dir \/ \E p \in Procs : Continue(p)
    BY <1>6, <1>7, <1>8 DEF Next
<1>11. dir' # dir => \E p \in Procs : Write(p) \/ AppendConflict(p) \/ Move(p) \/ Unlink(p)
    BY <1>9, <1>10
<1>12. CASE dir' # dir
    <2>1. PICK p \in Procs : Write(p) \/ AppendConflict(p) \/ Move(p) \/ Unlink(p)
        BY <1>11, <1>12
    <2>2. CASE Write(p)
        BY <1>1, <2>2
    <2>3. CASE AppendConflict(p)
        BY <1>2, <1>12, <2>3
    <2>4. CASE Move(p)
        BY <1>3, <1>12, <2>4
    <2>5. CASE Unlink(p)
        BY <1>4, <2>5
    <2> QED
        BY <2>1, <2>2, <2>3, <2>4, <2>5
<1> QED
    BY <1>12

\* How a thread comes to remove a directory, and to own one not made yet.
LEMMA OwnersSteps ==
    ASSUME TypeOK, [Next]_vars, NEW p \in Procs
    PROVE  /\ Removing(p)' =>
                /\ proc'[p].candidate = proc[p].candidate
                /\ proc[p].candidate \in Candidates
                /\ \/ /\ Removing(p)
                      /\ proc'[p].at \in {"sync", "synced", "unlink"}
                            <=> AppendEvent(p) \/ proc[p].at \in {"sync", "synced", "unlink"}
                   \/ /\ proc[p].at = "move" /\ proc'[p].at \in {"record", "append"}
                      /\ Move(p) /\ dir[proc[p].candidate] = "there"
           /\ Making(p)' =>
                /\ proc'[p].candidate \in Candidates
                /\ \/ Making(p) /\ proc'[p].candidate = proc[p].candidate
                   \/ /\ Handler(p) /\ proc[p].at = "idle" /\ dir' = dir
                      /\ dir[proc'[p].candidate] = "none"
                      /\ \A q \in Procs : proc[q].op = "apply" => proc[q].candidate # proc'[p].candidate
<1>0. /\ proc \in [Procs -> ThreadSet] /\ proc[p] \in ThreadSet /\ Doing(proc[p])
      /\ Idle.at = "idle" /\ Idle.op = "none"
    BY IdleTypes DEF TypeOK
<1>00. /\ AppendEvent(p) => proc[p].at = "append" /\ proc'[p].at = "sync"
       /\ Move(p) => proc[p].at = "move" /\
            (proc'[p] = Idle \/ dir[proc[p].candidate] = "there")
    BY <1>0 DEF AppendEvent, Move, Step, ThreadSet
<1>000. TypeOK'
    BY TypesStep
<1>1. ASSUME Removing(p)'
      PROVE  /\ proc'[p].candidate = proc[p].candidate
             /\ proc[p].candidate \in Candidates
             /\ \/ /\ Removing(p)
                   /\ proc'[p].at \in {"sync", "synced", "unlink"}
                        <=> AppendEvent(p) \/ proc[p].at \in {"sync", "synced", "unlink"}
                \/ /\ proc[p].at = "move" /\ proc'[p].at \in {"record", "append"}
                   /\ Move(p) /\ dir[proc[p].candidate] = "there"
    <2>0. proc'[p].op = "delete" /\ proc'[p].at \in Recordings \cup {"unlink"}
        BY <1>1 DEF Removing
    <2>1. CASE proc'[p] = proc[p]
        <3>1. ~AppendEvent(p)
            BY <1>00, <2>1
        <3>2. proc[p].candidate \in Candidates
            BY <1>0, <2>0, <2>1 DEF Doing
        <3> QED
            BY <1>1, <2>1, <3>1, <3>2 DEF Removing
    <2>2. ASSUME Handler(p) PROVE FALSE
        <3>1. proc'[p].at \in {"move", "prior", "import", "decision", "validate", "write"}
                \/ proc'[p].op = "revert"
            BY <2>2, HandlerMoves
        <3> QED
            BY <2>0, <3>1 DEF Recordings
    <2>3. CASE Continue(p)
        <3>1. proc[p].op = "delete" /\ proc'[p].candidate = proc[p].candidate
            BY <2>0, <2>3, Moves DEF Same
        <3>2. proc[p].at \in {"move", "unlink"} \cup Recordings /\ proc[p].candidate \in Candidates
            BY <1>0, <3>1 DEF Doing
        <3>3. \/ proc[p].at = "record" /\ proc'[p].at = "append"
              \/ proc[p].at = "append" /\ proc'[p].at = "sync" /\ AppendEvent(p)
              \/ proc[p].at = "sync" /\ proc'[p].at = "synced"
              \/ proc[p].at = "synced" /\ proc'[p].at = "unlink"
              \/ proc[p].at = "move" /\ proc'[p].at \in {"record", "append"} /\ Move(p)
            BY <2>0, <2>3, <3>1, <3>2, Moves DEF Recordings
        <3>4. CASE proc[p].at = "move"
            BY <1>0, <1>00, <3>1, <3>2, <3>3, <3>4
        <3>5. CASE proc[p].at # "move"
            BY <1>00, <3>1, <3>2, <3>3, <3>5 DEF Removing, Recordings
        <3> QED
            BY <3>4, <3>5
    <2>4. ASSUME Crash PROVE FALSE
        <3>1. proc'[p] = Idle
            BY <2>4 DEF Crash
        <3> QED
            BY <1>0, <2>0, <3>1
    <2> QED
        BY <2>1, <2>2, <2>3, <2>4, OthersSteps
<1>2. ASSUME Making(p)'
      PROVE  /\ proc'[p].candidate \in Candidates
             /\ \/ Making(p) /\ proc'[p].candidate = proc[p].candidate
                \/ /\ Handler(p) /\ proc[p].at = "idle" /\ dir' = dir
                   /\ dir[proc'[p].candidate] = "none"
                   /\ \A q \in Procs : proc[q].op = "apply" => proc[q].candidate # proc'[p].candidate
    <2>0. /\ proc'[p].op = "apply"
          /\ \/ proc'[p].at \in {"validate", "write"}
             \/ proc'[p].at \in Recordings /\ proc'[p].event = Validated(proc'[p].candidate)
        BY <1>2 DEF Making
    <2>00. proc'[p].candidate \in Candidates
        BY <1>000, <2>0 DEF TypeOK, Doing
    <2>1. CASE proc'[p] = proc[p]
        BY <1>2, <2>00, <2>1 DEF Making
    <2>2. CASE Handler(p)
        BY <2>0, <2>00, <2>2, HandlerMoves
    <2>3. CASE Continue(p)
        <3>1. proc[p].op = "apply" /\ proc'[p].candidate = proc[p].candidate
            BY <2>0, <2>3, Moves DEF Same
        <3>2. \/ proc[p].at \in {"validate", "write"}
              \/ proc[p].at \in {"record", "append", "sync"} /\ proc'[p].event = proc[p].event
                    /\ proc'[p].at \in Recordings
              \/ proc[p].at = "synced" /\ proc[p].event = Validated(proc[p].candidate)
            <4>1. proc[p].at \notin {"prior", "move", "decision", "stage", "replace", "unlink"}
                BY <1>0, <3>1 DEF Doing, Recordings
            <4>2. proc'[p].at \notin {"idle", "head", "headed", "unlink"}
                BY <2>0 DEF Recordings
            <4> QED
                BY <2>0, <2>3, <3>1, <4>1, <4>2, Moves DEF Recordings
        <3> QED
            BY <2>0, <2>00, <3>1, <3>2 DEF Making, Recordings
    <2>4. ASSUME Crash PROVE FALSE
        <3>1. proc'[p] = Idle
            BY <2>4 DEF Crash
        <3> QED
            BY <1>0, <2>0, <3>1
    <2> QED
        BY <2>1, <2>2, <2>3, <2>4, OthersSteps
<1> QED
    BY <1>1, <1>2

\* A deletion is recorded by the thread that has moved the directory.
LEMMA DeletionsRecorded ==
    ASSUME TypeOK, [Next]_vars, NEW c \in Candidates
    PROVE  /\ Recorded(Deleted(c)) => Recorded(Deleted(c))'
           /\ Recorded(Deleted(c))' =>
                \/ Recorded(Deleted(c))
                \/ \E p \in Procs : /\ Removing(p) /\ AppendEvent(p) /\ dir' = dir
                                    /\ proc[p].candidate = c
           /\ \A p \in Procs : Removing(p) /\ AppendEvent(p) /\ proc[p].candidate = c
                    => Recorded(Deleted(c))'
<1>1. \A p \in Procs : AppendEvent(p) => proc[p].at = "append" /\ dir' = dir /\ Doing(proc[p])
    BY DEF AppendEvent, Step, TypeOK
<1>2. ASSUME NEW p \in Procs, AppendEvent(p), proc[p].event = Deleted(c)
      PROVE  Removing(p) /\ proc[p].candidate = c
    <2>1. /\ proc[p].at = "append" /\ proc[p].event.type = "EdaCandidateDeleted"
          /\ proc[p].event.candidate = c /\ Doing(proc[p])
        BY <1>1, <1>2 DEF Deleted
    <2>2. proc[p].op = "delete" /\ proc[p].event = Deleted(proc[p].candidate)
        BY <2>1 DEF Doing, Recordings, Validated, Created, Accepted, Rejected, Deleted, Imported,
            Promotions, Reversals
    <2> QED
        BY <2>1, <2>2 DEF Removing, Recordings, Deleted
<1>3. ASSUME NEW p \in Procs, AppendEvent(p), Removing(p), proc[p].candidate = c
      PROVE  proc[p].event = Deleted(c)
    BY <1>1, <1>3 DEF Removing, Doing
<1>4. Deleted(c) = [type |-> "EdaCandidateDeleted", candidate |-> c]
    BY DEF Deleted
<1> DEFINE e == Deleted(c)
<1>5. Recorded(e)' <=> \/ Recorded(e)
                       \/ \E p \in Procs : AppendEvent(p) /\ proc[p].event = e
    BY RecordedStays
<1> QED
    BY <1>1, <1>2, <1>3, <1>5

\* The directories keep their owners.
LEMMA OwningStep == TypeOK /\ Owning /\ [Next]_vars => Owning'
<1> SUFFICES ASSUME TypeOK, Owning, [Next]_vars PROVE Owning'
    OBVIOUS
<1>0. dir \in [Candidates -> Places]
    BY DEF TypeOK
<1>1. ASSUME NEW p \in Procs, Removing(p)', NEW c, c = proc'[p].candidate
      PROVE  /\ dir'[c] = "moved"
             /\ Recorded(Deleted(c))' <=> proc'[p].at \in {"sync", "synced", "unlink"}
    <2>0. c \in Candidates /\ c = proc[p].candidate
        BY <1>1, OwnersSteps
    <2>1. CASE Removing(p) /\ (proc'[p].at \in {"sync", "synced", "unlink"}
                                <=> AppendEvent(p) \/ proc[p].at \in {"sync", "synced", "unlink"})
        <3>1. dir[c] = "moved" /\ \A q \in Procs : Removing(q) /\ proc[q].candidate = c => q = p
            BY <2>0, <2>1 DEF Owning
        <3>2. dir'[c] = "moved"
            BY <1>0, <1>1, <2>0, <3>1, DirectorySteps DEF Owning
        <3>3. Recorded(Deleted(c)) <=> proc[p].at \in {"sync", "synced", "unlink"}
            BY <2>0, <2>1 DEF Owning
        <3>4. Recorded(Deleted(c))' <=> Recorded(Deleted(c)) \/ AppendEvent(p)
            BY <2>0, <2>1, <3>1, DeletionsRecorded
        <3> QED
            BY <2>1, <3>2, <3>3, <3>4
    <2>2. CASE /\ proc[p].at = "move" /\ proc'[p].at \in {"record", "append"}
               /\ Move(p) /\ dir[c] = "there"
        <3>1. dir'[c] = "moved" /\ events' = events
            BY <1>0, <2>0, <2>2 DEF Move
        <3>2. ~Recorded(Deleted(c))
            BY <2>0, <2>2 DEF Owning
        <3>3. ~Recorded(Deleted(c))'
            BY <3>1, <3>2 DEF Recorded, Deleted
        <3> QED
            BY <2>2, <3>1, <3>3
    <2> QED
        BY <1>1, <2>0, <2>1, <2>2, OwnersSteps
<1>2. ASSUME NEW p \in Procs, Making(p)' PROVE dir'[proc'[p].candidate] = "none"
    <2>1. CASE Making(p) /\ proc'[p].candidate = proc[p].candidate
        <3> DEFINE c == proc[p].candidate
        <3>1. /\ dir[c] = "none"
              /\ \A q \in Procs : Making(q) /\ proc[q].candidate = c => q = p
            BY <2>1 DEF Owning
        <3>2. \A q \in Procs : Removing(q) => proc[q].candidate # c
            BY <3>1 DEF Owning
        <3>3. c \in Candidates
            BY <1>2, <2>1, OwnersSteps
        <3> HIDE DEF c
        <3>4. \A q \in Procs : Making(q) /\ ~Making(q)' => proc[q].candidate # c
            BY <1>2, <3>1
        <3>5. dir'[c] = "none"
            BY <1>0, <3>1, <3>2, <3>3, <3>4, DirectorySteps
        <3> QED
            BY <2>1, <3>5 DEF c
    <2>2. CASE dir' = dir /\ dir[proc'[p].candidate] = "none"
        BY <2>2
    <2> QED
        BY <1>2, <2>1, <2>2, OwnersSteps
<1>3. ASSUME NEW p \in Procs, NEW q \in Procs, Removing(p)', Removing(q)',
             proc'[p].candidate = proc'[q].candidate
      PROVE  p = q
    <2>1. CASE Removing(p) /\ Removing(q)
        BY <1>3, <2>1, OwnersSteps DEF Owning
    <2>2. CASE ~Removing(p) /\ Removing(q)
        BY <1>3, <2>2, OwnersSteps DEF Owning
    <2>3. CASE Removing(p) /\ ~Removing(q)
        BY <1>3, <2>3, OwnersSteps DEF Owning
    <2>4. CASE ~Removing(p) /\ ~Removing(q)
        <3>1. /\ Move(p) /\ proc[q].at = "move" /\ proc'[q].at \in {"record", "append"}
            BY <1>3, <2>4, OwnersSteps
        <3>2. q # p => proc'[q] = proc[q]
            BY <3>1 DEF Move, Step, TypeOK
        <3> QED
            BY <3>1, <3>2
    <2> QED
        BY <2>1, <2>2, <2>3, <2>4
<1>4. ASSUME NEW p \in Procs, NEW q \in Procs, Making(p)', Making(q)',
             proc'[p].candidate = proc'[q].candidate
      PROVE  p = q
    <2>1. CASE Making(p) /\ Making(q) /\ proc'[p].candidate = proc[p].candidate
                /\ proc'[q].candidate = proc[q].candidate
        BY <1>4, <2>1 DEF Owning
    <2>2. CASE Handler(p) /\ Handler(q)
        <3>1. p # q => proc'[q] = proc[q]
            BY <2>2, HandlerMoves
        <3>2. proc[q].at = "idle"
            BY <2>2, HandlerMoves
        <3> QED
            BY <1>4, <3>1, <3>2 DEF Making, Recordings
    <2>3. ASSUME Making(q), proc'[q].candidate = proc[q].candidate,
                 \A r \in Procs : proc[r].op = "apply" => proc[r].candidate # proc'[p].candidate
          PROVE  FALSE
        BY <1>4, <2>3 DEF Making
    <2>4. ASSUME Making(p), proc'[p].candidate = proc[p].candidate,
                 \A r \in Procs : proc[r].op = "apply" => proc[r].candidate # proc'[q].candidate
          PROVE  FALSE
        BY <1>4, <2>4 DEF Making
    <2> QED
        BY <1>4, <2>1, <2>2, <2>3, <2>4, OwnersSteps
<1>5. ASSUME NEW c \in Candidates, Recorded(Deleted(c))' PROVE dir'[c] \in {"moved", "gone"}
    <2>1. CASE Recorded(Deleted(c))
        <3>1. dir[c] \in {"moved", "gone"}
            BY <2>1 DEF Owning
        <3>2. \A q \in Procs : Removing(q) /\ proc[q].candidate = c => proc[q].at # "append"
            BY <2>1 DEF Owning
        <3>3. \A q \in Procs : Making(q) => proc[q].candidate # c
            BY <3>1 DEF Owning
        <3> QED
            BY <1>0, <3>1, <3>2, <3>3, DirectorySteps
    <2>2. CASE ~Recorded(Deleted(c))
        <3>1. PICK p \in Procs : Removing(p) /\ dir' = dir /\ proc[p].candidate = c
            BY <1>5, <2>2, DeletionsRecorded
        <3> QED
            BY <3>1 DEF Owning
    <2> QED
        BY <2>1, <2>2
<1>6. ASSUME NEW c \in Candidates, dir'[c] = "gone" PROVE Recorded(Deleted(c))'
    <2>1. CASE dir[c] = "gone"
        BY <2>1, DeletionsRecorded DEF Owning
    <2>2. CASE dir[c] # "gone"
        <3>1. PICK p \in Procs : Removing(p) /\ proc[p].at = "unlink" /\ proc[p].candidate = c
            BY <1>0, <1>6, <2>2, DirectorySteps
        <3>2. Recorded(Deleted(c))
            BY <3>1 DEF Owning
        <3> QED
            BY <3>2, DeletionsRecorded
    <2> QED
        BY <2>1, <2>2
<1>7. \A p \in Procs : Removing(p)' =>
        /\ dir'[proc'[p].candidate] = "moved"
        /\ Recorded(Deleted(proc[p].candidate))' <=> proc'[p].at \in {"sync", "synced", "unlink"}
    BY <1>1 DEF Recorded, Deleted
<1> QED
    BY <1>2, <1>3, <1>4, <1>5, <1>6, <1>7 DEF Owning

\* The directory of a candidate disappears with its event only and does not
\* come back behind it, however many threads delete, promote and migrate
\* and whenever the server stops (delete_project_eda_candidate).
THEOREM DeletionsAreRecorded == Spec => []DeletionIsRecorded
<1>1. Init => Owning
    <2>1. \A p \in Procs : Init => ~Removing(p) /\ ~Making(p)
        BY IdleTypes DEF Init, Removing, Making, Recordings
    <2>2. Init => \A c \in Candidates : ~Recorded(Deleted(c)) /\ dir[c] # "gone"
        BY DEF Init, Recorded
    <2> QED
        BY <2>1, <2>2 DEF Owning
<1>2. Owning => DeletionIsRecorded
    BY DEF Owning, DeletionIsRecorded, Recorded
<1> QED
    BY <1>1, <1>2, OwningStep, TypesHold, PTL DEF Spec

-----------------------------------------------------------------------------
(***************************************************************************)
(* Contents.                                                               *)
(***************************************************************************)

\* The object store only grows, and files are replaced by the second loop of
\* a promotion or a revert.
LEMMA ContentSteps ==
    ASSUME TypeOK, [Next]_vars, Edits = FALSE
    PROVE  /\ objects \subseteq objects'
           /\ \/ files' = files
              \/ \E p \in Procs : Continue(p) /\ Replace(p)
<1>1. ASSUME NEW p \in Procs, Handler(p) PROVE objects' = objects /\ files' = files
    BY <1>1, HandlerMoves
<1>2. ASSUME NEW p \in Procs, Continue(p)
      PROVE  objects \subseteq objects' /\ (files' = files \/ Replace(p))
    BY <1>2 DEF Continue, Validate, Write, WriteFails, ReadSnapshot, AppendEvent, AppendConflict,
        SyncRead, SyncWrite, HeadRead, HeadWrite, Prior, Move, Unlink, Decision, Stage,
        StageFails, Replace, Import, ImportSummary
<1>3. \A f \in Files : ~Edit(f)
    BY DEF Edit
<1>4. Crash \/ UNCHANGED vars => objects' = objects /\ files' = files
    BY DEF Crash, vars
<1> QED
    BY <1>1, <1>2, <1>3, <1>4 DEF Next

\* One file of the bundle is replaced, and the others are left.
LEMMA ReplaceSteps ==
    ASSUME TypeOK, NEW p \in Procs, Replace(p)
    PROVE  LET bundle == proc[p].bundle
           IN  /\ proc[p].at = "replace" /\ objects' = objects
               /\ \E f \in DOMAIN bundle :
                    /\ f \in Files /\ files' = [files EXCEPT ![f] = bundle[f]]
                    /\ proc'[p].at = "replace" =>
                        proc'[p].bundle = [g \in DOMAIN bundle \ {f} |-> bundle[g]]
<1> DEFINE s == proc[p]
           bundle == s.bundle
           f == IF Target[s.candidate] \in DOMAIN bundle THEN Target[s.candidate]
                ELSE CHOOSE g \in DOMAIN bundle : TRUE
           rest == [g \in DOMAIN bundle \ {f} |-> bundle[g]]
           left == [s EXCEPT !.bundle = rest]
<1>1. /\ s.at = "replace" /\ proc' = [proc EXCEPT ![p] = IF rest = Nothing THEN Recording(left, s.event) ELSE left]
      /\ files' = [files EXCEPT ![f] = bundle[f]] /\ objects' = objects
    BY DEF Replace, Step
<1>2. s \in ThreadSet /\ bundle \in Bundles /\ DOMAIN bundle # {}
    BY <1>1 DEF TypeOK, ThreadSet, Doing
<1>3. f \in DOMAIN bundle /\ f \in Files
    BY <1>2 DEF Bundles
<1>4. left.at = "replace" /\ left.bundle = rest
    BY <1>1, <1>2 DEF ThreadSet
<1> HIDE DEF f, rest, left
<1>5. proc'[p] = IF rest = Nothing THEN Recording(left, s.event) ELSE left
    BY <1>1 DEF TypeOK
<1>6. Recording(left, s.event).at # "replace"
    <2>1. left = [left EXCEPT !.at = "replace"]
        BY <1>2, <1>4 DEF left, ThreadSet
    <2> QED
        BY <1>2 DEF left, ThreadSet, Recording
<1>7. proc'[p].at = "replace" => proc'[p].bundle = rest
    BY <1>4, <1>5, <1>6
<1> QED
    BY <1>1, <1>3, <1>7 DEF rest

\* What Stage prepares.
LEMMA StageSteps ==
    ASSUME TypeOK, NEW p \in Procs, Stage(p)
    PROVE  LET t == proc'[p]
           IN  /\ t.event.after = t.bundle
               /\ Stored(t.bundle) \subseteq objects'
               /\ \A f \in DOMAIN t.bundle : files[f] # Absent => <<f, files[f]>> \in objects'
               /\ files' = files
<1> DEFINE s == proc[p]
           bundle == Bundle(s.candidate)
           before == [f \in DOMAIN bundle |-> files[f]]
           e == Promoted(s.candidate, before, bundle)
<1>1. /\ proc' = [proc EXCEPT ![p] = [s EXCEPT !.at = "replace", !.bundle = bundle, !.event = e]]
      /\ objects' = objects \cup Stored(before) \cup Stored(bundle)
      /\ files' = files
    BY DEF Stage, Step
<1>2. e.after = bundle
    BY DEF Promoted
<1> HIDE DEF e
<1>3. proc'[p].bundle = bundle /\ proc'[p].event = e
    BY <1>1 DEF TypeOK, ThreadSet
<1>4. \A f \in DOMAIN bundle : files[f] # Absent => <<f, files[f]>> \in Stored(before)
    BY DEF Stored
<1> HIDE DEF bundle, before
<1> QED
    BY <1>1, <1>2, <1>3, <1>4

\* What is kept stays kept.
LEMMA KeepingStep ==
    ASSUME Edits = FALSE
    PROVE  TypeOK /\ Keeping /\ [Next]_vars => Keeping'
<1> SUFFICES ASSUME TypeOK, Keeping, [Next]_vars PROVE Keeping'
    OBVIOUS
<1>0. TypeOK' /\ objects \subseteq objects' /\ Idle.at = "idle" /\ Idle.op = "none"
    BY TypesStep, ContentSteps, IdleTypes
<1>1. ASSUME NEW p \in Procs, proc'[p].op = "promote", proc'[p].at \in {"replace", "record", "append"}
      PROVE  Stored(proc'[p].event.after) \subseteq objects'
    <2>1. CASE proc'[p] = proc[p]
        BY <1>0, <1>1, <2>1 DEF Keeping
    <2>2. ASSUME Handler(p) PROVE FALSE
        BY <1>1, <2>2, HandlerMoves
    <2>3. CASE Continue(p)
        <3>1. Doing(proc[p]) /\ proc[p].op = "promote"
            BY <1>1, <2>3, Moves DEF TypeOK, Same
        <3>2. proc[p].at \notin {"validate", "write", "prior", "move"}
            BY <3>1 DEF Doing, Recordings
        <3>3. \/ proc[p].at \in {"record", "replace"} /\ proc'[p].event = proc[p].event
              \/ Stage(p)
            BY <1>1, <2>3, <3>1, <3>2, Moves
        <3>4. CASE Stage(p)
            BY <3>4, StageSteps
        <3>5. CASE proc[p].at \in {"record", "replace"} /\ proc'[p].event = proc[p].event
            BY <1>0, <3>1, <3>5 DEF Keeping
        <3> QED
            BY <3>3, <3>4, <3>5
    <2>4. ASSUME Crash PROVE FALSE
        <3>1. proc'[p] = Idle
            BY <2>4 DEF Crash
        <3> QED
            BY <1>0, <1>1, <3>1
    <2> QED
        BY <2>1, <2>2, <2>3, <2>4, OthersSteps
<1>2. ASSUME NEW i \in At({"EdaRevisionPromoted"})'
      PROVE  Stored(events'[i].after) \subseteq objects'
    <2>0. i \in DOMAIN events' /\ events'[i].type = "EdaRevisionPromoted"
        BY <1>2 DEF At
    <2>1. CASE i \in DOMAIN events
        <3>1. events'[i] = events[i]
            BY <2>1, RecordedStays
        <3> QED
            BY <1>0, <2>0, <2>1, <3>1 DEF Keeping, At
    <2>2. CASE i \notin DOMAIN events
        <3>1. i = Len(events) + 1 /\ Len(events) \in Nat
            BY <2>0, <2>2, RecordedStays
        <3>2. PICK p \in Procs : /\ AppendEvent(p) /\ proc[p].event \in EventSet
                                 /\ events' = Append(events, proc[p].event)
            BY <2>0, <2>2, StreamGrows
        <3>3. events'[i] = proc[p].event
            BY <3>1, <3>2 DEF TypeOK
        <3>4. proc[p].at = "append" /\ Doing(proc[p]) /\ objects' = objects
            BY <3>2 DEF AppendEvent, Step, TypeOK
        <3>5. proc[p].op = "promote"
            BY <2>0, <3>3, <3>4 DEF Doing, Recordings, Validated, Created, Accepted, Rejected, Deleted,
                Imported, Promotions, Reversals
        <3> QED
            BY <3>3, <3>4, <3>5 DEF Keeping
    <2> QED
        BY <2>1, <2>2
<1>3. ASSUME NEW p \in Procs, proc'[p].at = "replace"
      PROVE  /\ Stored(proc'[p].bundle) \subseteq objects'
             /\ \A f \in DOMAIN proc'[p].bundle : files[f] # Absent => <<f, files[f]>> \in objects'
             /\ ~Replace(p) \/ \E f \in DOMAIN proc[p].bundle :
                    /\ f \notin DOMAIN proc'[p].bundle /\ f \in Files
                    /\ files' = [files EXCEPT ![f] = proc[p].bundle[f]]
    <2>1. CASE proc'[p] = proc[p]
        <3>1. ~Replace(p)
            <4>1. ASSUME Replace(p) PROVE FALSE
                <5>1. PICK f \in DOMAIN proc[p].bundle :
                        proc'[p].bundle = [g \in DOMAIN proc[p].bundle \ {f} |-> proc[p].bundle[g]]
                    BY <1>3, <4>1, ReplaceSteps
                <5>2. f \notin DOMAIN proc'[p].bundle
                    BY <5>1
                <5> QED
                    BY <2>1, <5>2
            <4> QED
                BY <4>1
        <3> QED
            BY <1>0, <1>3, <2>1, <3>1 DEF Keeping
    <2>2. CASE Handler(p)
        <3>1. PICK i \in At({"EdaRevisionPromoted"}) :
                Revert(p, i) /\ proc'[p].bundle = events[i].before
            BY <1>3, <2>2, HandlerMoves
        <3>2. Stored(events[i].before) \subseteq objects
                /\ \A f \in DOMAIN events[i].after : files[f] = events[i].after[f]
            BY <3>1 DEF Revert
        <3>3. Stored(events[i].after) \subseteq objects
            BY DEF Keeping
        <3>4. DOMAIN events[i].after = DOMAIN events[i].before
            BY PromotionTypes DEF Promotions
        <3>5. proc[p].at = "idle"
            BY <2>2, HandlerMoves
        <3>6. ~Replace(p)
            BY <3>5 DEF Replace, Step
        <3>7. \A f \in DOMAIN events[i].before : files[f] # Absent => <<f, files[f]>> \in objects
            BY <3>2, <3>3, <3>4 DEF Stored
        <3> QED
            BY <1>0, <3>1, <3>2, <3>6, <3>7
    <2>3. CASE Continue(p)
        <3>1. Stage(p) \/ Replace(p)
            <4>1. ASSUME proc[p].op = "migrate", proc'[p].op = "migrate" PROVE FALSE
                BY <1>0, <1>3, <4>1 DEF TypeOK, Doing, Recordings
            <4> QED
                BY <1>3, <2>3, <4>1, Moves
        <3>2. CASE Stage(p)
            <4>1. ~Replace(p)
                BY <3>2 DEF Stage, Replace, Step
            <4> QED
                BY <3>2, <4>1, StageSteps
        <3>3. CASE Replace(p)
            <4> DEFINE bundle == proc[p].bundle
            <4>1. PICK f \in DOMAIN bundle :
                    /\ f \in Files /\ files' = [files EXCEPT ![f] = bundle[f]]
                    /\ proc'[p].bundle = [g \in DOMAIN bundle \ {f} |-> bundle[g]]
                BY <1>3, <3>3, ReplaceSteps
            <4>2. /\ proc[p].at = "replace" /\ Stored(bundle) \subseteq objects
                  /\ \A g \in DOMAIN bundle : files[g] # Absent => <<g, files[g]>> \in objects
                BY <3>3, ReplaceSteps DEF Keeping
            <4>3. /\ DOMAIN proc'[p].bundle = DOMAIN bundle \ {f}
                  /\ \A g \in DOMAIN proc'[p].bundle : proc'[p].bundle[g] = bundle[g]
                BY <4>1
            <4>4. Stored(proc'[p].bundle) \subseteq Stored(bundle)
                BY <4>3 DEF Stored
            <4> HIDE DEF bundle
            <4>5. \A g \in DOMAIN proc'[p].bundle : files[g] # Absent => <<g, files[g]>> \in objects'
                BY <1>0, <4>2, <4>3
            <4>6. Stored(proc'[p].bundle) \subseteq objects'
                BY <1>0, <4>2, <4>4
            <4> QED
                BY <4>1, <4>3, <4>5, <4>6 DEF bundle
        <3> QED
            BY <3>1, <3>2, <3>3
    <2>4. ASSUME Crash PROVE FALSE
        <3>1. proc'[p] = Idle
            BY <2>4 DEF Crash
        <3> QED
            BY <1>0, <1>3, <3>1
    <2> QED
        BY <2>1, <2>2, <2>3, <2>4, OthersSteps
<1>4. ASSUME NEW p \in Procs, proc'[p].at = "replace", NEW f \in DOMAIN proc'[p].bundle,
             files'[f] # Absent
      PROVE  <<f, files'[f]>> \in objects'
    <2>1. CASE files' = files
        BY <1>3, <1>4, <2>1
    <2>2. CASE files'[f] # files[f]
        <3>1. PICK q \in Procs : Continue(q) /\ Replace(q)
            BY <2>2, ContentSteps
        <3> DEFINE bundle == proc[q].bundle
        <3>2. PICK g \in DOMAIN bundle : g \in Files /\ files' = [files EXCEPT ![g] = bundle[g]]
            BY <3>1, ReplaceSteps
        <3>3. files'[g] = bundle[g] /\ f = g
            BY <2>2, <3>2 DEF TypeOK
        <3>4. Stored(bundle) \subseteq objects
            BY <3>1, ReplaceSteps DEF Keeping
        <3>5. <<g, bundle[g]>> \in Stored(bundle)
            BY <1>4, <3>2, <3>3 DEF Stored
        <3> QED
            BY <1>0, <3>3, <3>4, <3>5
    <2> QED
        BY <1>3, <1>4, <2>1, <2>2
<1> QED
    BY <1>1, <1>2, <1>3, <1>4 DEF Keeping

\* As long as the sources are changed by promotions and reverts only, no
\* content that has been a source is lost, however many handlers interleave
\* and whenever the server stops (_promote_bundle, _revert_bundle).
THEOREM ContentsAreKept ==
    ASSUME Edits = FALSE
    PROVE  Spec => NothingLost
<1> DEFINE Kept == \A f \in Files :
                files[f] \notin {files'[f], Absent} => <<f, files[f]>> \in objects
<1>1. Init => Keeping
    BY IdleTypes DEF Init, Keeping, At
<1>2. TypeOK /\ Keeping /\ [Next]_vars => [Kept]_vars
    <2> SUFFICES ASSUME TypeOK, Keeping, [Next]_vars, NEW f \in Files,
                        files[f] \notin {files'[f], Absent}
                 PROVE  <<f, files[f]>> \in objects
        OBVIOUS
    <2>1. PICK p \in Procs : Replace(p)
        BY ContentSteps
    <2>2. PICK g \in DOMAIN proc[p].bundle : files' = [files EXCEPT ![g] = proc[p].bundle[g]]
        BY <2>1, ReplaceSteps
    <2>3. f = g /\ proc[p].at = "replace"
        BY <2>1, <2>2, ReplaceSteps DEF TypeOK
    <2> QED
        BY <2>2, <2>3 DEF Keeping
<1>3. TypeOK /\ Keeping /\ [Next]_vars => Keeping'
    BY KeepingStep
<1> QED
    BY <1>1, <1>2, <1>3, TypesHold, PTL DEF Spec, NothingLost
=============================================================================
