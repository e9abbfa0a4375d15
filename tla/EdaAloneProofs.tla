--------------------------- MODULE EdaAloneProofs ---------------------------
(***************************************************************************)
(* What EdaCandidates guarantees to one client at a time, when the server  *)
(* does not stop: the sources and the descriptor follow the stream, for    *)
(* every project, every set of candidates and every length of the stream,  *)
(* whoever edits the sources meanwhile.                                    *)
(***************************************************************************)
EXTENDS EdaCandidatesProofs, StreamLemmas

Early == {"validate", "write", "record", "prior", "move", "decision", "stage", "replace", "import"}
Late  == {"sync", "synced", "head", "headed"}

\* Nobody else appends: the version a handler expects is that of the stream,
\* and what it has recorded is its last event.
CountedAt(s, n) ==
    /\ s.at \in Early => s.expected \in {NoVersion, n}
    /\ s.at = "append" => s.expected = n
    /\ s.at \in Late => s.expected + 1 = n

Counted(p) == CountedAt(proc[p], Len(events))

\* A promotion or a revert, from the first file it replaces to the head it
\* registers, and the files it has replaced without a word in the stream.
Replacing(s) == s.op \in {"promote", "revert"}

Unrecorded == {"replace", "record", "append"}

Pending(s) == Replacing(s) /\ s.at \in Unrecorded \cup Late

Written(s) ==
    IF Replacing(s) /\ s.at \in Unrecorded
    THEN DOMAIN s.event.after \ (IF s.at = "replace" THEN DOMAIN s.bundle ELSE {})
    ELSE {}

\* A source is what the stream says, or what the handler is about to record.
Tracking(p) ==
    LET s == proc[p]
    IN  /\ s.at = "replace" =>
            /\ DOMAIN s.bundle \subseteq DOMAIN s.event.after
            /\ \A f \in DOMAIN s.bundle : s.bundle[f] = s.event.after[f]
        /\ \A f \in Files : files[f] \in {Edited, IF f \in Written(s) THEN s.event.after[f] ELSE InStream(f)}
        /\ Replacing(s) /\ s.at \in Late =>
            \A f \in DOMAIN s.event.after : Touching(f) # {} /\ events[Max(Touching(f))] = s.event

HeadRight(head, f) == files[f] = InStream(f) /\ ~Overwritten(f) => head \in HeadsInStream(f)

\* The source an applied candidate was made for.
Basis(s) ==
    LET c == s.candidate  basis == made[c][Target[c]]
    IN  /\ basis # Absent
        /\ s.at \in Recordings \cup {"head"} /\ s.event = Created(c) =>
            /\ basis \in {Edited, InStream(Target[c])}
            /\ files[Target[c]] \in {Edited, basis}

\* The descriptor lags behind a handler that has not reached its end.
Heading(p) ==
    LET s == proc[p]
    IN  /\ \A f \in Files : (Pending(s) => f \notin DOMAIN s.event.after) => HeadRight(descriptor.heads[f], f)
        /\ s.at \notin {"sync", "synced"} => descriptor.version = Len(events)
        /\ s.at = "synced" => s.desc.version = Len(events) /\ s.desc.heads = descriptor.heads
        /\ s.at = "headed" =>
            s.desc.version = Len(events) /\ \A f \in Files : HeadRight(s.desc.heads[f], f)
        /\ s.op = "apply" => Basis(s)
        /\ Pending(s) /\ s.op = "promote" => s.event.after[Target[s.candidate]] = s.candidate

-----------------------------------------------------------------------------
\* Where a thread is says what it does next.
LEMMA PlacesTell ==
    ASSUME NEW p \in Procs, Continue(p)
    PROVE  LET at == proc[p].at
           IN  /\ at \in Early \cup Late \cup {"append", "unlink"}
               /\ at = "validate" => Validate(p)
               /\ at = "write" => Write(p) \/ WriteFails(p)
               /\ at = "record" => ReadSnapshot(p)
               /\ at = "append" => AppendEvent(p) \/ AppendConflict(p)
               /\ at = "sync" => SyncRead(p)
               /\ at = "synced" => SyncWrite(p)
               /\ at = "head" => HeadRead(p)
               /\ at = "headed" => HeadWrite(p)
               /\ at = "prior" => Prior(p)
               /\ at = "move" => Move(p)
               /\ at = "unlink" => Unlink(p)
               /\ at = "decision" => Decision(p)
               /\ at = "stage" => Stage(p) \/ StageFails(p)
               /\ at = "replace" => Replace(p)
               /\ at = "import" => Import(p) \/ ImportSummary(p)
<1> DEFINE at == proc[p].at
<1>1. /\ Validate(p) => at = "validate"
      /\ Write(p) \/ WriteFails(p) => at = "write"
      /\ ReadSnapshot(p) => at = "record"
      /\ AppendEvent(p) \/ AppendConflict(p) => at = "append"
      /\ SyncRead(p) => at = "sync"
      /\ SyncWrite(p) => at = "synced"
      /\ HeadRead(p) => at = "head"
      /\ HeadWrite(p) => at = "headed"
    BY DEF Step, Validate, Write, WriteFails, ReadSnapshot, AppendEvent, AppendConflict, SyncRead,
        SyncWrite, HeadRead, HeadWrite
<1>2. /\ Prior(p) => at = "prior"
      /\ Move(p) => at = "move"
      /\ Unlink(p) => at = "unlink"
      /\ Decision(p) => at = "decision"
      /\ Stage(p) \/ StageFails(p) => at = "stage"
      /\ Replace(p) => at = "replace"
      /\ Import(p) \/ ImportSummary(p) => at = "import"
    BY DEF Step, Prior, Move, Unlink, Decision, Stage, StageFails, Replace, Import, ImportSummary
<1> HIDE DEF at
<1> QED
    BY <1>1, <1>2 DEF Continue, Early, Late, at

\* What is recorded is told by the stream as long as nobody appends.
LEMMA StreamSame ==
    ASSUME events' = events, NEW f \in Files
    PROVE  /\ Touching(f)' = Touching(f) /\ InStream(f)' = InStream(f)
           /\ HeadsInStream(f)' = HeadsInStream(f) /\ (Overwritten(f)' <=> Overwritten(f))
BY DEF Touching, InStream, HeadsInStream, Overwritten, At

\* What an append tells of a source: all, when the event replaces it, and
\* nothing otherwise.
LEMMA StreamAfter ==
    ASSUME TypeOK, NEW e \in EventSet, events' = Append(events, e), NEW f \in Files
    PROVE  /\ e.type \in Replacements /\ f \in DOMAIN e.after =>
                Touching(f)' # {} /\ events'[Max(Touching(f)')] = e /\ InStream(f)' = e.after[f]
           /\ ~(e.type \in Replacements /\ f \in DOMAIN e.after) =>
                /\ Touching(f)' = Touching(f) /\ InStream(f)' = InStream(f)
                /\ HeadsInStream(f)' = HeadsInStream(f) /\ (Overwritten(f)' <=> Overwritten(f))
                /\ Touching(f) # {} => events'[Max(Touching(f))] = events[Max(Touching(f))]
<1> DEFINE n == Len(events) + 1
           replaces(d) == d.type \in Replacements /\ f \in DOMAIN d.after
<1>1. /\ n - 1 \in Nat /\ DOMAIN events = 1 .. n - 1 /\ DOMAIN events' = 1 .. n
      /\ events'[n] = e /\ \A i \in 1 .. n - 1 : events'[i] = events[i]
    BY DEF TypeOK
<1>2. /\ Touching(f) = {i \in 1 .. n - 1 : replaces(events[i])}
      /\ Touching(f)' = {i \in 1 .. n : replaces(events'[i])}
    BY <1>1 DEF Touching, At
<1> HIDE DEF n, replaces
<1>3. CASE replaces(e)
    <2>1. n \in Touching(f)' /\ Touching(f)' \in SUBSET (1 .. n) /\ n \in Nat
        BY <1>1, <1>2, <1>3 DEF n
    <2>2. \A y \in Touching(f)' : y <= n
        BY <2>1
    <2>3. Max(Touching(f)') = n
        BY <2>1, <2>2, LastIs
    <2>4. InStream(f)' = events'[Max(Touching(f)')].after[f]
        BY <2>1 DEF InStream
    <2> QED
        BY <1>1, <1>3, <2>1, <2>3, <2>4 DEF replaces
<1>4. CASE ~replaces(e)
    <2>1. Touching(f)' = Touching(f)
        BY <1>1, <1>2, <1>4 DEF n
    <2>2. Touching(f) # {} => Max(Touching(f)) \in 1 .. n - 1
        <3>1. Touching(f) \in SUBSET (1 .. n - 1)
            BY <1>2
        <3> QED
            BY <1>1, <3>1, LastPosition
    <2>3. Touching(f) # {} => events'[Max(Touching(f))] = events[Max(Touching(f))]
        BY <1>1, <2>2
    <2>4. InStream(f)' = InStream(f) /\ (Overwritten(f)' <=> Overwritten(f))
        BY <2>1, <2>3 DEF InStream, Overwritten
    <2>5. HeadsInStream(f)' = HeadsInStream(f)
        BY <2>1, <2>3 DEF HeadsInStream
    <2> QED
        BY <1>4, <2>1, <2>3, <2>4, <2>5 DEF replaces
<1> QED
    BY <1>3, <1>4

\* A step of the second loop takes one file out of the bundle.
LEMMA ReplaceTells ==
    ASSUME TypeOK, NEW p \in Procs, Replace(p)
    PROVE  \E f \in DOMAIN proc[p].bundle : \E rest \in Bundles :
              LET s == proc[p]  left == [s EXCEPT !.bundle = rest]
              IN  /\ f \in Files /\ files' = [files EXCEPT ![f] = s.bundle[f]]
                  /\ DOMAIN rest = DOMAIN s.bundle \ {f}
                  /\ \A g \in DOMAIN rest : rest[g] = s.bundle[g]
                  /\ \/ Step(p, "replace", left)
                     \/ DOMAIN rest = {} /\ Step(p, "replace", Recording(left, s.event))
<1> DEFINE s == proc[p]
           bundle == s.bundle
           f == IF Target[s.candidate] \in DOMAIN bundle THEN Target[s.candidate]
                ELSE CHOOSE g \in DOMAIN bundle : TRUE
           rest == [g \in DOMAIN bundle \ {f} |-> bundle[g]]
           left == [s EXCEPT !.bundle = rest]
<1>1. /\ Step(p, "replace", IF rest = Nothing THEN Recording(left, s.event) ELSE left)
      /\ files' = [files EXCEPT ![f] = bundle[f]]
    BY DEF Replace
<1>2. s \in ThreadSet /\ bundle \in Bundles /\ DOMAIN bundle # {}
    BY <1>1 DEF TypeOK, ThreadSet, Doing, Step
<1>3. f \in DOMAIN bundle /\ f \in Files
    BY <1>2 DEF Bundles
<1> HIDE DEF f
<1>4. DOMAIN rest = DOMAIN bundle \ {f} /\ \A g \in DOMAIN rest : rest[g] = bundle[g]
    OBVIOUS
<1>5. rest \in Bundles
    <2>1. PICK D \in SUBSET Files : bundle \in [D -> Contents]
        BY <1>2 DEF Bundles
    <2>2. rest \in [D \ {f} -> Contents]
        BY <2>1
    <2> QED
        BY <2>2 DEF Bundles
<1>6. rest = Nothing => DOMAIN rest = {}
    BY DEF Nothing
<1> HIDE DEF rest
<1>7. \/ Step(p, "replace", left)
      \/ DOMAIN rest = {} /\ Step(p, "replace", Recording(left, s.event))
    BY <1>1, <1>6
<1> USE <1>3, <1>5
<1> WITNESS f \in DOMAIN proc[p].bundle
<1> WITNESS rest \in Bundles
<1> QED
    BY <1>1, <1>3, <1>4, <1>7

-----------------------------------------------------------------------------
\* The version goes with what a handler records.
LEMMA RecordingCounts ==
    ASSUME NEW s \in ThreadSet, NEW e, NEW n \in Nat, s.expected \in {NoVersion, n}
    PROVE  CountedAt(Recording(s, e), n)
BY DEF Recording, ThreadSet, CountedAt, Early, Late

LEMMA ContinuationCounts ==
    ASSUME NEW s \in ThreadSet, Doing(s), s.at = "synced", NEW n \in Nat, s.expected + 1 = n
    PROVE  CountedAt(Continuation(s), n)
<1> DEFINE c    == s.candidate
           more == [s EXCEPT !.expected = NoVersion]
           to(at) == [s EXCEPT !.at = at]
           write  == [s EXCEPT !.at = "write", !.expected = s.expected + 1]
<1>1. more \in ThreadSet /\ more.expected = NoVersion
    BY EdaAssumption DEF ThreadSet, NoVersion
<1>2. \/ Continuation(s) = write
      \/ Continuation(s) \in {to("head"), to("unlink")}
      \/ Continuation(s) = Recording(more, Accepted(c))
      \/ Continuation(s) = [more EXCEPT !.at = "import"]
      \/ Continuation(s) = Idle
    BY DEF Continuation
<1>3. CountedAt(write, n)
    BY DEF CountedAt, ThreadSet, Early, Late
<1>4. CountedAt(to("head"), n) /\ CountedAt(to("unlink"), n)
    BY DEF CountedAt, ThreadSet, Early, Late
<1>5. CountedAt([more EXCEPT !.at = "import"], n)
    BY <1>1 DEF CountedAt, ThreadSet, Early, Late
<1>6. CountedAt(Idle, n)
    BY IdleTypes DEF CountedAt, Early, Late
<1> HIDE DEF more
<1>7. CountedAt(Recording(more, Accepted(c)), n)
    BY <1>1, RecordingCounts
<1> QED
    BY <1>2, <1>3, <1>4, <1>5, <1>6, <1>7

LEMMA ContinueCounts ==
    ASSUME TypeOK, NEW p \in Procs, Continue(p), Counted(p)
    PROVE  Counted(p)'
<1> DEFINE s == proc[p]
           c == s.candidate
           n == Len(events)
<1>0. s \in ThreadSet /\ Doing(s) /\ n \in Nat /\ CountedAt(s, n) /\ CountedAt(Idle, n)
    BY IdleTypes DEF TypeOK, Counted, CountedAt, Early, Late
<1>1. ASSUME NEW from, NEW to, Step(p, from, to), CountedAt(to, n), events' = events
      PROVE  Counted(p)'
    <2>1. proc'[p] = to
        BY <1>1 DEF Step, TypeOK
    <2> QED
        BY <1>1, <2>1 DEF Counted
<1>2. ASSUME s.at \in Early PROVE s.expected \in {NoVersion, n}
    BY <1>0, <1>2 DEF CountedAt
<1>3. CASE s.at = "validate"
    BY <1>0, <1>1, <1>2, <1>3, PlacesTell, RecordingCounts DEF Early, Validate
<1>4. CASE s.at = "write"
    <2>1. CASE WriteFails(p)
        <3>1. Step(p, "write", Idle) /\ events' = events
            BY <2>1 DEF WriteFails, Step
        <3> QED
            BY <1>0, <1>1, <3>1
    <2>2. CASE Write(p)
        <3>1. Step(p, "write", Recording(s, Created(c))) /\ events' = events
            BY <2>2 DEF Write, Step
        <3> QED
            BY <1>0, <1>1, <1>2, <1>4, <3>1, RecordingCounts DEF Early
    <2> QED
        BY <1>4, <2>1, <2>2, PlacesTell
<1>5. CASE s.at = "record"
    <2> DEFINE to == [s EXCEPT !.at = "append", !.expected = n]
    <2>1. Step(p, "record", to) /\ events' = events
        BY <1>5, PlacesTell DEF ReadSnapshot
    <2>2. CountedAt(to, n)
        BY <1>0 DEF ThreadSet, CountedAt, Early, Late
    <2> HIDE DEF to
    <2> QED
        BY <1>1, <2>1, <2>2
<1>6. CASE s.at = "append"
    <2>1. AppendEvent(p)
        <3>1. s.expected = n
            BY <1>0, <1>6 DEF CountedAt
        <3> QED
            BY <1>6, <3>1, PlacesTell DEF AppendConflict
    <2> DEFINE to == [s EXCEPT !.at = "sync"]
    <2>2. events' = Append(events, s.event) /\ proc'[p] = to /\ s.expected = n
        BY <2>1 DEF AppendEvent, Step, TypeOK
    <2>3. CountedAt(to, n + 1)
        BY <1>0, <2>2 DEF ThreadSet, CountedAt, Early, Late
    <2>4. Len(events') = n + 1
        BY <1>0, <1>6, <2>2, RecordedTypes, AppendKeeps DEF TypeOK, Recordings
    <2> HIDE DEF n, to
    <2> QED
        BY <2>2, <2>3, <2>4 DEF Counted
<1>7. CASE s.at = "sync"
    <2> DEFINE to == [s EXCEPT !.at = "synced", !.desc = [descriptor EXCEPT !.version = Len(events)]]
    <2>1. Step(p, "sync", to) /\ events' = events
        BY <1>7, PlacesTell DEF SyncRead
    <2>2. CountedAt(to, n)
        BY <1>0, <1>7 DEF ThreadSet, CountedAt, Early, Late
    <2> HIDE DEF to
    <2> QED
        BY <1>1, <2>1, <2>2
<1>8. CASE s.at = "synced"
    <2>1. Step(p, "synced", Continuation(s)) /\ events' = events
        BY <1>8, PlacesTell DEF SyncWrite
    <2>2. s.expected + 1 = n
        BY <1>0, <1>8 DEF CountedAt, Late
    <2> QED
        BY <1>0, <1>1, <1>8, <2>1, <2>2, ContinuationCounts
<1>9. CASE s.at = "head"
    <2>1. PICK desc : /\ Step(p, "head", Idle) \/ Step(p, "head", [s EXCEPT !.at = "headed", !.desc = desc])
                      /\ events' = events
        BY <1>9, PlacesTell DEF HeadRead
    <2> DEFINE to == [s EXCEPT !.at = "headed", !.desc = desc]
    <2>2. CountedAt(to, n)
        BY <1>0, <1>9 DEF ThreadSet, CountedAt, Early, Late
    <2> HIDE DEF to
    <2> QED
        BY <1>0, <1>1, <2>1, <2>2 DEF to
<1>10. CASE s.at \in {"headed", "unlink"}
    <2>1. Step(p, s.at, Idle) /\ events' = events
        BY <1>10, PlacesTell DEF HeadWrite, Unlink
    <2> QED
        BY <1>0, <1>1, <2>1
<1>11. CASE s.at \in {"prior", "move"}
    <2>1. /\ events' = events
          /\ Step(p, s.at, Idle) \/ \E e : Step(p, s.at, Recording(s, e))
        BY <1>11, PlacesTell DEF Prior, Move
    <2> QED
        BY <1>0, <1>1, <1>2, <1>11, <2>1, RecordingCounts DEF Early
<1>12. CASE s.at \in {"decision", "stage"}
    <2>1. PICK bundle, e :
            /\ events' = events
            /\ \/ Step(p, s.at, Idle)
               \/ Step(p, s.at, [s EXCEPT !.at = "stage"])
               \/ Step(p, s.at, [s EXCEPT !.at = "replace", !.bundle = bundle, !.event = e])
        BY <1>12, PlacesTell DEF Decision, Stage, StageFails
    <2> DEFINE stage   == [s EXCEPT !.at = "stage"]
               replace == [s EXCEPT !.at = "replace", !.bundle = bundle, !.event = e]
    <2>2. CountedAt(stage, n) /\ CountedAt(replace, n)
        BY <1>0, <1>2, <1>12 DEF ThreadSet, CountedAt, Early, Late
    <2> HIDE DEF stage, replace
    <2> QED
        BY <1>0, <1>1, <2>1, <2>2 DEF stage, replace
<1>13. CASE s.at = "replace"
    <2>1. PICK rest \in Bundles :
            \/ Step(p, "replace", [s EXCEPT !.bundle = rest])
            \/ Step(p, "replace", Recording([s EXCEPT !.bundle = rest], s.event))
        BY <1>13, PlacesTell, ReplaceTells
    <2> DEFINE left == [s EXCEPT !.bundle = rest]
    <2>2. left \in ThreadSet /\ left.expected \in {NoVersion, n} /\ CountedAt(left, n)
        BY <1>0, <1>2, <1>13 DEF ThreadSet, CountedAt, Early, Late
    <2> HIDE DEF left
    <2> QED
        BY <1>0, <1>1, <1>13, <2>1, <2>2, RecordingCounts, PlacesTell DEF left, Replace
<1>14. CASE s.at = "import"
    <2>1. CASE ImportSummary(p)
        <3> DEFINE more == [s EXCEPT !.expected = NoVersion]
        <3>1. Step(p, "import", Recording(more, Imported)) /\ events' = events
            BY <2>1 DEF ImportSummary
        <3>2. more \in ThreadSet /\ more.expected \in {NoVersion, n}
            BY <1>0, EdaAssumption DEF ThreadSet, NoVersion
        <3> HIDE DEF more
        <3> QED
            BY <1>0, <1>1, <3>1, <3>2, RecordingCounts
    <2>2. CASE Import(p)
        <3>1. PICK d \in s.todo :
                LET next == [s EXCEPT !.todo = @ \ {d}, !.candidate = d]
                IN  /\ events' = events
                    /\ Step(p, "import", next) \/ Step(p, "import", Recording(next, Created(d)))
            BY <2>2 DEF Import
        <3> DEFINE next == [s EXCEPT !.todo = @ \ {d}, !.candidate = d]
        <3>2. next \in ThreadSet /\ next.expected \in {NoVersion, n} /\ CountedAt(next, n)
            BY <1>0, <1>2, <1>14 DEF ThreadSet, CountedAt, Early, Late
        <3> HIDE DEF next
        <3> QED
            BY <1>0, <1>1, <3>1, <3>2, RecordingCounts DEF next
    <2> QED
        BY <1>14, <2>1, <2>2, PlacesTell
<1>15. s.at \in Early \cup Late \cup {"append", "unlink"}
    BY PlacesTell
<1> HIDE DEF s
<1> QED
    BY <1>3, <1>4, <1>5, <1>6, <1>7, <1>8, <1>9, <1>10, <1>11, <1>12, <1>13, <1>14, <1>15 DEF Early, Late

\* A handler starts with the version its client has seen, or none; a revert
\* with what it takes back, and a change with the source it is made for.
LEMMA HandlerTells ==
    ASSUME TypeOK, NEW p \in Procs, Handler(p)
    PROVE  LET t == proc'[p]  c == t.candidate
           IN  /\ t.expected \in {NoVersion, Len(events)}
               /\ descriptor' = descriptor
               /\ \/ /\ t.op \notin {"apply", "revert"} /\ made' = made
                     /\ t.at \in {"move", "prior", "import", "decision", "validate"}
                  \/ /\ t.op = "apply" /\ t.at \in {"validate", "write"}
                     /\ c \in Candidates /\ made'[c] = files /\ files[Target[c]] # Absent
                  \/ /\ t.op = "revert" /\ t.at = "replace" /\ made' = made
                     /\ t.event.after = t.bundle
<1> DEFINE t == proc'[p]
           Version == t.expected \in {NoVersion, Len(events)}
<1>0. proc \in [Procs -> ThreadSet] /\ p \in Procs
    BY DEF TypeOK
<1>1. ASSUME NEW c \in Candidates, Delete(p, c)
      PROVE  t.at = "move" /\ t.op = "delete" /\ Version /\ made' = made
    BY <1>0, <1>1 DEF Delete, Begin, Step, Idle
<1>2. ASSUME NEW c \in Candidates, Promote(p, c)
      PROVE  t.at = "decision" /\ t.op = "promote" /\ Version /\ made' = made
    BY <1>0, <1>2 DEF Promote, Begin, Step, Idle
<1>3. ASSUME NEW c \in Candidates, NEW op \in {"dry_run", "apply"}, Apply(p, c, op)
      PROVE  /\ t.at \in {"validate", "write"} /\ t.op = op /\ t.candidate = c /\ Version
             /\ op = "dry_run" => t.at = "validate" /\ made' = made
             /\ op = "apply" => made'[c] = files
             /\ files[Target[c]] # Absent
    <2>1. /\ t.at \in {"validate", "write"} /\ t.op = op /\ t.candidate = c /\ Version
          /\ op = "dry_run" => t.at = "validate"
        BY <1>0, <1>3 DEF Apply, Begin, Step, Idle
    <2>2. /\ made' = IF op = "apply" THEN [made EXCEPT ![c] = files] ELSE made
          /\ files[Target[c]] # Absent
        BY <1>3 DEF Apply
    <2> QED
        BY <2>1, <2>2 DEF TypeOK
<1>4. ASSUME NEW c \in Candidates, NEW op \in {"accept", "reject"}, Decide(p, c, op)
      PROVE  t.at = "prior" /\ t.op = op /\ Version /\ made' = made
    BY <1>0, <1>4 DEF Decide, Begin, Step, Idle
<1>5. ASSUME NEW i \in At({"EdaRevisionPromoted"}), Revert(p, i)
      PROVE  t.at = "replace" /\ t.op = "revert" /\ t.event.after = t.bundle /\ Version /\ made' = made
    BY <1>0, <1>5 DEF Revert, Begin, Step, Idle, Reverted
<1>6. ASSUME Migrate(p)
      PROVE  t.at = "import" /\ t.op = "migrate" /\ Version /\ made' = made
    BY <1>0, <1>6 DEF Migrate, Begin, Step, Idle
<1>7. descriptor' = descriptor
    BY DEF Handler, Delete, Promote, Apply, Decide, Revert, Migrate
<1> HIDE DEF t, Version
<1>8. /\ Version
      /\ \/ /\ t.op \notin {"apply", "revert"} /\ made' = made
            /\ t.at \in {"move", "prior", "import", "decision", "validate"}
         \/ /\ t.op = "apply" /\ t.at \in {"validate", "write"}
            /\ t.candidate \in Candidates /\ made'[t.candidate] = files
            /\ files[Target[t.candidate]] # Absent
         \/ /\ t.op = "revert" /\ t.at = "replace" /\ made' = made
            /\ t.event.after = t.bundle
    BY <1>1, <1>2, <1>3, <1>4, <1>5, <1>6 DEF Handler
<1> QED
    BY <1>7, <1>8 DEF t, Version

\* A step of the system, seen from its only client.
LEMMA AloneSteps ==
    ASSUME TypeOK, NEW p \in Procs, Procs = {p}, Crashes = FALSE, [Next]_vars
    PROVE  \/ UNCHANGED vars
           \/ Handler(p)
           \/ Continue(p)
           \/ \E f \in Files : Edit(f)
BY DEF Next, Crash

LEMMA CountedStep ==
    ASSUME TypeOK, NEW p \in Procs, Procs = {p}, Crashes = FALSE, Counted(p), [Next]_vars
    PROVE  Counted(p)'
<1>1. ASSUME proc' = proc, events' = events
      PROVE  Counted(p)'
    BY <1>1 DEF Counted
<1>2. CASE Handler(p)
    <2>1. /\ proc'[p].at \in Early /\ events' = events
          /\ proc'[p].expected \in {NoVersion, Len(events)}
        BY <1>2, HandlerMoves, HandlerTells DEF Early
    <2> QED
        BY <2>1 DEF Counted, CountedAt, Early, Late
<1>3. CASE Continue(p)
    BY <1>3, ContinueCounts
<1>4. ASSUME NEW f \in Files, Edit(f) PROVE Counted(p)'
    BY <1>1, <1>4 DEF Edit
<1> QED
    BY <1>1, <1>2, <1>3, <1>4, AloneSteps DEF vars

-----------------------------------------------------------------------------
\* Sources change by the second loop of a promotion or a revert, the stream
\* by an append.
LEMMA SourcesStay ==
    ASSUME TypeOK, NEW p \in Procs, Continue(p)
    PROVE  /\ proc[p].at # "replace" => files' = files
           /\ proc[p].at # "append" => events' = events
<1>1. \/ proc[p].at = "replace"
      \/ files' = files
    BY DEF Continue, Validate, Write, WriteFails, ReadSnapshot, AppendEvent, AppendConflict, SyncRead,
        SyncWrite, HeadRead, HeadWrite, Prior, Move, Unlink, Decision, Stage, StageFails, Replace, Step,
        Import, ImportSummary
<1>2. \/ proc[p].at = "append"
      \/ events' = events
    BY DEF Continue, Validate, Write, WriteFails, ReadSnapshot, AppendEvent, AppendConflict, SyncRead,
        SyncWrite, HeadRead, HeadWrite, Prior, Move, Unlink, Decision, Stage, StageFails, Replace, Step,
        Import, ImportSummary
<1> QED
    BY <1>1, <1>2

\* A promotion or a revert that records goes straight to its end.
LEMMA ReplacingMoves ==
    ASSUME TypeOK, NEW p \in Procs, Continue(p), Counted(p), Replacing(proc[p])
    PROVE  LET s == proc[p]  t == proc'[p]
           IN  /\ s.at \in {"decision", "stage", "replace", "record", "append", "sync", "synced", "head", "headed"}
               /\ s.at \in {"record", "append", "sync", "synced", "head"} =>
                    t.op = s.op /\ t.candidate = s.candidate /\ t.event = s.event
               /\ s.at = "record" => t.at = "append"
               /\ s.at = "append" => t.at = "sync" /\ events' = Append(events, s.event)
               /\ s.at = "sync" => t.at = "synced"
               /\ s.at = "synced" => t.at = "head"
               /\ s.at = "head" => t.at = "headed"
               /\ s.at = "headed" => t = Idle
               /\ s.at = "decision" => t.at = "stage" \/ t = Idle
               /\ s.at = "stage" => Stage(p) \/ t = Idle
<1> DEFINE s == proc[p]
           t == proc'[p]
           Goes(at) == t.at = at /\ t.op = s.op /\ t.candidate = s.candidate /\ t.event = s.event
<1>0. s \in ThreadSet /\ Doing(s) /\ Replacing(s) /\ proc \in [Procs -> ThreadSet]
    BY DEF TypeOK
<1>1. s.at = "record" => Goes("append")
    <2> SUFFICES ASSUME s.at = "record" PROVE Goes("append")
        OBVIOUS
    <2>1. PICK x : proc' = [proc EXCEPT ![p] = [s EXCEPT !.at = "append", !.expected = x]]
        BY <1>0, PlacesTell DEF ReadSnapshot, Step
    <2> DEFINE to == [s EXCEPT !.at = "append", !.expected = x]
    <2>2. to.at = "append" /\ to.op = s.op /\ to.candidate = s.candidate /\ to.event = s.event
        BY <1>0 DEF ThreadSet
    <2>3. t = to
        BY <1>0, <2>1
    <2> QED
        BY <2>2, <2>3
<1>2. s.at = "append" => Goes("sync") /\ events' = Append(events, s.event)
    <2>1. s.at = "append" => AppendEvent(p)
        BY PlacesTell DEF Counted, CountedAt, AppendConflict
    <2> QED
        BY <1>0, <2>1 DEF AppendEvent, Step, ThreadSet
<1>3. s.at = "sync" => Goes("synced")
    <2> SUFFICES ASSUME s.at = "sync" PROVE Goes("synced")
        OBVIOUS
    <2>1. PICK x : proc' = [proc EXCEPT ![p] = [s EXCEPT !.at = "synced", !.desc = x]]
        BY <1>0, PlacesTell DEF SyncRead, Step
    <2> DEFINE to == [s EXCEPT !.at = "synced", !.desc = x]
    <2>2. to.at = "synced" /\ to.op = s.op /\ to.candidate = s.candidate /\ to.event = s.event
        BY <1>0 DEF ThreadSet
    <2>3. t = to
        BY <1>0, <2>1
    <2> QED
        BY <2>2, <2>3
<1>4. s.at = "synced" => Goes("head")
    <2>1. Continuation(s) = [s EXCEPT !.at = "head"]
        BY <1>0 DEF Continuation, Replacing
    <2>2. s.at = "synced" => proc' = [proc EXCEPT ![p] = Continuation(s)]
        BY PlacesTell DEF SyncWrite, Step
    <2> QED
        BY <1>0, <2>1, <2>2 DEF ThreadSet
<1>5. s.at = "head" => Goes("headed")
    <2> SUFFICES ASSUME s.at = "head" PROVE Goes("headed")
        OBVIOUS
    <2>1. PICK x : proc' = [proc EXCEPT ![p] = [s EXCEPT !.at = "headed", !.desc = x]]
        BY <1>0, PlacesTell DEF HeadRead, Replacing, Step
    <2> DEFINE to == [s EXCEPT !.at = "headed", !.desc = x]
    <2>2. to.at = "headed" /\ to.op = s.op /\ to.candidate = s.candidate /\ to.event = s.event
        BY <1>0 DEF ThreadSet
    <2>3. t = to
        BY <1>0, <2>1
    <2> QED
        BY <2>2, <2>3
<1>6. s.at = "headed" => t = Idle
    BY <1>0, PlacesTell DEF HeadWrite, Step
<1>7. s.at = "decision" => t.at = "stage" \/ t = Idle
    BY <1>0, PlacesTell DEF Decision, Step, ThreadSet
<1>8. s.at = "stage" => Stage(p) \/ t = Idle
    BY <1>0, PlacesTell DEF StageFails, Step
<1>9. s.at \in {"decision", "stage", "replace", "record", "append", "sync", "synced", "head", "headed"}
    BY <1>0, PlacesTell DEF Doing, Replacing, Recordings, Early, Late
<1> HIDE DEF s, t
<1> QED
    BY <1>1, <1>2, <1>3, <1>4, <1>5, <1>6, <1>7, <1>8, <1>9 DEF s, t

\* Other handlers do not become promotions or reverts.
LEMMA OthersReplaceNothing ==
    ASSUME TypeOK, TypeOK', NEW p \in Procs, Continue(p), ~Replacing(proc[p])
    PROVE  ~Replacing(proc'[p]) /\ proc'[p].at # "replace" /\ proc[p].at # "replace"
<1>1. ~Replacing(proc'[p])
    BY Moves DEF Replacing, Same
<1>2. Doing(proc'[p]) /\ Doing(proc[p])
    BY DEF TypeOK
<1> QED
    BY <1>1, <1>2 DEF Doing, Recordings, Replacing

\* What a promotion or a revert is about to record.
LEMMA PendingEvent ==
    ASSUME NEW s \in ThreadSet, Doing(s), Pending(s)
    PROVE  /\ s.candidate \in Candidates /\ s.event \in EventSet
           /\ s.event.type \in Replacements /\ s.event.candidate = s.candidate
           /\ DOMAIN s.event.after \subseteq Files /\ Target[s.candidate] \in DOMAIN s.event.after
           /\ s.event.type = "EdaRevisionPromoted" <=> s.op = "promote"
           /\ s.event.after \in Bundles
<1> DEFINE c == s.candidate
<1>1. \/ c \in Candidates /\ s.event \in Promotions(c) /\ s.op = "promote"
      \/ c \in Candidates /\ s.event \in Reversals(c) /\ s.op = "revert"
    BY DEF Doing, Pending, Replacing, Unrecorded, Late, Recordings
<1>2. c \in Candidates /\ s.event \in EventsOf(c)
    BY <1>1 DEF EventsOf
<1>3. s.event \in EventSet
    BY <1>2, EventTypes
<1>4. /\ s.event.type \in Replacements /\ s.event.candidate = c
      /\ s.event.after \in Bundles /\ Target[c] \in DOMAIN s.event.after
      /\ s.event.type = "EdaRevisionPromoted" <=> s.op = "promote"
    BY <1>1 DEF Promotions, Reversals, Replacements
<1>5. DOMAIN s.event.after \subseteq Files
    BY <1>4 DEF Bundles
<1> QED
    BY <1>2, <1>3, <1>4, <1>5

\* The files of a promotion or a revert that are written follow its event,
\* the others the stream, until the event is there.
LEMMA TrackingStep ==
    ASSUME TypeOK, TypeOK', NEW p \in Procs, Procs = {p}, Crashes = FALSE,
           Counted(p), Tracking(p), [Next]_vars
    PROVE  Tracking(p)'
<1> DEFINE s == proc[p]
           t == proc'[p]
<1>0. /\ s \in ThreadSet /\ Doing(s) /\ t \in ThreadSet /\ Doing(t)
      /\ proc \in [Procs -> ThreadSet] /\ files \in [Files -> Contents]
    BY DEF TypeOK
<1>1. ASSUME events' = events, files' = files,
             \A f \in Files : f \in Written(t) => f \in Written(s) /\ t.event = s.event,
             \A f \in Files : f \in Written(s) => f \in Written(t),
             t.at = "replace" =>
                /\ DOMAIN t.bundle \subseteq DOMAIN t.event.after
                /\ \A f \in DOMAIN t.bundle : t.bundle[f] = t.event.after[f],
             Replacing(t) /\ t.at \in Late => Replacing(s) /\ s.at \in Late /\ t.event = s.event
      PROVE  Tracking(p)'
    <2>1. \A f \in Files : files'[f] \in {Edited, IF f \in Written(t) THEN t.event.after[f] ELSE InStream(f)'}
        BY <1>1, StreamSame DEF Tracking
    <2>2. ASSUME Replacing(t), t.at \in Late, NEW f \in DOMAIN t.event.after
          PROVE  Touching(f)' # {} /\ events'[Max(Touching(f)')] = t.event
        <3>1. f \in Files
            BY <1>0, <2>2, PendingEvent DEF Pending
        <3>2. Touching(f)' = Touching(f)
            BY <1>1, <3>1, StreamSame
        <3> QED
            BY <1>1, <2>2, <3>2 DEF Tracking
    <2> QED
        BY <1>1, <2>1, <2>2 DEF Tracking
<1>2. CASE UNCHANGED vars
    BY <1>1, <1>2 DEF vars, Tracking
<1>3. ASSUME NEW g \in Files, Edit(g) PROVE Tracking(p)'
    <2>1. events' = events /\ t = s /\ files' = [files EXCEPT ![g] = Edited]
        BY <1>3 DEF Edit
    <2>2. \A f \in Files : files'[f] \in {Edited, IF f \in Written(t) THEN t.event.after[f] ELSE InStream(f)'}
        BY <1>0, <2>1, StreamSame DEF Tracking
    <2>3. ASSUME Replacing(t), t.at \in Late, NEW f \in DOMAIN t.event.after
          PROVE  Touching(f)' # {} /\ events'[Max(Touching(f)')] = t.event
        <3>1. f \in Files
            BY <1>0, <2>3, PendingEvent DEF Pending
        <3>2. Touching(f)' = Touching(f)
            BY <2>1, <3>1, StreamSame
        <3> QED
            BY <2>1, <2>3, <3>2 DEF Tracking
    <2> QED
        BY <2>1, <2>2, <2>3 DEF Tracking
<1>4. CASE Handler(p)
    <2>1. s.at = "idle" /\ events' = events /\ files' = files
        BY <1>4, HandlerMoves
    <2>2. Written(s) = {}
        BY <2>1 DEF Written, Unrecorded
    <2>3. \/ t.at \in {"move", "prior", "import", "decision", "validate", "write"}
          \/ t.at = "replace" /\ t.event.after = t.bundle
        BY <1>4, HandlerTells
    <2>4. Written(t) = {}
        BY <2>3 DEF Written, Unrecorded
    <2>5. t.at \notin Late /\ (t.at = "replace" => t.event.after = t.bundle)
        BY <2>3 DEF Late
    <2> HIDE DEF s, t
    <2> QED
        BY <1>1, <2>1, <2>2, <2>4, <2>5
<1>5. CASE Continue(p) /\ ~Replacing(s)
    <2>1. ~Replacing(t) /\ t.at # "replace" /\ s.at # "replace"
        BY <1>5, OthersReplaceNothing
    <2>2. Written(s) = {} /\ Written(t) = {} /\ files' = files
        BY <1>5, <2>1, SourcesStay DEF Written
    <2>3. CASE events' = events
        BY <1>1, <2>1, <2>2, <2>3
    <2>4. CASE events' # events
        <3>1. s.at = "append" /\ AppendEvent(p)
            BY <1>5, <2>4, SourcesStay, PlacesTell DEF AppendConflict
        <3>2. s.event \in EventSet /\ events' = Append(events, s.event)
            BY <1>0, <3>1, RecordedTypes DEF AppendEvent, Recordings
        <3>3. s.event.type \notin Replacements
            BY <1>0, <1>5, <3>1 DEF Doing, Replacing, Recordings, Replacements, Validated, Created,
                Accepted, Rejected, Deleted, Imported
        <3>4. \A f \in Files : InStream(f)' = InStream(f)
            BY <3>2, <3>3, StreamAfter
        <3>5. \A f \in Files : files'[f] \in {Edited, IF f \in Written(t) THEN t.event.after[f] ELSE InStream(f)'}
            BY <2>2, <3>4 DEF Tracking
        <3> QED
            BY <2>1, <3>5 DEF Tracking
    <2> QED
        BY <2>3, <2>4
<1>6. CASE Continue(p) /\ Replacing(s)
    <2>1. CASE s.at \in {"decision", "stage"}
        <3>1. events' = events /\ files' = files
            BY <1>6, <2>1, SourcesStay
        <3>2. \/ t.at \in {"stage", "idle"}
              \/ t.at = "replace" /\ t.event.after = t.bundle
            <4>1. CASE Stage(p)
                <5>1. t.event.after = t.bundle
                    BY <4>1, StageSteps
                <5>2. t.at = "replace"
                    BY <1>0, <4>1 DEF Stage, Step, ThreadSet
                <5> QED
                    BY <5>1, <5>2
            <4> QED
                BY <1>6, <2>1, <4>1, ReplacingMoves, IdleTypes
        <3>3. Written(t) = {} /\ Written(s) = {}
            BY <2>1, <3>2 DEF Written, Unrecorded
        <3>4. t.at \notin Late /\ (t.at = "replace" => t.event.after = t.bundle)
            BY <3>2 DEF Late
        <3> HIDE DEF s, t
        <3> QED
            BY <1>1, <3>1, <3>3, <3>4
    <2>2. CASE s.at = "record"
        <3>1. events' = events /\ files' = files /\ t.at = "append" /\ t.op = s.op /\ t.event = s.event
            BY <1>6, <2>2, SourcesStay, ReplacingMoves
        <3>2. Written(t) = Written(s)
            BY <2>2, <3>1 DEF Written, Unrecorded, Replacing
        <3>3. t.at \notin Late
            BY <3>1 DEF Late
        <3> HIDE DEF s, t
        <3> QED
            BY <1>1, <3>1, <3>2, <3>3
    <2>3. CASE s.at \in Late
        <3>1. events' = events /\ files' = files
            BY <1>6, <2>3, SourcesStay DEF Late
        <3>2. (t.at \in Late /\ t.op = s.op /\ t.event = s.event) \/ t = Idle
            BY <1>6, <2>3, ReplacingMoves DEF Late
        <3>3. Written(t) = {} /\ Written(s) = {} /\ t.at # "replace" /\ Idle.at \notin Late
            BY <2>3, <3>2, IdleTypes DEF Written, Unrecorded, Late
        <3> HIDE DEF s, t
        <3> QED
            BY <1>1, <1>6, <2>3, <3>1, <3>2, <3>3 
    <2>4. CASE s.at = "append"
        <3>1. /\ files' = files /\ events' = Append(events, s.event)
              /\ t.at = "sync" /\ t.op = s.op /\ t.event = s.event
            BY <1>6, <2>4, SourcesStay, ReplacingMoves
        <3>2. s.event \in EventSet /\ s.event.type \in Replacements /\ DOMAIN s.event.after \subseteq Files
            BY <1>0, <1>6, <2>4, PendingEvent DEF Pending, Unrecorded
        <3>3. Written(s) = DOMAIN s.event.after /\ Written(t) = {}
            BY <1>6, <2>4, <3>1 DEF Written, Unrecorded
        <3>4. ASSUME NEW f \in Files PROVE files'[f] \in {Edited, InStream(f)'}
            <4>1. CASE f \in DOMAIN s.event.after
                <5>1. InStream(f)' = s.event.after[f]
                    BY <3>1, <3>2, <4>1, StreamAfter
                <5> QED
                    BY <3>1, <3>3, <4>1, <5>1 DEF Tracking
            <4>2. CASE f \notin DOMAIN s.event.after
                <5>1. InStream(f)' = InStream(f)
                    BY <3>1, <3>2, <4>2, StreamAfter
                <5> QED
                    BY <3>1, <3>3, <4>2, <5>1 DEF Tracking
            <4> QED
                BY <4>1, <4>2
        <3>5. \A f \in DOMAIN t.event.after : Touching(f)' # {} /\ events'[Max(Touching(f)')] = t.event
            BY <3>1, <3>2, StreamAfter
        <3>6. \A f \in Files : f \notin Written(t)
            BY <3>3
        <3> QED
            BY <3>1, <3>4, <3>5, <3>6 DEF Tracking
    <2>5. CASE s.at = "replace"
        <3>1. PICK g \in DOMAIN s.bundle, rest \in Bundles :
                LET left == [s EXCEPT !.bundle = rest]
                IN  /\ g \in Files /\ files' = [files EXCEPT ![g] = s.bundle[g]]
                    /\ DOMAIN rest = DOMAIN s.bundle \ {g}
                    /\ \A f \in DOMAIN rest : rest[f] = s.bundle[f]
                    /\ \/ Step(p, "replace", left)
                       \/ DOMAIN rest = {} /\ Step(p, "replace", Recording(left, s.event))
            BY <1>6, <2>5, PlacesTell, ReplaceTells
        <3> DEFINE left == [s EXCEPT !.bundle = rest]
        <3>2. /\ left \in ThreadSet /\ left.at = "replace" /\ left.bundle = rest
              /\ left.op = s.op /\ left.event = s.event
            BY <1>0, <2>5 DEF ThreadSet
        <3>3. \/ t = left
              \/ DOMAIN rest = {} /\ t = Recording(left, s.event)
            BY <1>0, <3>1 DEF Step
        <3> HIDE DEF left
        <3>4. s.event \in EventSet
            BY <1>0, <1>6, <2>5, PendingEvent DEF Pending, Unrecorded
        <3>5. /\ t.op = s.op /\ t.event = s.event
              /\ \/ t.at = "replace" /\ t.bundle = rest
                 \/ DOMAIN rest = {} /\ t.at \in {"record", "append"}
            BY <3>2, <3>3, <3>4, RecordingTypes
        <3>6. /\ DOMAIN s.bundle \subseteq DOMAIN s.event.after
              /\ \A f \in DOMAIN s.bundle : s.bundle[f] = s.event.after[f]
            BY <2>5 DEF Tracking
        <3>7. Written(s) = DOMAIN s.event.after \ DOMAIN s.bundle
            BY <1>6, <2>5 DEF Written, Unrecorded
        <3>8. Written(t) = DOMAIN s.event.after \ DOMAIN rest
            BY <1>6, <3>5 DEF Written, Unrecorded, Replacing
        <3>9. events' = events
            BY <1>6, <2>5, SourcesStay
        <3>10. ASSUME NEW f \in Files
               PROVE  files'[f] \in {Edited, IF f \in Written(t) THEN t.event.after[f] ELSE InStream(f)'}
            <4>1. InStream(f)' = InStream(f)
                BY <3>9, StreamSame
            <4>2. CASE f = g
                <5>1. files'[f] = s.event.after[f] /\ f \in Written(t)
                    BY <1>0, <3>1, <3>6, <3>8, <4>2
                <5> QED
                    BY <3>5, <5>1
            <4>3. CASE f # g
                <5>1. files'[f] = files[f] /\ (f \in Written(t) <=> f \in Written(s))
                    BY <1>0, <3>1, <3>7, <3>8, <4>3
                <5> QED
                    BY <3>5, <4>1, <5>1 DEF Tracking
            <4> QED
                BY <4>2, <4>3
        <3>11. t.at = "replace" =>
                /\ DOMAIN t.bundle \subseteq DOMAIN t.event.after
                /\ \A f \in DOMAIN t.bundle : t.bundle[f] = t.event.after[f]
            BY <3>1, <3>5, <3>6
        <3>12. t.at \notin Late
            BY <3>5 DEF Late
        <3> HIDE DEF s, t
        <3> QED
            BY <3>10, <3>11, <3>12 DEF Tracking, t
    <2> QED
        BY <1>6, <2>1, <2>2, <2>3, <2>4, <2>5, ReplacingMoves DEF Late
<1> QED
    BY <1>2, <1>3, <1>4, <1>5, <1>6, AloneSteps

-----------------------------------------------------------------------------
\* A head stays right while the stream says the same of its source and
\* nobody but an editor changes it.
LEMMA HeadStays ==
    ASSUME NEW p \in Procs, TypeOK, Tracking(p), NEW f \in Files, f \notin Written(proc[p]),
           files'[f] = files[f] \/ Edit(f),
           InStream(f)' = InStream(f), HeadsInStream(f)' = HeadsInStream(f),
           Overwritten(f)' <=> Overwritten(f),
           NEW head, HeadRight(head, f)
    PROVE  HeadRight(head, f)'
<1>1. files'[f] = InStream(f) => files[f] = InStream(f)
    <2>1. CASE files'[f] = files[f]
        BY <2>1
    <2>2. CASE Edit(f)
        <3>1. files'[f] = Edited /\ files[f] # Edited /\ files[f] \in {Edited, InStream(f)}
            BY <2>2 DEF Edit, TypeOK, Tracking
        <3> QED
            BY <3>1
    <2> QED
        BY <2>1, <2>2
<1> QED
    BY <1>1 DEF HeadRight

\* The stream says of a source what it said, unless its replacement is
\* recorded.
LEMMA StreamSays ==
    ASSUME TypeOK, NEW p \in Procs, Counted(p), Continue(p), NEW f \in Files,
           Replacing(proc[p]) => f \notin DOMAIN proc[p].event.after
    PROVE  /\ InStream(f)' = InStream(f) /\ HeadsInStream(f)' = HeadsInStream(f)
           /\ Overwritten(f)' <=> Overwritten(f)
<1> DEFINE s == proc[p]
<1>1. CASE events' = events
    BY <1>1, StreamSame
<1>2. CASE events' # events
    <2>1. s.at = "append" /\ AppendEvent(p) /\ s \in ThreadSet /\ Doing(s)
        BY <1>2, SourcesStay, PlacesTell DEF AppendConflict, TypeOK
    <2>2. s.event \in EventSet /\ events' = Append(events, s.event)
        BY <2>1, RecordedTypes DEF AppendEvent, Recordings
    <2>3. ~(s.event.type \in Replacements /\ f \in DOMAIN s.event.after)
        <3>1. CASE Replacing(s)
            BY <3>1
        <3>2. CASE ~Replacing(s)
            BY <2>1, <3>2 DEF Doing, Replacing, Recordings, Replacements, Validated, Created,
                Accepted, Rejected, Deleted, Imported
        <3> QED
            BY <3>1, <3>2
    <2> QED
        BY <2>2, <2>3, StreamAfter
<1> QED
    BY <1>1, <1>2

\* The descriptor and the sources of the candidates change in few places.
LEMMA DescriptorSteps ==
    ASSUME TypeOK, NEW p \in Procs, Continue(p)
    PROVE  /\ descriptor' = IF proc[p].at \in {"synced", "headed"} THEN proc[p].desc ELSE descriptor
           /\ made' = made \/ Write(p)
<1>1. proc[p].at \in {"synced", "headed"} => descriptor' = proc[p].desc
    BY PlacesTell DEF SyncWrite, HeadWrite
<1>2. proc[p].at \notin {"synced", "headed"} => descriptor' = descriptor
    BY DEF Continue, Validate, Write, WriteFails, ReadSnapshot, AppendEvent, AppendConflict, SyncRead,
        SyncWrite, HeadRead, HeadWrite, Prior, Move, Unlink, Decision, Stage, StageFails, Replace, Step,
        Import, ImportSummary
<1>3. made' = made \/ Write(p)
    BY DEF Continue, Validate, WriteFails, ReadSnapshot, AppendEvent, AppendConflict, SyncRead,
        SyncWrite, HeadRead, HeadWrite, Prior, Move, Unlink, Decision, Stage, StageFails, Replace, Step,
        Import, ImportSummary
<1> QED
    BY <1>1, <1>2, <1>3

\* The places that only a step of the recording itself reaches.
Behind == {"sync", "synced", "headed"}

LEMMA RecordingPlaces ==
    ASSUME NEW s \in ThreadSet, NEW e
    PROVE  Recording(s, e).at \notin Behind
BY DEF Recording, ThreadSet, Behind

LEMMA ContinuationPlaces ==
    ASSUME NEW s \in ThreadSet
    PROVE  Continuation(s).at \notin Behind
<1> DEFINE more == [s EXCEPT !.expected = NoVersion]
           to(at) == [s EXCEPT !.at = at]
           write  == [s EXCEPT !.at = "write", !.expected = s.expected + 1]
           import == [more EXCEPT !.at = "import"]
           accept == Recording(more, Accepted(s.candidate))
<1>1. more \in ThreadSet
    BY EdaAssumption DEF ThreadSet, NoVersion
<1>2. Continuation(s) \in {write, to("head"), to("unlink"), accept, import, Idle}
    BY DEF Continuation
<1>3. write.at = "write" /\ to("head").at = "head" /\ to("unlink").at = "unlink"
    BY DEF ThreadSet
<1>4. import.at = "import"
    BY DEF ThreadSet
<1> HIDE DEF more
<1>5. accept.at \notin Behind
    BY <1>1, RecordingPlaces
<1> HIDE DEF to, write, import, accept
<1> QED
    BY <1>2, <1>3, <1>4, <1>5, IdleTypes DEF Behind

\* What a handler does about the descriptor, one place after the other.
LEMMA SyncSteps ==
    ASSUME TypeOK, NEW p \in Procs, Counted(p), Continue(p)
    PROVE  LET s == proc[p]  t == proc'[p]
           IN  /\ s.at = "append" <=> t.at = "sync"
               /\ s.at = "sync" <=> t.at = "synced"
               /\ t.at = "headed" => s.at = "head"
               /\ t.at = "synced" => t.desc = [descriptor EXCEPT !.version = Len(events)]
<1> DEFINE s == proc[p]
           t == proc'[p]
<1>0. s \in ThreadSet /\ proc \in [Procs -> ThreadSet] /\ p \in Procs
    BY DEF TypeOK
<1>1. s.at = "append" => t.at = "sync"
    <2>1. s.at = "append" => AppendEvent(p)
        BY PlacesTell DEF Counted, CountedAt, AppendConflict
    <2> QED
        BY <1>0, <2>1 DEF AppendEvent, Step, ThreadSet
<1>2. s.at = "sync" => t.at = "synced" /\ t.desc = [descriptor EXCEPT !.version = Len(events)]
    <2> SUFFICES ASSUME s.at = "sync"
                 PROVE  t.at = "synced" /\ t.desc = [descriptor EXCEPT !.version = Len(events)]
        OBVIOUS
    <2> DEFINE desc == [descriptor EXCEPT !.version = Len(events)]
               to == [s EXCEPT !.at = "synced", !.desc = desc]
    <2>1. t = to
        BY <1>0, PlacesTell DEF SyncRead, Step
    <2> HIDE DEF desc
    <2>2. to.at = "synced" /\ to.desc = desc
        BY <1>0 DEF ThreadSet
    <2> QED
        BY <2>1, <2>2 DEF desc
<1>3. s.at = "head" => t.at \in {"headed", "idle"}
    <2> SUFFICES ASSUME s.at = "head" PROVE t.at \in {"headed", "idle"}
        OBVIOUS
    <2>1. PICK desc : t = Idle \/ t = [s EXCEPT !.at = "headed", !.desc = desc]
        BY <1>0, PlacesTell DEF HeadRead, Step
    <2> QED
        BY <1>0, <2>1, IdleTypes DEF ThreadSet
<1>4. Idle.at \notin Behind
    BY IdleTypes DEF Behind
<1>5. ASSUME s.at \in {"validate", "write", "prior", "move", "headed", "unlink"} PROVE t.at \notin Behind
    <2>1. t = Idle \/ \E e : t = Recording(s, e)
        BY <1>0, <1>5, PlacesTell DEF Validate, Write, WriteFails, Prior, Move, HeadWrite, Unlink, Step
    <2> QED
        BY <1>0, <1>4, <2>1, RecordingPlaces
<1>6. ASSUME s.at \in {"record", "decision", "stage"} PROVE t.at \notin Behind
    <2>1. CASE s.at = "record"
        <3>1. PICK n : t = [s EXCEPT !.at = "append", !.expected = n]
            BY <1>0, <2>1, PlacesTell DEF ReadSnapshot, Step
        <3> QED
            BY <1>0, <3>1 DEF ThreadSet, Behind
    <2>2. CASE s.at = "decision"
        <3>1. t = Idle \/ t = [s EXCEPT !.at = "stage"]
            BY <1>0, <2>2, PlacesTell DEF Decision, Step
        <3> QED
            BY <1>0, <1>4, <3>1 DEF ThreadSet, Behind
    <2>3. CASE s.at = "stage"
        <3>1. CASE Stage(p)
            BY <1>0, <3>1 DEF Stage, Step, ThreadSet, Behind
        <3>2. CASE StageFails(p)
            BY <1>0, <1>4, <3>2 DEF StageFails, Step
        <3> QED
            BY <2>3, <3>1, <3>2, PlacesTell
    <2> QED
        BY <1>6, <2>1, <2>2, <2>3
<1>7. ASSUME s.at = "synced" PROVE t.at \notin Behind
    BY <1>0, <1>7, PlacesTell, ContinuationPlaces DEF SyncWrite, Step
<1>8. ASSUME s.at = "replace" PROVE t.at \notin Behind
    <2>1. PICK rest \in Bundles :
            \/ Step(p, "replace", [s EXCEPT !.bundle = rest])
            \/ Step(p, "replace", Recording([s EXCEPT !.bundle = rest], s.event))
        BY <1>8, PlacesTell, ReplaceTells
    <2> DEFINE left == [s EXCEPT !.bundle = rest]
    <2>2. left \in ThreadSet /\ left.at = "replace"
        BY <1>0, <1>8 DEF ThreadSet
    <2> HIDE DEF left
    <2>3. t = left \/ t = Recording(left, s.event)
        BY <1>0, <2>1 DEF left, Step
    <2> QED
        BY <2>2, <2>3, RecordingPlaces DEF Behind
<1>9. ASSUME s.at = "import" PROVE t.at \notin Behind
    <2>1. CASE ImportSummary(p)
        <3> DEFINE more == [s EXCEPT !.expected = NoVersion]
        <3>1. t = Recording(more, Imported)
            BY <1>0, <2>1 DEF ImportSummary, Step
        <3>2. more \in ThreadSet
            BY <1>0, EdaAssumption DEF ThreadSet, NoVersion
        <3> HIDE DEF more
        <3> QED
            BY <3>1, <3>2, RecordingPlaces
    <2>2. CASE Import(p)
        <3>1. PICK d \in s.todo :
                LET next == [s EXCEPT !.todo = @ \ {d}, !.candidate = d]
                IN  Step(p, "import", next) \/ Step(p, "import", Recording(next, Created(d)))
            BY <2>2 DEF Import
        <3> DEFINE next == [s EXCEPT !.todo = @ \ {d}, !.candidate = d]
        <3>2. next \in ThreadSet /\ next.at = "import"
            BY <1>0, <1>9 DEF ThreadSet
        <3> HIDE DEF next
        <3>3. t = next \/ t = Recording(next, Created(d))
            BY <1>0, <3>1 DEF next, Step
        <3> QED
            BY <3>2, <3>3, RecordingPlaces DEF Behind
    <2> QED
        BY <1>9, <2>1, <2>2, PlacesTell
<1>10. s.at \in Early \cup Late \cup {"append", "unlink"}
    BY PlacesTell
<1> HIDE DEF s, t
<1>11. \/ s.at \in {"append", "sync", "head"}
       \/ t.at \notin Behind
    BY <1>5, <1>6, <1>7, <1>8, <1>9, <1>10 DEF Early, Late
<1>12. /\ s.at = "append" <=> t.at = "sync"
       /\ s.at = "sync" <=> t.at = "synced"
       /\ t.at = "headed" => s.at = "head"
    BY <1>1, <1>2, <1>3, <1>11 DEF Behind
<1> QED
    BY <1>2, <1>12 DEF s, t

-----------------------------------------------------------------------------
\* The candidate of an application is written once, with its sources as
\* they are then, and nothing else changes it.
LEMMA ApplyMoves ==
    ASSUME TypeOK, TypeOK', NEW p \in Procs, Continue(p), proc'[p].op = "apply"
    PROVE  LET s == proc[p]  t == proc'[p]
           IN  /\ s.op = "apply" /\ t.candidate = s.candidate /\ s.candidate \in Candidates
               /\ t.at \in Recordings \cup {"head"} /\ t.event = Created(t.candidate) =>
                    \/ Write(p)
                    \/ made' = made /\ s.at \in Recordings \cup {"head"} /\ s.event = Created(s.candidate)
<1> DEFINE s == proc[p]
           t == proc'[p]
           c == s.candidate
<1>0. /\ s \in ThreadSet /\ Doing(s) /\ proc \in [Procs -> ThreadSet]
      /\ s.op = "apply" /\ t.candidate = c
    BY Moves DEF TypeOK, Same
<1>1. c \in Candidates
    BY <1>0 DEF Doing
<1>2. ASSUME ~Write(p), t.at \in Recordings \cup {"head"}, t.event = Created(c)
      PROVE  s.at \in Recordings \cup {"head"} /\ s.event = Created(c)
    <2>1. CASE s.at = "validate"
        <3>1. t = Recording(s, Validated(c))
            BY <1>0, <2>1, PlacesTell DEF Validate, Step
        <3>2. Validated(c) \in EventSet
            BY <1>1, EventTypes DEF EventsOf
        <3>3. t.event = Validated(c)
            BY <1>0, <3>1, <3>2, RecordingTypes
        <3> QED
            BY <1>2, <3>3 DEF Validated, Created
    <2>2. CASE s.at = "synced"
        <3>1. t = Continuation(s)
            BY <1>0, <2>2, PlacesTell DEF SyncWrite, Step
        <3> DEFINE head  == [s EXCEPT !.at = "head"]
                   write == [s EXCEPT !.at = "write", !.expected = s.expected + 1]
        <3>2. Continuation(s) = head \/ Continuation(s) = write
            BY <1>0 DEF Continuation
        <3>3. head.event = s.event /\ write.event = s.event
            BY <1>0 DEF ThreadSet
        <3> HIDE DEF head, write
        <3>4. t.event = s.event
            BY <3>1, <3>2, <3>3
        <3> QED
            BY <1>2, <2>2, <3>4 DEF Recordings
    <2>3. CASE s.at \in {"record", "append", "sync"}
        <3>1. t.event = s.event
            BY <1>0, <1>2, <2>3, Moves DEF Recordings
        <3> QED
            BY <1>2, <2>3, <3>1 DEF Recordings
    <2>4. s.at \in {"validate", "write", "record", "append", "sync", "synced", "head", "headed"}
        BY <1>0 DEF Doing, Recordings
    <2>5. s.at \in {"validate", "synced", "record", "append", "sync"}
        BY <1>0, <1>2, <2>4, Moves DEF Recordings
    <2> QED
        BY <2>1, <2>2, <2>3, <2>5
<1> HIDE DEF s, t, c
<1>3. made' = made \/ Write(p)
    BY DescriptorSteps
<1> QED
    BY <1>0, <1>1, <1>2, <1>3 DEF s, t, c

\* The source a candidate was made for stays told by the stream until its
\* head is registered.
LEMMA BasisStep ==
    ASSUME TypeOK, TypeOK', NEW p \in Procs, Procs = {p}, Crashes = FALSE,
           Counted(p), Tracking(p), Heading(p), [Next]_vars, proc'[p].op = "apply"
    PROVE  Basis(proc[p])'
<1> DEFINE s == proc[p]
           t == proc'[p]
<1>a. t \in ThreadSet /\ Doing(t) /\ t.candidate \in Candidates /\ s \in ThreadSet /\ Doing(s)
    BY DEF TypeOK, Doing
<1>b. PICK c \in Candidates : c = t.candidate
    BY <1>a
<1>c. PICK f \in Files : f = Target[c]
    BY EdaAssumption
<1> DEFINE made2 == made'[c][f]
<1>0. t \in ThreadSet /\ Doing(t) /\ s \in ThreadSet /\ Doing(s) /\ c = t.candidate /\ f = Target[c]
    BY <1>a, <1>b, <1>c
<1>1. ASSUME made2 # Absent,
             t.at \in Recordings \cup {"head"} /\ t.event = Created(c) =>
                made2 \in {Edited, InStream(f)'} /\ files'[f] \in {Edited, made2}
      PROVE  Basis(proc[p])'
    <2>1. InStream(Target[c])' = InStream(f)'
        BY <1>0
    <2> QED
        BY <1>0, <1>1, <2>1 DEF Basis
<1>2. CASE UNCHANGED vars
    <2>1. s.op = "apply" /\ t = s /\ made' = made /\ files' = files /\ events' = events
        BY <1>2 DEF vars
    <2> QED
        BY <1>0, <1>1, <2>1, StreamSame DEF Heading, Basis
<1>3. ASSUME NEW g \in Files, Edit(g) PROVE Basis(proc[p])'
    <2>1. /\ s.op = "apply" /\ t = s /\ made' = made /\ events' = events
          /\ files'[f] \in {files[f], Edited}
        BY <1>0, <1>3 DEF Edit, TypeOK
    <2> QED
        BY <1>0, <1>1, <2>1, StreamSame DEF Heading, Basis
<1>4. CASE Handler(p)
    <2>1. made2 # Absent /\ t.at \in {"validate", "write"}
        BY <1>0, <1>4, HandlerTells
    <2> QED
        BY <1>1, <2>1 DEF Recordings
<1>5. CASE Continue(p)
    <2>1. s.op = "apply" /\ s.candidate = c /\ ~Replacing(s) /\ made[c][f] # Absent
        BY <1>0, <1>5, ApplyMoves DEF Replacing, Heading, Basis
    <2>2. InStream(f)' = InStream(f)
        BY <1>0, <1>5, <2>1, StreamSays
    <2>3. files' = files
        BY <1>5, <2>1, OthersReplaceNothing, SourcesStay
    <2>4. CASE Write(p)
        <3>1. files[f] = made[c][f] /\ made' = [made EXCEPT ![c] = files]
            BY <1>0, <2>1, <2>4 DEF Write
        <3>2. made2 = files[f] /\ made2 # Absent
            BY <1>0, <2>1, <3>1 DEF TypeOK
        <3>3. files[f] \in {Edited, InStream(f)}
            <4>1. Written(s) = {}
                BY <2>1 DEF Written
            <4> QED
                BY <1>0, <4>1 DEF Tracking
        <3> QED
            BY <1>1, <2>2, <2>3, <3>2, <3>3
    <2>5. CASE ~Write(p)
        <3>1. made' = made
            BY <1>5, <2>5, DescriptorSteps
        <3>2. t.at \in Recordings \cup {"head"} /\ t.event = Created(c) =>
                s.at \in Recordings \cup {"head"} /\ s.event = Created(c)
            BY <1>0, <1>5, <2>1, <2>5, ApplyMoves
        <3>3. s.at \in Recordings \cup {"head"} /\ s.event = Created(c) =>
                made[c][f] \in {Edited, InStream(f)} /\ files[f] \in {Edited, made[c][f]}
            BY <1>0, <2>1 DEF Heading, Basis
        <3> QED
            BY <1>1, <2>1, <2>2, <2>3, <3>1, <3>2, <3>3
    <2> QED
        BY <2>4, <2>5
<1> QED
    BY <1>2, <1>3, <1>4, <1>5, AloneSteps

-----------------------------------------------------------------------------
\* The head a handler registers is the one the stream allows.
LEMMA NewHeadRight ==
    ASSUME TypeOK, NEW p \in Procs, Tracking(p), Heading(p), proc[p].at = "head",
           NEW f, f = Target[proc[p].candidate]
    PROVE  HeadRight(NewHead(proc[p], f), f)
<1> DEFINE s == proc[p]
           c == s.candidate
           e == events[Max(Touching(f))]
<1>0. /\ s \in ThreadSet /\ Doing(s) /\ c \in Candidates /\ f \in Files
      /\ s.op \in {"apply", "promote", "revert"}
    BY HeadTypes DEF TypeOK, Doing, Recordings
<1> SUFFICES ASSUME files[f] = InStream(f), ~Overwritten(f)
             PROVE  NewHead(s, f) \in HeadsInStream(f)
    BY DEF HeadRight
<1>1. CASE s.op = "apply"
    <2> DEFINE basis == made[c][f]  head == descriptor.heads[f]
    <2>1. s.event = Created(c)
        BY <1>0, <1>1 DEF Doing, Recordings
    <2>2. basis # Absent /\ basis \in {Edited, InStream(f)} /\ files[f] \in {Edited, basis}
        BY <1>1, <2>1 DEF Heading, Basis
    <2>3. basis = InStream(f)
        BY <2>2
    <2>4. head \in HeadsInStream(f)
        <3>1. ~Pending(s)
            BY <1>1 DEF Pending, Replacing
        <3> QED
            BY <1>0, <3>1 DEF Heading, HeadRight
    <2>5. NewHead(s, f) = IF head.sha = basis THEN head ELSE ArtifactHead(basis, "base")
        BY <1>1 DEF NewHead
    <2>6. CASE Touching(f) = {}
        <3>1. InStream(f) \in {Absent, Original} /\ ArtifactHead(Original, "base") \in HeadsInStream(f)
            BY <2>6 DEF InStream, HeadsInStream
        <3> QED
            BY <2>2, <2>3, <2>4, <2>5, <3>1
    <2>7. CASE Touching(f) # {}
        <3>1. e.after[f] = basis
            BY <2>3, <2>7 DEF InStream
        <3>2. \E revision : head = ArtifactHead(basis, revision)
            BY <2>2, <2>4, <2>7, <3>1 DEF HeadsInStream
        <3>3. head.sha = basis
            BY <3>2 DEF ArtifactHead
        <3> QED
            BY <2>4, <2>5, <3>3
    <2> QED
        BY <2>6, <2>7
<1>2. CASE s.op # "apply"
    <2>1. Pending(s) /\ Replacing(s)
        BY <1>0, <1>2 DEF Pending, Replacing, Late
    <2>2. /\ f \in DOMAIN s.event.after
          /\ s.event.type \in Replacements
          /\ s.event.type = "EdaRevisionPromoted" <=> s.op = "promote"
          /\ s.event.candidate = c
        BY <1>0, <2>1, PendingEvent
    <2>3. Touching(f) # {} /\ e = s.event
        BY <2>1, <2>2 DEF Tracking, Late
    <2>4. HeadsInStream(f) =
            IF s.event.after[f] = Absent THEN {NoHead}
            ELSE {ArtifactHead(s.event.after[f], IF s.op = "promote" THEN c ELSE "revert")}
        BY <2>2, <2>3 DEF HeadsInStream
    <2>5. CASE s.op = "promote"
        <3>1. s.event.after[f] = c /\ c # Absent
            BY <1>0, <2>1, <2>5, EdaAssumption DEF Heading
        <3>2. NewHead(s, f) = ArtifactHead(c, c)
            BY <2>5 DEF NewHead
        <3> QED
            BY <2>4, <2>5, <3>1, <3>2
    <2>6. CASE s.op = "revert"
        <3>1. NewHead(s, f) = IF s.event.after[f] = Absent THEN NoHead ELSE ArtifactHead(s.event.after[f], "revert")
            BY <2>6 DEF NewHead
        <3> QED
            BY <2>4, <2>6, <3>1
    <2> QED
        BY <1>0, <1>2, <2>5, <2>6
<1> QED
    BY <1>1, <1>2

\* What a handler is about to write at its end.
LEMMA HeadedRight ==
    ASSUME TypeOK, NEW p \in Procs, Counted(p), Tracking(p), Heading(p), HeadRead(p),
           proc'[p].at = "headed"
    PROVE  /\ proc'[p].desc.version = Len(events)
           /\ \A g \in Files : HeadRight(proc'[p].desc.heads[g], g)
<1> DEFINE s == proc[p]
           c == s.candidate
<1>0. s \in ThreadSet /\ Doing(s) /\ s.at = "head" /\ c \in Candidates /\ proc \in [Procs -> ThreadSet]
    BY HeadTypes DEF TypeOK, HeadRead, Step
<1>1. PICK f \in Files : f = Target[c]
    BY <1>0, EdaAssumption
<1> DEFINE heads == [descriptor.heads EXCEPT ![f] = NewHead(s, f)]
           desc  == [version |-> s.expected + 1, heads |-> heads]
           to    == [s EXCEPT !.at = "headed", !.desc = desc]
<1>2. desc.version = s.expected + 1 /\ desc.heads = heads
    OBVIOUS
<1>3. proc'[p] = to
    <2>1. proc'[p] = Idle \/ proc'[p] = to
        BY <1>0, <1>1 DEF HeadRead, Step
    <2> QED
        BY <2>1, IdleTypes
<1> HIDE DEF desc
<1>4. proc'[p].desc = desc
    BY <1>0, <1>3 DEF ThreadSet
<1>5. s.expected + 1 = Len(events)
    BY <1>0 DEF Counted, CountedAt, Late
<1>6. ASSUME NEW g \in Files PROVE HeadRight(heads[g], g)
    <2>0. descriptor.heads \in [Files -> [sha : Contents, revision : Candidates \cup {"none", "base", "revert"}]]
        BY DEF TypeOK, Descriptors
    <2>1. CASE g = f
        <3>1. HeadRight(NewHead(s, f), f)
            BY <1>0, <1>1, NewHeadRight
        <3>2. heads[g] = NewHead(s, f)
            BY <2>0, <2>1
        <3> QED
            BY <2>1, <3>1, <3>2
    <2>2. CASE g # f /\ ~(Pending(s) /\ g \in DOMAIN s.event.after)
        <3>1. heads[g] = descriptor.heads[g]
            BY <2>0, <2>2
        <3> QED
            BY <2>2, <3>1 DEF Heading
    <2>3. CASE g # f /\ Pending(s) /\ g \in DOMAIN s.event.after
        <3>1. Touching(g) # {} /\ events[Max(Touching(g))] = s.event
            BY <1>0, <2>3 DEF Tracking, Pending, Late
        <3>2. Target[s.event.candidate] = f
            BY <1>0, <1>1, <2>3, PendingEvent
        <3>3. Overwritten(g)
            BY <2>3, <3>1, <3>2 DEF Overwritten
        <3> QED
            BY <3>3 DEF HeadRight
    <2> QED
        BY <2>1, <2>2, <2>3
<1> HIDE DEF heads
<1> QED
    BY <1>2, <1>4, <1>5, <1>6

\* The second loop goes on with the same event.
LEMMA ReplaceKeeps ==
    ASSUME TypeOK, NEW p \in Procs, Continue(p), proc[p].at = "replace"
    PROVE  LET s == proc[p]  t == proc'[p]
           IN  Same(s, t) /\ t.at \in Unrecorded /\ t.event = s.event
<1> DEFINE s == proc[p]
           t == proc'[p]
<1>1. s \in ThreadSet /\ Doing(s) /\ proc \in [Procs -> ThreadSet]
    BY DEF TypeOK
<1>2. s.event \in EventSet
    <2>1. Pending(s)
        BY <1>1 DEF Doing, Recordings, Pending, Replacing, Unrecorded
    <2> QED
        BY <1>1, <2>1, PendingEvent
<1>3. PICK rest \in Bundles :
        \/ Step(p, "replace", [s EXCEPT !.bundle = rest])
        \/ Step(p, "replace", Recording([s EXCEPT !.bundle = rest], s.event))
    BY PlacesTell, ReplaceTells
<1> DEFINE left == [s EXCEPT !.bundle = rest]
<1>4. left \in ThreadSet /\ left.at = "replace" /\ Same(s, left) /\ left.event = s.event
    BY <1>1 DEF ThreadSet, Same
<1> HIDE DEF left
<1>5. t = left \/ t = Recording(left, s.event)
    BY <1>1, <1>3 DEF left, Step
<1> QED
    BY <1>2, <1>4, <1>5, RecordingTypes DEF Same, Unrecorded

\* A promotion makes its source the candidate.
LEMMA StagePromotes ==
    ASSUME TypeOK, NEW p \in Procs, Stage(p)
    PROVE  LET t == proc'[p]
           IN  t.event.after[Target[t.candidate]] = t.candidate
<1> DEFINE s == proc[p]
           c == s.candidate
           bundle == Bundle(c)
           before == [f \in DOMAIN bundle |-> files[f]]
           e == Promoted(c, before, bundle)
           to == [s EXCEPT !.at = "replace", !.bundle = bundle, !.event = e]
<1>1. proc'[p] = to /\ s \in ThreadSet
    BY DEF Stage, Step, TypeOK
<1>2. e.after = bundle /\ bundle[Target[c]] = c
    BY DEF Promoted, Bundle
<1> HIDE DEF e, bundle
<1>3. to.event = e /\ to.candidate = c
    BY <1>1 DEF ThreadSet
<1> QED
    BY <1>1, <1>2, <1>3

\* A handler that goes on keeps the heads right which it does not replace.
LEMMA HeadsStep ==
    ASSUME TypeOK, TypeOK', NEW p \in Procs, Procs = {p}, Crashes = FALSE,
           Counted(p), Tracking(p), Heading(p), [Next]_vars,
           NEW f \in Files, Pending(proc'[p]) => f \notin DOMAIN proc'[p].event.after
    PROVE  HeadRight(descriptor.heads[f], f)'
<1> DEFINE s == proc[p]
           t == proc'[p]
<1>0. s \in ThreadSet /\ Doing(s) /\ files \in [Files -> Contents]
    BY DEF TypeOK
<1>1. ASSUME Pending(s) => f \notin DOMAIN s.event.after,
             files'[f] = files[f] \/ Edit(f),
             InStream(f)' = InStream(f), HeadsInStream(f)' = HeadsInStream(f),
             Overwritten(f)' <=> Overwritten(f),
             NEW head, HeadRight(head, f), head = descriptor'.heads[f]
      PROVE  HeadRight(descriptor.heads[f], f)'
    <2>1. f \notin Written(s)
        BY <1>1 DEF Written, Pending
    <2>2. HeadRight(head, f)'
        BY <1>1, <2>1, HeadStays
    <2> QED
        BY <1>1, <2>2 DEF HeadRight
<1>2. CASE UNCHANGED vars
    <2>1. s = t /\ events' = events /\ files' = files /\ descriptor' = descriptor
        BY <1>2 DEF vars
    <2>2. HeadRight(descriptor.heads[f], f)
        BY <2>1 DEF Heading
    <2> QED
        BY <1>1, <2>1, <2>2, StreamSame
<1>3. ASSUME NEW g \in Files, Edit(g) PROVE HeadRight(descriptor.heads[f], f)'
    <2>1. /\ s = t /\ events' = events /\ descriptor' = descriptor
          /\ files'[f] = files[f] \/ f = g
        BY <1>0, <1>3 DEF Edit
    <2>2. HeadRight(descriptor.heads[f], f)
        BY <2>1 DEF Heading
    <2> QED
        BY <1>1, <1>3, <2>1, <2>2, StreamSame
<1>4. CASE Handler(p)
    <2>1. s.at = "idle" /\ events' = events /\ files' = files /\ descriptor' = descriptor
        BY <1>4, HandlerMoves, HandlerTells
    <2>2. ~Pending(s)
        BY <2>1 DEF Pending, Unrecorded, Late
    <2>3. HeadRight(descriptor.heads[f], f)
        BY <2>2 DEF Heading
    <2> QED
        BY <1>1, <2>1, <2>2, <2>3, StreamSame
<1>5. CASE Continue(p)
    <2>1. CASE s.at = "headed"
        <3>1. descriptor' = s.desc /\ events' = events /\ files' = files
            BY <1>5, <2>1, DescriptorSteps, SourcesStay
        <3>2. HeadRight(s.desc.heads[f], f)
            BY <2>1 DEF Heading
        <3> QED
            BY <3>1, <3>2, StreamSame DEF HeadRight
    <2>2. CASE s.at # "headed"
        <3>1. descriptor'.heads = descriptor.heads
            BY <1>5, <2>2, DescriptorSteps DEF Heading
        <3>2. CASE ~Replacing(s)
            <4>1. ~Pending(s) /\ files' = files
                BY <1>5, <3>2, OthersReplaceNothing, SourcesStay DEF Pending
            <4>2. HeadRight(descriptor.heads[f], f)
                BY <4>1 DEF Heading
            <4> QED
                BY <1>1, <1>5, <3>1, <3>2, <4>1, <4>2, StreamSays
        <3>3. CASE Replacing(s) /\ s.at \in {"decision", "stage"}
            <4>1. ~Pending(s) /\ files' = files /\ events' = events
                BY <1>5, <3>3, SourcesStay DEF Pending, Unrecorded, Late
            <4>2. HeadRight(descriptor.heads[f], f)
                BY <4>1 DEF Heading
            <4> QED
                BY <1>1, <3>1, <4>1, <4>2, StreamSame
        <3>4. CASE Pending(s)
            <4>1. Pending(t) /\ t.event = s.event
                <5>1. CASE s.at = "replace"
                    <6>1. Same(s, t) /\ t.at \in Unrecorded /\ t.event = s.event
                        BY <1>5, <3>4, <5>1, ReplaceKeeps
                    <6> QED
                        BY <3>4, <6>1 DEF Pending, Replacing, Same
                <5>2. CASE s.at # "replace"
                    BY <1>5, <2>2, <3>4, <5>2, ReplacingMoves DEF Pending, Replacing, Unrecorded, Late
                <5> QED
                    BY <5>1, <5>2
            <4>2. f \notin DOMAIN s.event.after
                BY <4>1
            <4>3. files'[f] = files[f]
                <5>1. CASE s.at = "replace"
                    <6>1. PICK g \in DOMAIN s.bundle : files' = [files EXCEPT ![g] = s.bundle[g]]
                        BY <1>5, <5>1, PlacesTell, ReplaceTells
                    <6>2. g \in DOMAIN s.event.after
                        BY <5>1 DEF Tracking
                    <6> QED
                        BY <4>2, <6>1, <6>2
                <5>2. CASE s.at # "replace"
                    BY <1>5, <5>2, SourcesStay
                <5> QED
                    BY <5>1, <5>2
            <4>4. HeadRight(descriptor.heads[f], f)
                BY <4>2 DEF Heading
            <4> QED
                BY <1>1, <1>5, <3>1, <4>2, <4>3, <4>4, StreamSays
        <3>5. Replacing(s) => Pending(s) \/ s.at \in {"decision", "stage"}
            BY <1>5, ReplacingMoves DEF Pending, Unrecorded, Late
        <3> QED
            BY <3>2, <3>3, <3>4, <3>5
    <2> QED
        BY <2>1, <2>2
<1> QED
    BY <1>2, <1>3, <1>4, <1>5, AloneSteps

\* The descriptor follows, when a handler ends at the latest.
LEMMA HeadingStep ==
    ASSUME TypeOK, TypeOK', NEW p \in Procs, Procs = {p}, Crashes = FALSE,
           Counted(p), Tracking(p), Heading(p), [Next]_vars
    PROVE  Heading(p)'
<1> DEFINE s == proc[p]
           t == proc'[p]
<1>0. s \in ThreadSet /\ Doing(s) /\ t \in ThreadSet /\ Doing(t) /\ descriptor \in Descriptors
    BY DEF TypeOK
<1>1. \A f \in Files : (Pending(t) => f \notin DOMAIN t.event.after) => HeadRight(descriptor.heads[f], f)'
    BY HeadsStep
<1>2. t.at \notin {"sync", "synced"} => descriptor'.version = Len(events')
    <2>1. CASE UNCHANGED vars
        BY <2>1 DEF vars, Heading
    <2>2. ASSUME NEW f \in Files, Edit(f)
          PROVE  t.at \notin {"sync", "synced"} => descriptor'.version = Len(events')
        BY <2>2 DEF Edit, Heading
    <2>3. CASE Handler(p)
        <3>1. s.at = "idle" /\ events' = events /\ descriptor' = descriptor
            BY <2>3, HandlerMoves, HandlerTells
        <3> QED
            BY <3>1 DEF Heading
    <2>4. CASE Continue(p)
        <3>1. /\ s.at = "append" <=> t.at = "sync"
              /\ s.at = "sync" <=> t.at = "synced"
              /\ s.at # "append" => events' = events
              /\ descriptor' = IF s.at \in {"synced", "headed"} THEN s.desc ELSE descriptor
            BY <2>4, SyncSteps, SourcesStay, DescriptorSteps
        <3>2. /\ s.at = "synced" => s.desc.version = Len(events)
              /\ s.at = "headed" => s.desc.version = Len(events)
              /\ s.at \notin {"sync", "synced"} => descriptor.version = Len(events)
            BY DEF Heading
        <3> HIDE DEF s, t
        <3> QED
            BY <3>1, <3>2
    <2> QED
        BY <2>1, <2>2, <2>3, <2>4, AloneSteps
<1>3. t.at = "synced" => t.desc.version = Len(events') /\ t.desc.heads = descriptor'.heads
    <2>1. CASE UNCHANGED vars
        BY <2>1 DEF vars, Heading
    <2>2. ASSUME NEW f \in Files, Edit(f)
          PROVE  t.at = "synced" => t.desc.version = Len(events') /\ t.desc.heads = descriptor'.heads
        BY <2>2 DEF Edit, Heading
    <2>3. CASE Handler(p)
        <3>1. t.at # "synced"
            BY <2>3, HandlerMoves
        <3> QED
            BY <3>1
    <2>4. CASE Continue(p)
        <3> SUFFICES ASSUME t.at = "synced"
                     PROVE  t.desc.version = Len(events') /\ t.desc.heads = descriptor'.heads
            OBVIOUS
        <3>1. s.at = "sync" /\ t.desc = [descriptor EXCEPT !.version = Len(events)]
            BY <2>4, SyncSteps
        <3>2. events' = events /\ descriptor' = descriptor
            BY <2>4, <3>1, SourcesStay, DescriptorSteps
        <3> HIDE DEF s, t
        <3> QED
            BY <1>0, <3>1, <3>2 DEF Descriptors
    <2> QED
        BY <2>1, <2>2, <2>3, <2>4, AloneSteps
<1>4. t.at = "headed" =>
        t.desc.version = Len(events') /\ \A f \in Files : HeadRight(proc[p].desc.heads[f], f)'
    <2> SUFFICES ASSUME t.at = "headed"
                 PROVE  /\ t.desc.version = Len(events')
                        /\ \A f \in Files : HeadRight(proc[p].desc.heads[f], f)'
        OBVIOUS
    <2>1. /\ t.desc.version = Len(events) /\ \A f \in Files : HeadRight(t.desc.heads[f], f)
          /\ events' = events
          /\ files' = files \/ \E g \in Files : s.at = "headed" /\ Edit(g)
        <3>1. CASE UNCHANGED vars
            BY <3>1 DEF vars, Heading
        <3>2. ASSUME NEW g \in Files, Edit(g)
              PROVE  t = s /\ events' = events
            BY <3>2 DEF Edit
        <3>3. CASE Handler(p)
            BY <3>3, HandlerMoves
        <3>4. CASE Continue(p)
            <4>1. s.at = "head"
                BY <3>4, SyncSteps
            <4>2. events' = events /\ files' = files /\ HeadRead(p)
                BY <3>4, <4>1, SourcesStay, PlacesTell
            <4> QED
                BY <4>2, HeadedRight
        <3> QED
            BY <3>1, <3>2, <3>3, <3>4, AloneSteps DEF Heading
    <2>2. ASSUME NEW f \in Files PROVE HeadRight(proc[p].desc.heads[f], f)'
        <3>1. PICK head : head = t.desc.heads[f]
            OBVIOUS
        <3>2. HeadRight(head, f)
            BY <2>1, <3>1
        <3>3. HeadRight(head, f)'
            <4>1. CASE files' = files
                BY <2>1, <3>2, <4>1, StreamSame DEF HeadRight
            <4>2. CASE \E g \in Files : s.at = "headed" /\ Edit(g)
                <5>1. PICK g \in Files : s.at = "headed" /\ Edit(g)
                    BY <4>2
                <5>2. files'[f] = files[f] \/ Edit(f)
                    BY <5>1 DEF Edit, TypeOK
                <5>3. f \notin Written(s)
                    BY <5>1 DEF Written, Unrecorded
                <5> QED
                    BY <2>1, <3>2, <5>2, <5>3, HeadStays, StreamSame
            <4> QED
                BY <2>1, <4>1, <4>2
        <3> QED
            BY <3>1, <3>3 DEF HeadRight
    <2> QED
        BY <2>1, <2>2
<1>5. t.op = "apply" => Basis(proc[p])'
    BY BasisStep
<1>6. Pending(t) /\ t.op = "promote" => t.event.after[Target[t.candidate]] = t.candidate
    <2> SUFFICES ASSUME Pending(t), t.op = "promote"
                 PROVE  t.event.after[Target[t.candidate]] = t.candidate
        OBVIOUS
    <2>1. CASE t = s
        BY <2>1 DEF Heading
    <2>2. CASE Handler(p)
        <3>1. t.at \notin Unrecorded \cup Late
            BY <2>2, HandlerMoves DEF Unrecorded, Late
        <3> QED
            BY <3>1 DEF Pending
    <2>3. CASE Continue(p)
        <3>1. Replacing(s) /\ s.op = "promote"
            BY <2>3, Moves DEF Replacing, Same
        <3>2. CASE Stage(p)
            BY <3>2, StagePromotes
        <3>3. CASE s.at = "replace"
            <4>1. Same(s, t) /\ t.event = s.event /\ Pending(s)
                BY <2>3, <3>1, <3>3, ReplaceKeeps DEF Pending, Unrecorded
            <4> QED
                BY <3>1, <4>1 DEF Heading, Same
        <3>4. CASE ~Stage(p) /\ s.at # "replace"
            <4>1. t.candidate = s.candidate /\ t.event = s.event /\ Pending(s)
                BY <2>3, <3>1, <3>4, ReplacingMoves, IdleTypes DEF Pending, Unrecorded, Late, Replacing
            <4> QED
                BY <3>1, <4>1 DEF Heading
        <3> QED
            BY <3>2, <3>3, <3>4
    <2> QED
        BY <2>1, <2>2, <2>3, AloneSteps DEF vars, Edit
<1> QED
    BY <1>1, <1>2, <1>3, <1>4, <1>5, <1>6 DEF Heading

-----------------------------------------------------------------------------
\* Nothing is recorded at first, and nothing registered.
LEMMA AloneInit ==
    ASSUME Init, NEW p \in Procs
    PROVE  Counted(p) /\ Tracking(p) /\ Heading(p)
<1>1. /\ proc[p] = Idle /\ events = <<>> /\ Idle.at = "idle" /\ Idle.op = "none"
      /\ descriptor = Idle.desc
    BY IdleTypes DEF Init
<1>2. \A f \in Files : Touching(f) = {} /\ files[f] = InStream(f)
    BY <1>1 DEF Touching, At, InStream, Init
<1>3. Counted(p)
    BY <1>1 DEF Counted, CountedAt, Early, Late
<1>4. Tracking(p)
    BY <1>1, <1>2 DEF Tracking, Written, Unrecorded, Late, Replacing
<1>5. descriptor.version = 0 /\ \A f \in Files : descriptor.heads[f] = NoHead
    BY <1>1 DEF Idle
<1>6. \A f \in Files : HeadRight(descriptor.heads[f], f)
    BY <1>2, <1>5 DEF HeadRight, HeadsInStream
<1>7. ~Pending(proc[p]) /\ Len(events) = 0
    BY <1>1 DEF Pending, Replacing
<1> QED
    BY <1>1, <1>3, <1>4, <1>5, <1>6, <1>7 DEF Heading

\* The invariants of one client at a time.
LEMMA AloneHolds ==
    ASSUME NEW p, Procs = {p}, Crashes = FALSE
    PROVE  Spec => [](TypeOK /\ Counted(p) /\ Tracking(p) /\ Heading(p))
<1> DEFINE Inv == TypeOK /\ Counted(p) /\ Tracking(p) /\ Heading(p)
<1>1. Init => Inv
    BY InitTypes, AloneInit
<1>2. Inv /\ [Next]_vars => Inv'
    <2> SUFFICES ASSUME Inv, [Next]_vars PROVE Inv'
        OBVIOUS
    <2>1. TypeOK'
        BY TypesStep
    <2>2. Counted(p)'
        BY CountedStep
    <2>3. Tracking(p)'
        BY <2>1, TrackingStep
    <2>4. Heading(p)'
        BY <2>1, HeadingStep
    <2> QED
        BY <2>1, <2>2, <2>3, <2>4
<1> QED
    BY <1>1, <1>2, PTL DEF Spec

\* With one client at a time and no crash, the sources are what the
\* promotions and reverts of the stream made them, unless somebody edited
\* them since (promote_project_eda_candidate, revert_project_eda_revision).
THEOREM SourcesAreRecorded ==
    ASSUME NEW p, Procs = {p}, Crashes = FALSE
    PROVE  Spec => []CanonicalIsRecorded
<1>1. TypeOK /\ Counted(p) /\ Tracking(p) /\ Heading(p) => CanonicalIsRecorded
    BY DEF CanonicalIsRecorded, AllIdle, Tracking, Written, Unrecorded
<1> QED
    BY <1>1, AloneHolds, PTL

\* Then the descriptor knows the whole stream, and the head of a source is
\* its last promotion or revert, unless the source was edited or went along
\* with another one (update_source_descriptor, update_descriptor,
\* remove_descriptor_artifact).
THEOREM DescriptorsFollow ==
    ASSUME NEW p, Procs = {p}, Crashes = FALSE
    PROVE  Spec => []DescriptorFollows
<1>1. TypeOK /\ Counted(p) /\ Tracking(p) /\ Heading(p) => DescriptorFollows
    <2> SUFFICES ASSUME Heading(p), proc[p].at = "idle"
                 PROVE  /\ descriptor.version = Len(events)
                        /\ \A f \in Files : files[f] = InStream(f) /\ ~Overwritten(f)
                                => descriptor.heads[f] \in HeadsInStream(f)
        BY DEF DescriptorFollows, AllIdle
    <2>1. ~Pending(proc[p])
        BY DEF Pending, Unrecorded, Late
    <2> QED
        BY <2>1 DEF Heading, HeadRight
<1> QED
    BY <1>1, AloneHolds, PTL

=============================================================================
