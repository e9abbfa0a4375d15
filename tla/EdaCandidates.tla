---------------------------- MODULE EdaCandidates ----------------------------
(***************************************************************************)
(* EDA candidates: _apply_eda, _record_text_candidate, the decisions,      *)
(* delete, promote, revert and migrate handlers of api.py, with the files, *)
(* the candidate store, the object store and the descriptor of             *)
(* eda_history.py that they change beside the event stream.                *)
(*                                                                         *)
(* The handlers run in the thread pool, so each is a sequence of steps: a  *)
(* query, a file operation or a command at a time.  Contents stand for     *)
(* files and for their SHA-256; a candidate names the content it would     *)
(* give its source, an event is named by its position.  The append is one  *)
(* step that succeeds at the expected version only, which is the subject   *)
(* of CommandBus.  The project exists, and the callers may do what they    *)
(* ask for.                                                                *)
(***************************************************************************)
EXTENDS Naturals, Sequences, FiniteSets, FiniteSetsExt

CONSTANTS
    Files,       \* the source files
    Kicad,       \* those that are one KiCad project: a board, its schematic
    Candidates,
    Target,      \* the source a candidate would replace
    Legacy,      \* candidates written by other tools, not recorded yet
    Approved,    \* those of them with an accepted approval.json
    Missing,     \* sources that other tools start: they do not exist yet
    Procs,       \* the threads
    Operations,  \* what clients ask for
    Versioned,   \* may a client send the version it has seen?
    Edits,       \* are sources edited outside the system?
    Crashes,     \* may the server stop and start again?
    MaxEvents    \* bound on the stream

Absent   == "no file"
Original == "original"
Edited   == "edited"
Contents == Candidates \cup {Absent, Original, Edited}

ASSUME EdaAssumption ==
    /\ Kicad \subseteq Files /\ Missing \subseteq Kicad
    /\ Target \in [Candidates -> Files]
    /\ Approved \subseteq Legacy /\ Legacy \subseteq Candidates
    /\ Candidates \cap {Absent, Original, Edited} = {}
    /\ Operations \subseteq {"dry_run", "apply", "accept", "reject", "delete", "promote", "revert",
                       "migrate"}
    /\ Edits \in BOOLEAN /\ Crashes \in BOOLEAN /\ Versioned \subseteq BOOLEAN
    /\ MaxEvents \in Nat

VARIABLES
    events,      \* the stream
    files,       \* the sources below kicad_root
    dir,         \* where the directory of a candidate is
    made,        \* the sources a candidate was made beside
    objects,     \* the object store: contents of sources
    descriptor,  \* project.twinstudio.json
    proc         \* what each thread is doing

vars == <<events, files, dir, made, objects, descriptor, proc>>

-----------------------------------------------------------------------------
\* The events of the lifecycle.  files of a promotion maps each source that
\* is replaced to its content before and after.

Validated(c) == [type |-> "EdaValidationCompleted", candidate |-> c]
Created(c)   == [type |-> "EdaCandidateCreated", candidate |-> c]
Accepted(c)  == [type |-> "EdaChangeAccepted", candidate |-> c]
Rejected(c)  == [type |-> "EdaChangeRejected", candidate |-> c]
Deleted(c)   == [type |-> "EdaCandidateDeleted", candidate |-> c]
Imported     == [type |-> "EdaHistoryImported"]

Promoted(c, before, after) ==
    [type |-> "EdaRevisionPromoted", candidate |-> c, before |-> before, after |-> after]

\* before and after are those of the promotion i that is taken back.
Reverted(i) ==
    [type |-> "EdaChangeReverted", candidate |-> events[i].candidate, promotion |-> i,
     before |-> events[i].after, after |-> events[i].before]

At(types) == {i \in DOMAIN events : events[i].type \in types}

Decisions    == {"EdaChangeAccepted", "EdaChangeRejected"}
Replacements == {"EdaRevisionPromoted", "EdaChangeReverted"}

\* The events of the revision of a candidate; validations carry none.
RevisionEvents(c) ==
    {i \in At(Decisions \cup Replacements \cup {"EdaCandidateCreated", "EdaCandidateDeleted"}) :
        events[i].candidate = c}

IsLast(i, positions) == i \in positions /\ \A k \in positions : k <= i

AcceptedLast(positions) ==
    \E i \in positions : IsLast(i, positions) /\ events[i].type = "EdaChangeAccepted"

-----------------------------------------------------------------------------
NoVersion == MaxEvents + 1
NoEvent   == [type |-> "none"]

\* A source in the descriptor: its content and the revision it came with.
ArtifactHead(sha, revision) == [sha |-> sha, revision |-> revision]
NoHead == ArtifactHead(Absent, "none")
Nothing   == [f \in {} |-> Absent]

\* A thread between two handlers; event is what it is about to record, with
\* the version it expects, bundle the files it has prepared to replace, todo
\* the manifests still to import and desc the descriptor it has read.
Idle == [at |-> "idle", op |-> "none", candidate |-> "none", event |-> NoEvent,
         expected |-> NoVersion, bundle |-> Nothing, todo |-> {},
         desc |-> [version |-> 0, heads |-> [f \in Files |-> NoHead]]]

Init ==
    /\ events = <<>>
    /\ files = [f \in Files |-> IF f \in Missing THEN Absent ELSE Original]
    /\ dir = [c \in Candidates |-> IF c \in Legacy THEN "there" ELSE "none"]
    /\ made = [c \in Candidates |-> files]
    /\ objects = {}
    /\ descriptor = Idle.desc
    /\ proc = [p \in Procs |-> Idle]

-----------------------------------------------------------------------------
\* The directory of a candidate holds its own file and, for KiCad, copies of
\* the other files of the project as they were when it was made.
Siblings(c) ==
    IF Target[c] \in Kicad
    THEN {f \in Kicad \ {Target[c]} : made[c][f] # Absent}
    ELSE {}

\* What promoting a candidate would write: _promotion_bundle.
Bundle(c) ==
    [f \in {Target[c]} \cup Siblings(c) |-> IF f = Target[c] THEN c ELSE made[c][f]]

Step(p, from, to) == proc[p].at = from /\ proc' = [proc EXCEPT ![p] = to]

\* The command of a handler: the client's version, or that of the snapshot
\* _record_eda_event loads.
Recording(s, event) ==
    [s EXCEPT !.at = IF s.expected = NoVersion THEN "record" ELSE "append", !.event = event]

\* A handler starts, with or without a version its client has seen.
Begin(p, s) ==
    s.op \in Operations /\ \E versioned \in Versioned :
        Step(p, "idle", [s EXCEPT !.expected = IF versioned THEN Len(events) ELSE NoVersion])

\* _validated_candidate_decision: the candidate is there, and its source is
\* what it was made for.
ValidCandidate(c) == dir[c] = "there" /\ files[Target[c]] = made[c][Target[c]]

-----------------------------------------------------------------------------
\* _apply_eda and _record_text_candidate.  A candidate is named after the
\* time and its digest, so no two requests make the same one.  A KiCad change
\* is validated, with an event, before its candidate is written; a dry run
\* ends there, and is of no effect for other sources.
Apply(p, c, op) ==
    LET kicad == Target[c] \in Kicad
    IN  /\ dir[c] = "none" /\ files[Target[c]] # Absent
        /\ \A q \in Procs : proc[q].op = "apply" => proc[q].candidate # c
        /\ op = "apply" \/ (op = "dry_run" /\ kicad)
        /\ Begin(p, [Idle EXCEPT !.at = IF kicad THEN "validate" ELSE "write",
                                 !.op = op, !.candidate = c])
        /\ made' = IF op = "apply" THEN [made EXCEPT ![c] = files] ELSE made
        /\ UNCHANGED <<events, files, dir, objects, descriptor>>

Validate(p) ==
    /\ Step(p, "validate", Recording(proc[p], Validated(proc[p].candidate)))
    /\ UNCHANGED <<events, files, dir, made, objects, descriptor>>

\* The copies of the other files are one step with the candidate.
Write(p) ==
    LET s == proc[p]  c == s.candidate
    IN  /\ s.at = "write"
        /\ files[Target[c]] = made[c][Target[c]]
        /\ proc' = [proc EXCEPT ![p] = Recording(s, Created(c))]
        /\ made' = [made EXCEPT ![c] = files]
        /\ dir' = [dir EXCEPT ![c] = "there"]
        /\ objects' = objects \cup {<<Target[c], c>>}
        /\ UNCHANGED <<events, files, descriptor>>

\* The source has changed meanwhile.
WriteFails(p) ==
    LET s == proc[p]  c == s.candidate
    IN  /\ s.at = "write"
        /\ files[Target[c]] # made[c][Target[c]]
        /\ proc' = [proc EXCEPT ![p] = Idle]
        /\ UNCHANGED <<events, files, dir, made, objects, descriptor>>

-----------------------------------------------------------------------------
\* _record_eda_event: the snapshot, the command, and the files that follow
\* the stream (event-stream.ndjson and eda.jsonl are written behind the
\* descriptor, from the same events).

ReadSnapshot(p) ==
    /\ Step(p, "record", [proc[p] EXCEPT !.at = "append", !.expected = Len(events)])
    /\ UNCHANGED <<events, files, dir, made, objects, descriptor>>

AppendEvent(p) ==
    /\ proc[p].expected = Len(events) /\ Len(events) < MaxEvents
    /\ Step(p, "append", [proc[p] EXCEPT !.at = "sync"])
    /\ events' = Append(events, proc[p].event)
    /\ UNCHANGED <<files, dir, made, objects, descriptor>>

\* Faulty variant: the directory is removed all the same.
AppendConflictUnrestored(p) ==
    LET c == proc[p].candidate
    IN  /\ proc[p].expected # Len(events)
        /\ Step(p, "append", Idle)
        /\ dir' = IF proc[p].op = "delete" THEN [dir EXCEPT ![c] = "gone"] ELSE dir
        /\ UNCHANGED <<events, files, made, objects, descriptor>>

\* The handler ends; only delete puts back what it has moved.
AppendConflict(p) ==
    LET c == proc[p].candidate
    IN  /\ proc[p].expected # Len(events)
        /\ Step(p, "append", Idle)
        /\ dir' = IF proc[p].op = "delete" THEN [dir EXCEPT ![c] = "there"] ELSE dir
        /\ UNCHANGED <<events, files, made, objects, descriptor>>

\* _sync_eda_project_files reads the events and the descriptor and replaces
\* the descriptor.
SyncRead(p) ==
    /\ Step(p, "sync",
            [proc[p] EXCEPT !.at = "synced", !.desc = [descriptor EXCEPT !.version = Len(events)]])
    /\ UNCHANGED <<events, files, dir, made, objects, descriptor>>

\* What a handler does once its event is recorded.  The candidate's event is
\* expected right behind that of its validation.
Continuation(s) ==
    LET c         == s.candidate
        more      == [s EXCEPT !.expected = NoVersion]
        validated == s.event.type = "EdaValidationCompleted"
        approved  == s.event = Created(c) /\ c \in Approved
    IN  CASE s.op = "apply" /\ validated ->
                 [s EXCEPT !.at = "write", !.expected = s.expected + 1]
          [] s.op = "apply" /\ ~validated -> [s EXCEPT !.at = "head"]
          [] s.op \in {"promote", "revert"} -> [s EXCEPT !.at = "head"]
          [] s.op = "migrate" /\ approved -> Recording(more, Accepted(c))
          [] s.op = "migrate" /\ ~approved /\ s.event # Imported -> [more EXCEPT !.at = "import"]
          [] s.op = "delete" -> [s EXCEPT !.at = "unlink"]
          [] OTHER -> Idle

SyncWrite(p) ==
    /\ Step(p, "synced", Continuation(proc[p]))
    /\ descriptor' = proc[p].desc
    /\ UNCHANGED <<events, files, dir, made, objects>>

\* Faulty variant: update_source_descriptor registers the source in any case.
NewHeadDowngraded(s, f) ==
    CASE s.op = "apply" -> ArtifactHead(made[s.candidate][f], "base")
      [] s.op = "promote" -> ArtifactHead(s.candidate, s.candidate)
      [] OTHER -> IF s.event.after[f] = Absent THEN NoHead ELSE ArtifactHead(s.event.after[f], "revert")

\* The head of the source: update_source_descriptor keeps the head of an
\* unchanged source; update_descriptor and remove_descriptor_artifact follow
\* the promotion or the revert.
NewHead(s, f) ==
    CASE s.op = "apply" ->
             IF descriptor.heads[f].sha = made[s.candidate][f] THEN descriptor.heads[f]
             ELSE ArtifactHead(made[s.candidate][f], "base")
      [] s.op = "promote" -> ArtifactHead(s.candidate, s.candidate)
      [] OTHER -> IF s.event.after[f] = Absent THEN NoHead ELSE ArtifactHead(s.event.after[f], "revert")

\* The bytes a candidate was made for are stored now; a source that is gone
\* meanwhile ends the handler.
HeadRead(p) ==
    LET s    == proc[p]
        f    == Target[s.candidate]
        desc == [version |-> s.expected + 1,
                 heads   |-> [descriptor.heads EXCEPT ![f] = NewHead(s, f)]]
        gone == s.op = "apply" /\ files[f] = Absent
    IN  /\ Step(p, "head", IF gone THEN Idle ELSE [s EXCEPT !.at = "headed", !.desc = desc])
        /\ objects' = IF s.op = "apply" /\ ~gone THEN objects \cup {<<f, files[f]>>} ELSE objects
        /\ UNCHANGED <<events, files, dir, made, descriptor>>

HeadWrite(p) ==
    /\ Step(p, "headed", Idle)
    /\ descriptor' = proc[p].desc
    /\ UNCHANGED <<events, files, dir, made, objects>>

-----------------------------------------------------------------------------
\* _decide_project_eda_candidate: an acceptance that is the last word on the
\* candidate is not repeated.
Decide(p, c, op) ==
    /\ op \in {"accept", "reject"}
    /\ ValidCandidate(c)
    /\ Begin(p, [Idle EXCEPT !.at = "prior", !.op = op, !.candidate = c])
    /\ UNCHANGED <<events, files, dir, made, objects, descriptor>>

Prior(p) ==
    LET s == proc[p]  c == s.candidate
    IN  /\ Step(p, "prior",
                IF s.op = "reject" THEN Recording(s, Rejected(c))
                ELSE IF AcceptedLast(RevisionEvents(c)) THEN Idle
                ELSE Recording(s, Accepted(c)))
        /\ UNCHANGED <<events, files, dir, made, objects, descriptor>>

\* delete_project_eda_candidate moves the directory away, records, and
\* removes it; of two deletions the second finds nothing to move.
Delete(p, c) ==
    /\ ValidCandidate(c)
    /\ Begin(p, [Idle EXCEPT !.at = "move", !.op = "delete", !.candidate = c])
    /\ UNCHANGED <<events, files, dir, made, objects, descriptor>>

Move(p) ==
    LET s == proc[p]  c == s.candidate  there == dir[c] = "there"
    IN  /\ Step(p, "move", IF there THEN Recording(s, Deleted(c)) ELSE Idle)
        /\ dir' = IF there THEN [dir EXCEPT ![c] = "moved"] ELSE dir
        /\ UNCHANGED <<events, files, made, objects, descriptor>>

Unlink(p) ==
    /\ Step(p, "unlink", Idle)
    /\ dir' = [dir EXCEPT ![proc[p].candidate] = "gone"]
    /\ UNCHANGED <<events, files, made, objects, descriptor>>

-----------------------------------------------------------------------------
\* promote_project_eda_candidate: the last decision must be an acceptance.
Promote(p, c) ==
    /\ ValidCandidate(c)
    /\ Begin(p, [Idle EXCEPT !.at = "decision", !.op = "promote", !.candidate = c])
    /\ UNCHANGED <<events, files, dir, made, objects, descriptor>>

\* Faulty variant: any decision will do.
DecisionAny(p) ==
    LET s == proc[p]
    IN  /\ Step(p, "decision", [s EXCEPT !.at = "stage"])
        /\ UNCHANGED <<events, files, dir, made, objects, descriptor>>

Decision(p) ==
    LET s == proc[p]
        accepted == AcceptedLast(RevisionEvents(s.candidate) \cap At(Decisions))
    IN  /\ Step(p, "decision", IF accepted THEN [s EXCEPT !.at = "stage"] ELSE Idle)
        /\ UNCHANGED <<events, files, dir, made, objects, descriptor>>

Stored(bundle) == {<<f, bundle[f]>> : f \in {g \in DOMAIN bundle : bundle[g] # Absent}}

\* Faulty variant: what is replaced is not stored.
StageForgetful(p) ==
    LET s == proc[p]  c == s.candidate  bundle == Bundle(c)
        before == [f \in DOMAIN bundle |-> files[f]]
    IN  /\ s.at = "stage" /\ dir[c] = "there"
        /\ Step(p, "stage", [s EXCEPT !.at = "replace", !.bundle = bundle,
                                      !.event = Promoted(c, before, bundle)])
        /\ objects' = objects \cup Stored(bundle)
        /\ UNCHANGED <<events, files, dir, made, descriptor>>

\* The first loop of _promote_bundle: both versions of every file go to the
\* object store.
Stage(p) ==
    LET s == proc[p]  c == s.candidate  bundle == Bundle(c)
        before == [f \in DOMAIN bundle |-> files[f]]
    IN  /\ s.at = "stage" /\ dir[c] = "there"
        /\ Step(p, "stage", [s EXCEPT !.at = "replace", !.bundle = bundle,
                                      !.event = Promoted(c, before, bundle)])
        /\ objects' = objects \cup Stored(before) \cup Stored(bundle)
        /\ UNCHANGED <<events, files, dir, made, descriptor>>

\* The candidate has been moved away: nothing is replaced.
StageFails(p) ==
    /\ Step(p, "stage", Idle)
    /\ dir[proc[p].candidate] # "there"
    /\ UNCHANGED <<events, files, dir, made, objects, descriptor>>

\* Faulty variant: the loop ends with the source.
ReplaceSourceOnly(p) ==
    LET s == proc[p]  f == Target[s.candidate]
    IN  /\ Step(p, "replace", Recording([s EXCEPT !.bundle = Nothing], s.event))
        /\ files' = [files EXCEPT ![f] = s.bundle[f]]
        /\ UNCHANGED <<events, dir, made, objects, descriptor>>

\* The second loop, of _revert_bundle too: file by file, the source first.
Replace(p) ==
    LET s == proc[p]  source == Target[s.candidate]
        f == IF source \in DOMAIN s.bundle THEN source ELSE CHOOSE g \in DOMAIN s.bundle : TRUE
        rest == [g \in DOMAIN s.bundle \ {f} |-> s.bundle[g]]
        left == [s EXCEPT !.bundle = rest]
    IN  /\ Step(p, "replace", IF rest = Nothing THEN Recording(left, s.event) ELSE left)
        /\ files' = [files EXCEPT ![f] = s.bundle[f]]
        /\ UNCHANGED <<events, dir, made, objects, descriptor>>

\* revert_project_eda_revision up to the first replaced file: every file of
\* the promotion is still the promoted one, and its former content is stored.
Revert(p, i) ==
    LET e == events[i]
    IN  /\ \A f \in DOMAIN e.after : files[f] = e.after[f]
        /\ Stored(e.before) \subseteq objects
        /\ Begin(p, [Idle EXCEPT !.at = "replace", !.op = "revert", !.candidate = e.candidate,
                                 !.bundle = e.before, !.event = Reverted(i)])
        /\ UNCHANGED <<events, files, dir, made, objects, descriptor>>

-----------------------------------------------------------------------------
\* migrate_project_eda_history: the manifests that no event knows, one after
\* the other, with the approvals beside them, and a summary.  A directory
\* that a deletion has moved away comes first, and the request ends there.
Known == {events[i].candidate : i \in At({"EdaCandidateCreated"})}

Migrate(p) ==
    /\ \A c \in Candidates : dir[c] # "moved"
    /\ Begin(p, [Idle EXCEPT !.at = "import", !.op = "migrate",
                             !.todo = {c \in Candidates : dir[c] = "there"} \ Known])
    /\ UNCHANGED <<events, files, dir, made, objects, descriptor>>

Import(p) ==
    \E c \in proc[p].todo :
        LET s     == [proc[p] EXCEPT !.todo = @ \ {c}, !.candidate = c]
            there == dir[c] = "there"
        IN  /\ Step(p, "import", IF there THEN Recording(s, Created(c)) ELSE s)
            /\ objects' = IF there THEN objects \cup {<<Target[c], c>>} ELSE objects
            /\ UNCHANGED <<events, files, dir, made, descriptor>>

ImportSummary(p) ==
    /\ proc[p].todo = {}
    /\ Step(p, "import", Recording([proc[p] EXCEPT !.expected = NoVersion], Imported))
    /\ UNCHANGED <<events, files, dir, made, objects, descriptor>>

-----------------------------------------------------------------------------
\* Somebody edits or creates a source with another program.
Edit(f) ==
    /\ Edits /\ files[f] # Edited
    /\ files' = [files EXCEPT ![f] = Edited]
    /\ UNCHANGED <<events, dir, made, objects, descriptor, proc>>

\* The server stops between any two steps.
Crash ==
    /\ Crashes
    /\ proc' = [p \in Procs |-> Idle]
    /\ UNCHANGED <<events, files, dir, made, objects, descriptor>>

Handler(p) ==
    \/ \E c \in Candidates :
         \/ Delete(p, c) \/ Promote(p, c)
         \/ \E op \in {"dry_run", "apply"} : Apply(p, c, op)
         \/ \E op \in {"accept", "reject"} : Decide(p, c, op)
    \/ \E i \in At({"EdaRevisionPromoted"}) : Revert(p, i)
    \/ Migrate(p)

Continue(p) ==
    \/ Validate(p) \/ Write(p) \/ WriteFails(p) \/ ReadSnapshot(p) \/ AppendEvent(p) \/ AppendConflict(p)
    \/ SyncRead(p) \/ SyncWrite(p) \/ HeadRead(p) \/ HeadWrite(p)
    \/ Prior(p) \/ Move(p) \/ Unlink(p)
    \/ Decision(p) \/ Stage(p) \/ StageFails(p) \/ Replace(p)
    \/ Import(p) \/ ImportSummary(p)

Next ==
    \/ \E p \in Procs : Handler(p) \/ Continue(p)
    \/ \E f \in Files : Edit(f)
    \/ Crash

Spec == Init /\ [][Next]_vars

-----------------------------------------------------------------------------
AllIdle == \A p \in Procs : proc[p].at = "idle"

\* docs/10_PCB_SCH_ROADMAP.md: promotion "requires an accepted candidate",
\* whoever decides, deletes or promotes at the same time
\* (promote_project_eda_candidate).
PromotedWereAccepted ==
    \A i \in At({"EdaRevisionPromoted"}) :
        \E k \in 1 .. i - 1 : events[k] = Accepted(events[i].candidate)

\* docs/10: promotion "preserves both versions by SHA-256": as long as the
\* sources are changed by promotions and reverts only, no content that has
\* been a source is ever lost, however handlers interleave and crash
\* (_promote_bundle, _revert_bundle).
NothingLost ==
    [][\A f \in Files :
         files[f] \notin {files'[f], Absent} => <<f, files[f]>> \in objects]_vars

\* The directory of a candidate disappears with its event only, and does not
\* come back behind it (delete_project_eda_candidate).
DeletionIsRecorded ==
    \A c \in Candidates :
        LET deleted == \E i \in DOMAIN events : events[i] = Deleted(c)
        IN  /\ dir[c] = "gone" => deleted
            /\ deleted => dir[c] # "there"

\* The promotions and reverts that replaced a source, and what the last of
\* them made it.
Touching(f) == {i \in At(Replacements) : f \in DOMAIN events[i].after}

InStream(f) ==
    IF Touching(f) # {} THEN events[Max(Touching(f))].after[f]
    ELSE IF f \in Missing THEN Absent ELSE Original

\* With one client at a time and no crash, the sources are what the
\* promotions and reverts of the stream made them, unless somebody edited
\* them since (promote and revert handlers).
CanonicalIsRecorded ==
    AllIdle => \A f \in Files : files[f] \in {InStream(f), Edited}

\* The heads the stream allows for a source: that of its last promotion or
\* revert, or the source a candidate was made for.
HeadsInStream(f) ==
    LET e == events[Max(Touching(f))]
    IN  IF Touching(f) = {} THEN {NoHead, ArtifactHead(Original, "base")}
        ELSE IF e.after[f] = Absent THEN {NoHead}
        ELSE {ArtifactHead(e.after[f], IF e.type = "EdaRevisionPromoted" THEN e.candidate ELSE "revert")}

\* Another file's promotion or revert was the last to replace this one.
Overwritten(f) ==
    Touching(f) # {} /\ Target[events[Max(Touching(f))].candidate] # f

\* README.md: "Recording another candidate advances the project stream but
\* preserves the canonical artifact's current promoted revision": with one
\* client at a time the descriptor knows the whole stream, and the head of a
\* source is its last promotion or revert, unless the source was edited or
\* went along with another one (update_source_descriptor).
DescriptorFollows ==
    AllIdle =>
        /\ descriptor.version = Len(events)
        /\ \A f \in Files :
             files[f] = InStream(f) /\ ~Overwritten(f) => descriptor.heads[f] \in HeadsInStream(f)

=============================================================================
