----------------------------- MODULE AuditWriter -----------------------------
(***************************************************************************)
(* The audit trail (proxy/src/services/audit_writer.rs and                 *)
(* repo/audit_log.rs): handlers put events on an unbounded channel after   *)
(* what they report took effect; one background task drains the channel in *)
(* batches and inserts the events one by one, and gives a batch up at its  *)
(* first error.                                                            *)
(***************************************************************************)
EXTENDS Naturals, FiniteSets, SequencesExt

CONSTANTS
    Events,     \* what handlers report in one behaviour, one event each
    Refused,    \* events the table refuses: their agent or session key does
                \* not exist (foreign keys of audit_log)
    MaxBatch,   \* MAX_BATCH_SIZE
    MaxErrors,  \* bound: database errors of other kinds
    MaxCrashes  \* bound: ends of the process

ASSUME WriterAssumption ==
    /\ IsFiniteSet(Events) /\ Refused \subseteq Events
    /\ MaxBatch \in Nat \ {0} /\ MaxErrors \in Nat /\ MaxCrashes \in Nat

VARIABLES
    acted,      \* events whose operation took effect
    emitted,    \* events in the order they were sent
    channel,    \* the mpsc channel
    batch,      \* what the writer has drained and not yet inserted
    audit_log,  \* the table, in the order of insertion
    failed,     \* events whose INSERT returned an error
    cut,        \* events the process took with it when it ended
    errors, crashes

queue == <<channel, batch>>
vars == <<acted, emitted, queue, audit_log, failed, cut, errors, crashes>>

TypeOK ==
    /\ acted \subseteq Events
    /\ emitted \in Seq(Events) /\ channel \in Seq(Events) /\ audit_log \in Seq(Events)
    /\ batch \in BoundedSeq(Events, MaxBatch)
    /\ failed \subseteq Events /\ cut \subseteq Events
    /\ errors \in 0..MaxErrors /\ crashes \in 0..MaxCrashes

Init ==
    /\ acted = {}
    /\ emitted = <<>> /\ channel = <<>> /\ batch = <<>> /\ audit_log = <<>>
    /\ failed = {} /\ cut = {}
    /\ errors = 0 /\ crashes = 0

-----------------------------------------------------------------------------

\* The operation that e reports takes effect: a handler received a request,
\* or committed.
Act(e) ==
    /\ e \notin acted
    /\ acted' = acted \cup {e}
    /\ UNCHANGED <<emitted, queue, audit_log, failed, cut, errors, crashes>>

\* emit: never waits, and the writer never closes its end.
Emit(e) ==
    /\ e \in acted \ (ToSet(emitted) \cup cut)
    /\ emitted' = Append(emitted, e)
    /\ channel' = Append(channel, e)
    /\ UNCHANGED <<acted, batch, audit_log, failed, cut, errors, crashes>>

\* Mutant of BatchLength: MaxBatch more events are drained after the first.
BatchLengthPlusFirst == IF Len(channel) < MaxBatch + 1 THEN Len(channel) ELSE MaxBatch + 1

\* recv, then try_recv until the batch is full or the channel is empty.
BatchLength == IF Len(channel) < MaxBatch THEN Len(channel) ELSE MaxBatch

\* Mutant of Drain: the youngest events first.
DrainYoungest ==
    /\ batch = <<>> /\ channel # <<>>
    /\ batch' = SubSeq(channel, Len(channel) - BatchLength + 1, Len(channel))
    /\ channel' = SubSeq(channel, 1, Len(channel) - BatchLength)
    /\ UNCHANGED <<acted, emitted, audit_log, failed, cut, errors, crashes>>

Drain ==
    /\ batch = <<>> /\ channel # <<>>
    /\ batch' = SubSeq(channel, 1, BatchLength)
    /\ channel' = SubSeq(channel, BatchLength + 1, Len(channel))
    /\ UNCHANGED <<acted, emitted, audit_log, failed, cut, errors, crashes>>

\* One INSERT of insert_batch.
Insert ==
    /\ batch # <<>> /\ Head(batch) \notin Refused
    /\ audit_log' = Append(audit_log, Head(batch))
    /\ batch' = Tail(batch)
    /\ UNCHANGED <<acted, emitted, channel, failed, cut, errors, crashes>>

\* Mutants of InsertFails: the batch is tried again, or the writer stops
\* and loses the channel as well.
InsertFailsAgain ==
    /\ batch # <<>>
    /\ Head(batch) \in Refused
    /\ failed' = failed \cup {Head(batch)}
    /\ UNCHANGED <<acted, emitted, queue, audit_log, cut, errors, crashes>>
InsertFailsForGood ==
    /\ batch # <<>>
    /\ Head(batch) \in Refused
    /\ failed' = failed \cup {Head(batch)}
    /\ batch' = <<>> /\ channel' = <<>>
    /\ UNCHANGED <<acted, emitted, audit_log, cut, errors, crashes>>

\* An INSERT that returns an error ends the batch: the events before it are
\* in the table, it and those after it are gone.  When the connection broke,
\* its row may be in the table all the same.
InsertFails ==
    /\ batch # <<>>
    /\ \/ Head(batch) \in Refused /\ UNCHANGED <<errors, audit_log>>
       \/ /\ Head(batch) \notin Refused /\ errors < MaxErrors
          /\ errors' = errors + 1
          /\ audit_log' \in {audit_log, Append(audit_log, Head(batch))}
    /\ failed' = failed \cup {Head(batch)}
    /\ batch' = <<>>
    /\ UNCHANGED <<acted, emitted, channel, cut, crashes>>

\* The process ends (there is no graceful shutdown) and is started again.
\* Handlers between their commit and emit die with it; the INSERT that was
\* running may still commit.
Crash ==
    /\ crashes < MaxCrashes
    /\ crashes' = crashes + 1
    /\ cut' = cut \cup (acted \ ToSet(emitted)) \cup ToSet(channel) \cup ToSet(batch)
    /\ channel' = <<>> /\ batch' = <<>>
    /\ \/ UNCHANGED audit_log
       \/ /\ batch # <<>> /\ Head(batch) \notin Refused
          /\ audit_log' = Append(audit_log, Head(batch))
    /\ UNCHANGED <<acted, emitted, failed, errors>>

Done ==
    /\ acted = Events /\ acted \subseteq ToSet(emitted) \cup cut
    /\ channel = <<>> /\ batch = <<>>
    /\ UNCHANGED vars

Next ==
    \/ \E e \in Events : Act(e) \/ Emit(e)
    \/ Drain \/ Insert \/ InsertFails \/ Crash \/ Done

Spec == Init /\ [][Next]_vars

\* tokio polls the writer and the handlers while they can go on, and every
\* query returns.
Writer == Drain \/ Insert \/ InsertFails

FairSpec ==
    /\ Spec
    /\ WF_vars(Writer)
    /\ \A e \in Events : WF_vars(Emit(e))

-----------------------------------------------------------------------------
(* Properties. *)

Before(s, e, f) == \E i, j \in DOMAIN s : i < j /\ s[i] = e /\ s[j] = f

\* The table, the batch and the channel hold every event at most once, and
\* in the order in which the events were sent, through failed batches and
\* restarts.
InOrderOnce ==
    LET all == audit_log \o batch \o channel
    IN  /\ IsInjective(all)
        /\ \A e, f \in ToSet(all) : Before(all, e, f) => Before(emitted, e, f)

\* An error costs no more than its batch: an event that was sent and is
\* nowhere any more was taken by the end of the process, or fewer than
\* MaxBatch events before it there is one whose INSERT failed.
Index(e) == CHOOSE i \in DOMAIN emitted : emitted[i] = e

Missing == ToSet(emitted) \ ToSet(audit_log \o batch \o channel)

LossWithinBatch ==
    \A e \in Missing \ cut :
        \E f \in failed : Index(f) <= Index(e) /\ Index(e) < Index(f) + MaxBatch

\* The writer keeps going: every event that is sent is inserted or given up.
AlwaysSettled ==
    \A e \in Events :
        e \in ToSet(emitted) ~> e \in Missing \cup ToSet(audit_log)

-----------------------------------------------------------------------------
(* What the documentation says and the code does not do. *)

\* README: "Audit event logged - every action is immutably recorded".
EveryActionRecorded == \A e \in Events \ Refused : e \in acted ~> e \in ToSet(audit_log)
=============================================================================
