----------------------------- MODULE VetSession -----------------------------
(***************************************************************************)
(* The vet commands on one session (tools/vet): record, correction, init,  *)
(* handoff and verify, each a process of its own.  They share the event    *)
(* log, the identity document aid.json and the bundle a handoff writes.    *)
(*                                                                         *)
(* An append or a load of the log acts at one instant, as EventLog shows;  *)
(* but the digest of the log is of the raw bytes of the file, read under   *)
(* no lock, so that it may be of half a record.  The other two files are   *)
(* truncated and written in place.                                         *)
(***************************************************************************)
EXTENDS Naturals, Sequences, FiniteSets

CONSTANTS
  Process,
  CallsOf,       \* CallsOf[p]: the commands p may be
  Given,         \* values of --step-index
  MaxEvents,     \* bound: appends to the log
  MaxAids,       \* bound: identity documents
  MaxFaults,     \* bound: processes that die
  Nobody

Commands == {"record", "correction", "init", "handoff", "verify"}

ASSUME CallsAssumption == CallsOf \in [Process -> SUBSET Commands]
ASSUME GivenAssumption == Given \subseteq Nat \ {0}
ASSUME BoundsAssumption == MaxEvents \in Nat /\ MaxAids \in Nat /\ MaxFaults \in Nat
ASSUME NobodyAssumption == Nobody \notin Process
ASSUME ProcessAssumption == IsFiniteSet(Process)

VARIABLES
  log,           \* the events a load finds
  raw,           \* the file in half records: its digest, since it only grows
  damaged,       \* half a record has been left in it, and no load succeeds
  writer,        \* who holds the log's lock
  aid,           \* which document aid.json is; 0: none, or none that can be read
  versions,      \* documents there have been; each has its own time
  handoff,       \* the bundle file
  pc, call,
  given,         \* the --step-index of a record, 0 for none
  read,          \* what a command has read so far
  bundle,        \* the bundle a verification is about
  verdict,
  since,         \* history: events there were when the command began
  disordered,    \* history: a step was given, or found while another was being recorded
  faults

files == <<log, raw, damaged, writer, aid, versions, handoff>>
local == <<call, given, read, bundle, verdict, since>>
vars == <<files, pc, local, disordered, faults>>

NothingRead == [count |-> 0, start |-> 0, aid |-> 0, raw |-> 0]
NoBundle == [count |-> 0, corrections |-> {}, aid |-> 0, raw |-> 0, start |-> 0]

Init ==
  /\ log = <<>> /\ raw = 0 /\ damaged = FALSE /\ writer = Nobody
  /\ aid = 0 /\ versions = 0 /\ handoff = NoBundle
  /\ pc = [p \in Process |-> "idle"] /\ call = [p \in Process |-> "none"]
  /\ given = [p \in Process |-> 0]
  /\ read = [p \in Process |-> NothingRead] /\ bundle = [p \in Process |-> NoBundle]
  /\ verdict = [p \in Process |-> "none"] /\ since = [p \in Process |-> 0]
  /\ disordered = FALSE /\ faults = 0

Appends(p) == call[p] \in {"record", "correction"}
MayWriteAid(p) == call[p] \in {"init", "handoff"}

\* Bounds: a command begins when there is room for what it may write.
Room(c) ==
  CASE c \in {"record", "correction"} ->
         raw + 2 * Cardinality({p \in Process : Appends(p)}) + 2 <= 2 * MaxEvents
    [] c \in {"init", "handoff"} ->
         versions + Cardinality({p \in Process : MayWriteAid(p)}) < MaxAids
    [] c = "verify" -> TRUE

Begin(c) ==
  CASE c = "init" -> "open aid" [] c = "verify" -> "read bundle" [] OTHER -> "load"

Goto(p, label) == pc' = [pc EXCEPT ![p] = label]

RunCommand(p) ==
  /\ pc[p] = "idle"
  /\ \E c \in CallsOf[p] :
       /\ Room(c)
       /\ call' = [call EXCEPT ![p] = c] /\ Goto(p, Begin(c))
       /\ \E n \in {0} \cup {n \in Given : c = "record"} :
            /\ given' = [given EXCEPT ![p] = n]
            /\ disordered' = (disordered \/ n # 0)
  /\ since' = [since EXCEPT ![p] = Len(log)]
  /\ UNCHANGED <<files, read, bundle, verdict, faults>>

\* A command is over, and its process gone.
End(p) ==
  /\ Goto(p, "idle") /\ call' = [call EXCEPT ![p] = "none"]
  /\ given' = [given EXCEPT ![p] = 0]
  /\ read' = [read EXCEPT ![p] = NothingRead] /\ bundle' = [bundle EXCEPT ![p] = NoBundle]
  /\ verdict' = [verdict EXCEPT ![p] = "none"] /\ since' = [since EXCEPT ![p] = 0]

Read(p, what) == read' = [read EXCEPT ![p] = what]

-----------------------------------------------------------------------------
(* AppendEvent *)

\* A log that cannot be loaded counts as empty.
CountEvents(p) ==
  /\ pc[p] = "load" /\ Appends(p) /\ writer = Nobody
  /\ Read(p, [read[p] EXCEPT !.count = IF damaged THEN 0 ELSE Len(log)])
  /\ disordered' = (disordered \/ \E q \in Process \ {p} : Appends(q) /\ pc[q] # "load")
  /\ Goto(p, "append")
  /\ UNCHANGED <<files, call, given, bundle, verdict, since, faults>>

BeginAppendUnlocked(p) ==                                      \* mutant
  /\ pc[p] = "append"
  /\ writer' = p /\ raw' = raw + 1
  /\ Goto(p, "write")
  /\ UNCHANGED <<log, damaged, aid, versions, handoff, local, disordered, faults>>

BeginAppend(p) ==
  /\ pc[p] = "append" /\ writer = Nobody
  /\ writer' = p /\ raw' = raw + 1
  /\ Goto(p, "write")
  /\ UNCHANGED <<log, damaged, aid, versions, handoff, local, disordered, faults>>

NextStepOfLast(p) == IF given[p] # 0 THEN given[p] ELSE read[p].count   \* mutant

NextStep(p) == IF given[p] # 0 THEN given[p] ELSE read[p].count + 1

EndAppend(p) ==
  /\ pc[p] = "write"
  /\ writer' = Nobody /\ raw' = raw + 1
  /\ log' = IF damaged THEN log ELSE Append(log, [type |-> call[p], step |-> NextStep(p)])
  /\ End(p)
  /\ UNCHANGED <<damaged, aid, versions, handoff, disordered, faults>>

-----------------------------------------------------------------------------
(* The identity document, by init and by a handoff that finds none it can read *)

OpenAid(p) ==
  /\ pc[p] = "open aid"
  /\ aid' = 0
  /\ Goto(p, "write aid")
  /\ UNCHANGED <<log, raw, damaged, writer, versions, handoff, local, disordered, faults>>

\* Written over what another wrote since, it may leave some of that behind.
WriteAidFile(p) ==
  /\ pc[p] = "write aid"
  /\ versions' = versions + 1
  /\ aid' \in {versions'} \cup {n \in {0} : aid # 0}
  /\ IF call[p] = "init" THEN End(p)
     ELSE /\ Read(p, [read[p] EXCEPT !.aid = versions']) /\ Goto(p, "digest")
          /\ UNCHANGED <<call, given, bundle, verdict, since>>
  /\ UNCHANGED <<log, raw, damaged, writer, handoff, disordered, faults>>

-----------------------------------------------------------------------------
(* RunHandoff *)

LoadEvents(p) ==
  /\ pc[p] = "load" /\ call[p] = "handoff" /\ writer = Nobody
  /\ IF damaged THEN End(p)
     ELSE /\ Read(p, [read[p] EXCEPT !.count = Len(log), !.start = raw])
          /\ Goto(p, "read aid")
          /\ UNCHANGED <<call, given, bundle, verdict, since>>
  /\ UNCHANGED <<files, disordered, faults>>

ReadAidFile(p) ==
  /\ pc[p] = "read aid"
  /\ IF aid = 0 THEN Goto(p, "open aid") /\ UNCHANGED read
     ELSE Goto(p, "digest") /\ Read(p, [read[p] EXCEPT !.aid = aid])
  /\ UNCHANGED <<files, call, given, bundle, verdict, since, disordered, faults>>

ComputeTraceDigestFromFile(p) ==
  /\ pc[p] = "digest"
  /\ IF raw = 0 THEN End(p)
     ELSE /\ Read(p, [read[p] EXCEPT !.raw = raw]) /\ Goto(p, "open output")
          /\ UNCHANGED <<call, given, bundle, verdict, since>>
  /\ UNCHANGED <<files, disordered, faults>>

Corrections(n) == {i \in 1..n : log[i].type = "correction"}

BuildHandoffBundle(p) ==
  [count |-> read[p].count, corrections |-> Corrections(read[p].count),
   aid |-> read[p].aid, raw |-> read[p].raw, start |-> read[p].start]

OpenOutput(p) ==
  /\ pc[p] = "open output"
  /\ handoff' = NoBundle
  /\ Goto(p, "output")
  /\ UNCHANGED <<log, raw, damaged, writer, aid, versions, local, disordered, faults>>

WriteOutput(p) ==
  /\ pc[p] = "output"
  /\ handoff' \in {BuildHandoffBundle(p)} \cup {b \in {NoBundle} : handoff # NoBundle}
  /\ End(p)
  /\ UNCHANGED <<log, raw, damaged, writer, aid, versions, disordered, faults>>

-----------------------------------------------------------------------------
(* RunVerify *)

ValidateExecutionTraceSeen(events) ==                          \* mutant
  \A i, j \in 1..Len(events) : i <= j => events[i].step < events[j].step

\* Steps that were not recorded would count as the event's place.
ValidateExecutionTrace(events) ==
  \A i, j \in 1..Len(events) : i < j => events[i].step < events[j].step

VerifyDigestOnly(b, live, events) ==                           \* mutant
  b.aid = live.aid /\ b.raw = live.raw /\ ValidateExecutionTrace(events)

\* VerifyHandoffBundle, of the bundle b, what was read of the files, and the events.
Verified(b, live, events) ==
  /\ b.aid = live.aid /\ b.raw = live.raw
  /\ b.count = Len(events)
  /\ Cardinality(b.corrections) = Cardinality(Corrections(Len(events)))
  /\ ValidateExecutionTrace(events)

Judge(p, v) == verdict' = [verdict EXCEPT ![p] = v] /\ Goto(p, "return")

ReadBundle(p) ==
  /\ pc[p] = "read bundle"
  /\ IF handoff = NoBundle THEN End(p)
     ELSE /\ bundle' = [bundle EXCEPT ![p] = handoff] /\ Goto(p, "verify aid")
          /\ UNCHANGED <<call, given, read, verdict, since>>
  /\ UNCHANGED <<files, disordered, faults>>

VerifyAid(p) ==
  /\ pc[p] = "verify aid"
  /\ IF aid = 0 THEN Judge(p, "rejected") /\ UNCHANGED read
     ELSE /\ Read(p, [read[p] EXCEPT !.aid = aid]) /\ Goto(p, "verify digest")
          /\ UNCHANGED verdict
  /\ UNCHANGED <<files, call, given, bundle, since, disordered, faults>>

VerifyDigest(p) ==
  /\ pc[p] = "verify digest"
  /\ Read(p, [read[p] EXCEPT !.raw = raw]) /\ Goto(p, "verify events")
  /\ UNCHANGED <<files, call, given, bundle, verdict, since, disordered, faults>>

VerifyEvents(p) ==
  /\ pc[p] = "verify events" /\ writer = Nobody
  /\ Judge(p, IF ~damaged /\ Verified(bundle[p], read[p], log) THEN "verified" ELSE "rejected")
  /\ UNCHANGED <<files, call, given, read, bundle, since, disordered, faults>>

Return(p) == pc[p] = "return" /\ End(p) /\ UNCHANGED <<files, disordered, faults>>

-----------------------------------------------------------------------------
\* A process dies where it is; the lock goes with it, and half a record stays.
Die(p) ==
  /\ pc[p] \notin {"idle", "return"} /\ faults < MaxFaults /\ faults' = faults + 1
  /\ writer' = IF writer = p THEN Nobody ELSE writer
  /\ damaged' = (damaged \/ writer = p)
  /\ End(p)
  /\ UNCHANGED <<log, raw, aid, versions, handoff, disordered>>

Next == \E p \in Process :
  \/ RunCommand(p) \/ Return(p) \/ Die(p)
  \/ CountEvents(p) \/ BeginAppend(p) \/ EndAppend(p)
  \/ OpenAid(p) \/ WriteAidFile(p)
  \/ LoadEvents(p) \/ ReadAidFile(p) \/ ComputeTraceDigestFromFile(p)
  \/ OpenOutput(p) \/ WriteOutput(p)
  \/ ReadBundle(p) \/ VerifyAid(p) \/ VerifyDigest(p) \/ VerifyEvents(p)

Spec == Init /\ [][Next]_vars

-----------------------------------------------------------------------------
(* Properties *)

Labels == {"idle", "load", "append", "write", "open aid", "write aid", "read aid", "digest",
           "open output", "output", "read bundle", "verify aid", "verify digest",
           "verify events", "return"}
EventType == [type : {"record", "correction"}, step : Nat]
ReadType == [count : Nat, start : Nat, aid : Nat, raw : Nat]
BundleType ==
  [count : Nat, corrections : SUBSET (1..MaxEvents), aid : Nat, raw : Nat, start : Nat]

\* Every variable has its type, and who writes holds the lock.
TypeOK ==
  /\ log \in Seq(EventType) /\ raw \in Nat /\ damaged \in BOOLEAN
  /\ writer \in Process \cup {Nobody}
  /\ aid \in 0..MaxAids /\ versions \in 0..MaxAids /\ handoff \in BundleType
  /\ pc \in [Process -> Labels] /\ call \in [Process -> Commands \cup {"none"}]
  /\ given \in [Process -> {0} \cup Given]
  /\ read \in [Process -> ReadType] /\ bundle \in [Process -> BundleType]
  /\ verdict \in [Process -> {"none", "verified", "rejected"}] /\ since \in [Process -> Nat]
  /\ disordered \in BOOLEAN /\ faults \in 0..MaxFaults
  /\ \A p \in Process : pc[p] = "write" <=> writer = p

\* A verified bundle has every event, and every correction, that was on record when
\* the verification began, and its digest is of exactly its events -- although a
\* handoff takes the events and the digest at different moments, and a
\* verification the digest and the events (vet_main.cc:735-749).
VerifiedComplete ==
  \A p \in Process : verdict[p] = "verified" =>
    /\ bundle[p].count >= since[p]
    /\ bundle[p].corrections = Corrections(bundle[p].count)
    /\ bundle[p].raw = 2 * bundle[p].count

\* A bundle is rejected only if since its handoff began the log has grown, or the
\* identity document was replaced, or if the steps of the log are disordered.
RejectedHasReason ==
  \A p \in Process : verdict[p] = "rejected" =>
    raw # bundle[p].start \/ aid # bundle[p].aid \/ disordered

\* Steps are numbered like the events as long as no step was given and no two
\* commands recorded at once: the next step is found before it is appended
\* (vet_main.cc:335-339).
StepsInOrder == ~disordered => \A i \in 1..Len(log) : log[i].step = i
=============================================================================
