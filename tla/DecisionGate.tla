---------------------------- MODULE DecisionGate ----------------------------
(***************************************************************************)
(* Whether a checkpoint may serve as decision memory (runtime/dpm):        *)
(* AppendCorrectionEvent, which records a correction in the session's log  *)
(* and then in an index on the side (correction_protocol.cc);              *)
(* PutCertificate, which stores an audit certificate and then names the    *)
(* latest of a checkpoint (local_filesystem_audit_ledger.cc); and the      *)
(* decision that reads the one and then the other, under no lock           *)
(* (audited_checkpoint_loader.cc, checkpoint_decision_gate.cc).            *)
(*                                                                         *)
(* An append to the log acts at one instant, as EventSink says; so does    *)
(* the replacement of a file, as AtomicFile says. Its temporary file lies  *)
(* in the same directory, where whoever lists the directory finds it.      *)
(***************************************************************************)
EXTENDS Naturals, Sequences, FiniteSets

CONSTANTS
  Checkpoint, Correction, Certificate,
  Mentions,      \* Mentions[c]: the checkpoints a correction is about, in order
  Blocking,      \* the corrections of severity "blocking"
  Actionable,    \* those that compile to replay directives
  About,         \* About[x]: the checkpoint a certificate is about
  Created,       \* Created[x]: its created_unix_micros
  Granting,      \* the certificates that pass, cover the range, and are signed
  None,          \* no certificate
  Thread, CallsOf,
  Fallible,      \* the threads whose calls may fail and whose process may die
  MaxFaults      \* bound: failures and dying processes

VARIABLES
  log,           \* corrections in the session's event log
  root,          \* whether the directory correction_index exists
  index,         \* index[k]: the corrections filed under correction_index/k
  cert,          \* the files in certificates/
  latest,        \* latest[k]: what certificates_by_checkpoint/k.latest names
  litter,        \* temporary files of dead threads: where, and what they hold
  acked,         \* corrections and certificates whose recording returned OK
  raced,         \* history: checkpoints whose latest index two auditors wrote at once
  pc, call,
  at,            \* how many of its checkpoints a correction is filed under
  found,         \* the corrections, then the certificates, a decision goes by
  since,         \* history: what was acknowledged when a decision began
  answer,        \* what a decision came to
  faults

stores == <<log, root, index, cert, latest>>
vars == <<stores, litter, acked, raced, pc, call, at, found, since, answer, faults>>

NoCall == [op |-> "none"]
NoAnswer == [kind |-> "none"]
Contents == {"empty", "partial"} \cup Correction \cup Certificate
Place == Checkpoint \cup {"certificates"}

CallType == [op : {"correct"}, correction : Correction]
              \cup [op : {"certify"}, certificate : Certificate]
              \cup [op : {"decide"}, checkpoint : Checkpoint]

ASSUME DataAssumption ==
  /\ Mentions \in [Correction -> Seq(Checkpoint) \ {<<>>}]
  /\ Blocking \subseteq Correction /\ Actionable \subseteq Correction
  /\ About \in [Certificate -> Checkpoint] /\ Created \in [Certificate -> Nat]
  /\ Granting \subseteq Certificate /\ None \notin Certificate
  /\ Correction \cap Certificate = {}
ASSUME ThreadsAssumption ==
  CallsOf \in [Thread -> SUBSET CallType] /\ Fallible \subseteq Thread
ASSUME MaxFaultsAssumption == MaxFaults \in Nat

Init ==
  /\ log = {} /\ root = FALSE /\ index = [k \in Checkpoint |-> {}]
  /\ cert = {} /\ latest = [k \in Checkpoint |-> None]
  /\ litter = {} /\ acked = {} /\ raced = {}
  /\ pc = [t \in Thread |-> "idle"] /\ call = [t \in Thread |-> NoCall]
  /\ at = [t \in Thread |-> 0] /\ found = [t \in Thread |-> {}]
  /\ since = [t \in Thread |-> {}] /\ answer = [t \in Thread |-> NoAnswer]
  /\ faults = 0

Goto(t, label) == pc' = [pc EXCEPT ![t] = label]

Begin == [op \in {"correct", "certify", "decide"} |->
  CASE op = "correct" -> "append" [] op = "certify" -> "look" [] op = "decide" -> "root"]

Call(t) ==
  /\ pc[t] = "idle"
  /\ \E c \in CallsOf[t] :
       /\ call' = [call EXCEPT ![t] = c]
       /\ Goto(t, Begin[c.op])
       /\ since' = IF c.op = "decide" THEN [since EXCEPT ![t] = acked] ELSE since
  /\ UNCHANGED <<stores, litter, raced, acked, at, found, answer, faults>>

\* A call is over; what it was told stays known to the properties.
End(t) ==
  /\ Goto(t, "idle")
  /\ call' = [call EXCEPT ![t] = NoCall]
  /\ at' = [at EXCEPT ![t] = 0]
  /\ found' = [found EXCEPT ![t] = {}]
  /\ since' = [since EXCEPT ![t] = {}]
  /\ answer' = [answer EXCEPT ![t] = NoAnswer]

Fault(t) == t \in Fallible /\ faults < MaxFaults /\ faults' = faults + 1

-----------------------------------------------------------------------------
(* AppendCorrectionEvent *)

Correcting(t) == call[t].correction
Acknowledge(t, r) == acked' = acked \cup {r} /\ End(t)

AppendEvent(t) ==
  /\ pc[t] = "append"
  /\ log' = log \cup {Correcting(t)}
  /\ Goto(t, "directory")
  /\ UNCHANGED <<root, index, cert, latest, litter, raced, acked, call, at, found, since, answer, faults>>

\* The record may be in the log all the same.
AppendFails(t) ==
  /\ pc[t] = "append" /\ Fault(t)
  /\ log' \in {log, log \cup {Correcting(t)}}
  /\ End(t)
  /\ UNCHANGED <<root, index, cert, latest, litter, raced, acked>>

\* create_directories makes the root of the index too; a temporary file follows.
MakeDirectory(t) ==
  /\ pc[t] = "directory"
  /\ root' = TRUE
  /\ Goto(t, "file")
  /\ UNCHANGED <<log, index, cert, latest, litter, raced, acked, call, at, found, since, answer, faults>>

Under(t) == Mentions[Correcting(t)][at[t] + 1]
File(t) == index' = [index EXCEPT ![Under(t)] = @ \cup {Correcting(t)}]

FileOneOnly(t) ==                                              \* mutant
  /\ pc[t] = "file"
  /\ File(t)
  /\ Acknowledge(t, Correcting(t))
  /\ UNCHANGED <<log, root, cert, latest, litter, raced, faults>>

\* DurablyWriteFile, for each checkpoint the correction mentions.
FileCorrection(t) ==
  /\ pc[t] = "file"
  /\ File(t)
  /\ IF at[t] + 1 < Len(Mentions[Correcting(t)])
     THEN /\ at' = [at EXCEPT ![t] = @ + 1] /\ Goto(t, "directory")
          /\ UNCHANGED <<acked, call, found, since, answer>>
     ELSE Acknowledge(t, Correcting(t))
  /\ UNCHANGED <<log, root, cert, latest, litter, raced, faults>>

\* The file may be there all the same.
FileFails(t) ==
  /\ pc[t] \in {"directory", "file"} /\ Fault(t)
  /\ IF pc[t] = "directory" THEN root' \in {root, TRUE} /\ UNCHANGED index
     ELSE (File(t) \/ UNCHANGED index) /\ UNCHANGED root
  /\ End(t)
  /\ UNCHANGED <<log, cert, latest, litter, raced, acked>>

-----------------------------------------------------------------------------
(* PutCertificate *)

Certifying(t) == call[t].certificate

\* OK for one that is stored already says nothing of the index.
LookForCertificate(t) ==
  /\ pc[t] = "look"
  /\ IF Certifying(t) \in cert THEN End(t)
     ELSE Goto(t, "store") /\ UNCHANGED <<call, at, found, since, answer>>
  /\ UNCHANGED <<stores, litter, acked, raced, faults>>

StoreCertificate(t) ==
  /\ pc[t] = "store"
  /\ cert' = cert \cup {Certifying(t)}
  /\ Goto(t, "compare")
  /\ UNCHANGED <<log, root, index, latest, litter, raced, acked, call, at, found, since, answer, faults>>

Newer(x, y) == y = None \/ Created[y] < Created[x]

Compared(t, newer) ==
  /\ pc[t] = "compare"
  /\ IF newer
     THEN /\ Goto(t, "name") /\ UNCHANGED <<acked, call, at, found, since, answer>>
          /\ raced' = raced \cup {About[Certifying(u)] : u \in
                        {u \in Thread : pc[u] = "name" /\ About[Certifying(u)] = About[Certifying(t)]}}
     ELSE Acknowledge(t, Certifying(t)) /\ UNCHANGED raced
  /\ UNCHANGED <<stores, litter, faults>>

CompareNothing(t) == Compared(t, TRUE)                         \* mutant

\* The latest there is is read; nothing keeps others from writing it now.
CompareLatest(t) == Compared(t, Newer(Certifying(t), latest[About[Certifying(t)]]))

Name(t) == latest' = [latest EXCEPT ![About[Certifying(t)]] = Certifying(t)]

NameLatest(t) ==
  /\ pc[t] = "name"
  /\ Name(t)
  /\ Acknowledge(t, Certifying(t))
  /\ UNCHANGED <<log, root, index, cert, litter, raced, faults>>

CertificateFails(t) ==
  /\ pc[t] \in {"look", "store", "compare", "name"} /\ Fault(t)
  /\ \/ pc[t] = "store" /\ cert' = cert \cup {Certifying(t)} /\ UNCHANGED latest
     \/ pc[t] = "name" /\ Name(t) /\ UNCHANGED cert
     \/ UNCHANGED <<cert, latest>>
  /\ End(t)
  /\ UNCHANGED <<log, root, index, litter, raced, acked>>

-----------------------------------------------------------------------------
(* What a directory shows *)

\* The temporary files that running calls may have there, by what they will hold.
\* Whoever lists the directory finds them or not, and reads them empty, in part,
\* in full or not at all.
Unfinished(place) ==
  {Correcting(t) : t \in {u \in Thread : pc[u] = "file" /\ Under(u) = place}}
    \cup {Certifying(t) : t \in {u \in Thread : pc[u] = "store" /\ place = "certificates"}}

Left(place) == {l.holds : l \in {m \in litter : m.place = place}}

-----------------------------------------------------------------------------
(* LoadOrReplayAuditedProjectionCheckpointForDecision *)

Deciding(t) == call[t].checkpoint
Decided(t, a) == answer' = [answer EXCEPT ![t] = a] /\ Goto(t, "return")
Refused == [kind |-> "refused"]
Error == [kind |-> "error"]

\* LoadForCheckpoint: without an index, the log says what was corrected.
LookForIndex(t) ==
  /\ pc[t] = "root"
  /\ Goto(t, IF root THEN "index" ELSE "events")
  /\ UNCHANGED <<stores, litter, raced, acked, call, at, found, since, answer, faults>>

ReadEvents(t) ==
  /\ pc[t] = "events"
  /\ found' = [found EXCEPT ![t] = log]
  /\ Goto(t, "gate")
  /\ UNCHANGED <<stores, litter, raced, acked, call, at, since, answer, faults>>

\* Whatever is filed when the directory is opened will be read; half a correction is
\* no JSON.
OpenIndex(t) ==
  /\ pc[t] = "index" /\ "partial" \notin Left(Deciding(t))
  /\ found' = [found EXCEPT ![t] = index[Deciding(t)] \cup (Left(Deciding(t)) \cap Correction)]
  /\ Goto(t, "files")
  /\ UNCHANGED <<stores, litter, raced, acked, call, at, since, answer, faults>>

\* What comes later may be read; an empty file is skipped.
ReadFiles(t) ==
  /\ pc[t] = "files"
  /\ \E read \in SUBSET (index[Deciding(t)] \cup Unfinished(Deciding(t))) :
       found' = [found EXCEPT ![t] = @ \cup read]
  /\ Goto(t, "gate")
  /\ UNCHANGED <<stores, litter, raced, acked, call, at, since, answer, faults>>

IndexUnreadable(t) ==
  /\ pc[t] \in {"index", "files"}
  /\ Unfinished(Deciding(t)) # {} \/ "partial" \in Left(Deciding(t))
  /\ Decided(t, Error)
  /\ UNCHANGED <<stores, litter, raced, acked, call, at, found, since, faults>>

IsAbout(c, k) == \E i \in 1..Len(Mentions[c]) : Mentions[c][i] = k
BlockingCorrectionsFor(corrections, k) == {c \in corrections \cap Blocking : IsAbout(c, k)}

\* EvaluateCorrectionBarrier: whoever is not blocked asks the ledger.
PassBarrier(t) ==
  /\ pc[t] = "gate"
  /\ BlockingCorrectionsFor(found[t], Deciding(t)) = {}
  /\ Goto(t, "latest")
  /\ UNCHANGED <<stores, litter, raced, acked, call, at, found, since, answer, faults>>

Judge(t, x) ==
  IF x \in Granting
  THEN answer' = [answer EXCEPT ![t] = [kind |-> "use", by |-> x]] /\ Goto(t, "load")
  ELSE Decided(t, Refused)

\* The index names a certificate, and it is there.
LatestForCheckpoint(t) ==
  /\ pc[t] = "latest" /\ latest[Deciding(t)] # None
  /\ Judge(t, latest[Deciding(t)])
  /\ UNCHANGED <<stores, litter, raced, acked, call, at, found, since, faults>>

\* There is no index, or what it names cannot be read.
PassOverLatest(t) ==
  /\ pc[t] = "latest"
  /\ IF latest[Deciding(t)] = None THEN UNCHANGED faults ELSE Fault(t)
  /\ Goto(t, "list")
  /\ UNCHANGED <<stores, litter, raced, acked, call, at, found, since, answer>>

\* All certificates of the session are read for the latest of the checkpoint, as
\* the files of the index are, but an empty one is unreadable.
OpenCertificates(t) ==
  /\ pc[t] = "list"
  /\ Left("certificates") \cap {"empty", "partial"} = {}
  /\ found' = [found EXCEPT ![t] = cert \cup Left("certificates")]
  /\ Goto(t, "certificates")
  /\ UNCHANGED <<stores, litter, raced, acked, call, at, since, answer, faults>>

ListForCheckpoint(t) ==
  /\ pc[t] = "certificates"
  /\ \E read \in SUBSET (cert \cup Unfinished("certificates")) :
       LET those == {x \in found[t] \cup read : About[x] = Deciding(t)} IN
       \/ those = {} /\ Decided(t, Refused)
       \/ \E x \in those : /\ \A y \in those : Created[y] <= Created[x]
                           /\ Judge(t, x)
  /\ UNCHANGED <<stores, litter, raced, acked, call, at, found, since, faults>>

LedgerUnreadable(t) ==
  /\ pc[t] \in {"list", "certificates"}
  /\ \/ Left("certificates") \cap {"empty", "partial"} # {}
     \/ Unfinished("certificates") # {}
  /\ Decided(t, Error)
  /\ UNCHANGED <<stores, litter, raced, acked, call, at, found, since, faults>>

\* LoadProjectionCheckpoint.
LoadCheckpoint(t) ==
  /\ pc[t] = "load"
  /\ Goto(t, "return")
  /\ UNCHANGED <<stores, litter, raced, acked, call, at, found, since, answer, faults>>

ReplayFirst(t) ==                                              \* mutant
  /\ pc[t] = "gate"
  /\ \E c \in BlockingCorrectionsFor(found[t], Deciding(t)) :
       Decided(t, [kind |-> "replay", directives |-> {c}])
  /\ UNCHANGED <<stores, litter, raced, acked, call, at, found, since, faults>>

\* The raw events, without what the blocking corrections invalidate. A correction
\* that compiles to nothing fails the call.
ReplayEvents(t) ==
  /\ pc[t] = "gate"
  /\ LET blocking == BlockingCorrectionsFor(found[t], Deciding(t)) IN
     /\ blocking # {}
     /\ Decided(t, IF blocking \subseteq Actionable
                   THEN [kind |-> "replay", directives |-> blocking] ELSE Error)
  /\ UNCHANGED <<stores, litter, raced, acked, call, at, found, since, faults>>

DecisionFails(t) ==
  /\ pc[t] \in {"events", "index", "files", "gate", "latest", "list", "certificates", "load"}
  /\ Fault(t)
  /\ Decided(t, Error)
  /\ UNCHANGED <<stores, litter, raced, acked, call, at, found, since>>

ReturnHolding(t) ==                                            \* mutant
  /\ pc[t] = "return"
  /\ Goto(t, "idle")
  /\ UNCHANGED <<stores, litter, raced, acked, call, at, found, since, answer, faults>>

Return(t) ==
  /\ pc[t] = "return"
  /\ End(t)
  /\ UNCHANGED <<stores, litter, raced, acked, faults>>

-----------------------------------------------------------------------------
\* A process dies; the temporary file it was writing stays, with what it held.
Crash(t) ==
  /\ pc[t] # "idle" /\ Fault(t)
  /\ \/ UNCHANGED litter
     \/ pc[t] = "file" /\ \E h \in {"empty", "partial", Correcting(t)} :
          litter' = litter \cup {[place |-> Under(t), holds |-> h]}
     \/ pc[t] = "store" /\ \E h \in {"empty", "partial", Certifying(t)} :
          litter' = litter \cup {[place |-> "certificates", holds |-> h]}
  /\ End(t)
  /\ UNCHANGED <<stores, acked, raced>>

Next == \E t \in Thread :
  \/ Call(t)
  \/ AppendEvent(t) \/ AppendFails(t) \/ MakeDirectory(t) \/ FileCorrection(t) \/ FileFails(t)
  \/ LookForCertificate(t) \/ StoreCertificate(t) \/ CompareLatest(t) \/ NameLatest(t)
  \/ CertificateFails(t)
  \/ LookForIndex(t) \/ ReadEvents(t) \/ OpenIndex(t) \/ ReadFiles(t) \/ IndexUnreadable(t)
  \/ PassBarrier(t) \/ LatestForCheckpoint(t) \/ PassOverLatest(t)
  \/ OpenCertificates(t) \/ ListForCheckpoint(t) \/ LedgerUnreadable(t)
  \/ LoadCheckpoint(t) \/ ReplayEvents(t) \/ DecisionFails(t) \/ Return(t)
  \/ Crash(t)

Spec == Init /\ [][Next]_vars

-----------------------------------------------------------------------------
(* Properties *)

AnswerType == {NoAnswer, Refused, Error}
                \cup [kind : {"use"}, by : Certificate]
                \cup [kind : {"replay"}, directives : SUBSET Correction]

Labels == {"idle", "append", "directory", "file", "look", "store", "compare", "name",
           "root", "events", "index", "files", "gate", "latest", "list", "certificates",
           "load", "return"}

TypeOK ==
  /\ log \subseteq Correction /\ root \in BOOLEAN
  /\ index \in [Checkpoint -> SUBSET Correction]
  /\ cert \subseteq Certificate /\ latest \in [Checkpoint -> Certificate \cup {None}]
  /\ litter \subseteq [place : Place, holds : Contents]
  /\ acked \subseteq Correction \cup Certificate /\ raced \subseteq Checkpoint
  /\ pc \in [Thread -> Labels] /\ call \in [Thread -> CallType \cup {NoCall}]
  /\ at \in [Thread -> Nat] /\ found \in [Thread -> SUBSET (Correction \cup Certificate)]
  /\ since \in [Thread -> SUBSET (Correction \cup Certificate)]
  /\ answer \in [Thread -> AnswerType]
  /\ faults \in 0..MaxFaults
  /\ \A t \in Thread :
       /\ pc[t] = "idle" => call[t] = NoCall /\ found[t] = {} /\ at[t] = 0
       /\ answer[t] # NoAnswer => pc[t] \in {"load", "return"}
       /\ pc[t] \in {"directory", "file"} => at[t] < Len(Mentions[Correcting(t)])

\* A decision that began after a blocking correction was acknowledged does not use
\* the checkpoint: blocking corrections fail closed (audited_checkpoint_loader.h:73-76).
AckedCorrectionsBlock ==
  \A t \in Thread : answer[t].kind = "use" =>
    BlockingCorrectionsFor(since[t] \cap Correction, Deciding(t)) = {}

\* A replay goes by every blocking correction that was acknowledged before it
\* began (audited_checkpoint_loader.h:84-86).
ReplayHonoursAcked ==
  \A t \in Thread : answer[t].kind = "replay" =>
    BlockingCorrectionsFor(since[t] \cap Correction, Deciding(t)) \subseteq answer[t].directives

\* The latest certificate controls: no certificate about the checkpoint that was
\* acknowledged before the decision began is newer than the one it went by, whichever
\* way it found that one (local_filesystem_audit_ledger_test.cc:78-99). A checkpoint
\* whose index two auditors wrote at once is excepted.
LatestControls ==
  \A t \in Thread : answer[t].kind = "use" /\ Deciding(t) \notin raced =>
    \A x \in since[t] \cap Certificate :
      About[x] = Deciding(t) => Created[x] <= Created[answer[t].by]
=============================================================================
