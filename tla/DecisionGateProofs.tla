------------------------- MODULE DecisionGateProofs -------------------------
(***************************************************************************)
(* DecisionGate is type correct, a decision heeds every blocking           *)
(* correction that was acknowledged before it began, and it goes by no     *)
(* certificate older than one that was.                                    *)
(***************************************************************************)
EXTENDS DecisionGate, TLAPS

-----------------------------------------------------------------------------
(* Type correctness *)

Correcters == {"append", "directory", "file"}
Certifiers == {"look", "store", "compare", "name"}
Deciders == {"root", "events", "index", "files", "gate", "latest", "list", "certificates",
             "load", "return"}

DataType ==
  /\ log \subseteq Correction /\ root \in BOOLEAN
  /\ index \in [Checkpoint -> SUBSET Correction]
  /\ cert \subseteq Certificate /\ latest \in [Checkpoint -> Certificate \cup {None}]
  /\ litter \subseteq [place : Place, holds : Contents]
  /\ acked \subseteq Correction \cup Certificate /\ raced \subseteq Checkpoint
  /\ faults \in 0..MaxFaults

FunctionType ==
  /\ pc \in [Thread -> Labels] /\ call \in [Thread -> CallType \cup {NoCall}]
  /\ at \in [Thread -> Nat] /\ found \in [Thread -> SUBSET (Correction \cup Certificate)]
  /\ since \in [Thread -> SUBSET (Correction \cup Certificate)]
  /\ answer \in [Thread -> AnswerType]

\* What a thread does is what it was called for.
Matches(t) ==
  /\ pc[t] \in Correcters => call[t] \in [op : {"correct"}, correction : Correction]
  /\ pc[t] \in Certifiers => call[t] \in [op : {"certify"}, certificate : Certificate]
  /\ pc[t] \in Deciders => call[t] \in [op : {"decide"}, checkpoint : Checkpoint]

Fits(t) ==
  /\ pc[t] = "idle" => call[t] = NoCall /\ found[t] = {}
  /\ answer[t] # NoAnswer => pc[t] \in {"load", "return"}
  /\ pc[t] \in {"directory", "file"} => at[t] < Len(Mentions[Correcting(t)])
  /\ pc[t] \notin {"directory", "file"} => at[t] = 0
  /\ Matches(t)

IInv == DataType /\ FunctionType /\ \A t \in Thread : Fits(t)

LEMMA IInvIsTypeOK == IInv => TypeOK
<1>1. SUFFICES ASSUME IInv PROVE TypeOK
  OBVIOUS
<1>2. DataType /\ FunctionType
  BY <1>1 DEF IInv
<1>3. ASSUME NEW t \in Thread
      PROVE  /\ pc[t] = "idle" => call[t] = NoCall /\ found[t] = {} /\ at[t] = 0
             /\ answer[t] # NoAnswer => pc[t] \in {"load", "return"}
             /\ pc[t] \in {"directory", "file"} => at[t] < Len(Mentions[Correcting(t)])
  BY <1>1 DEF IInv, Fits
<1>4. QED
  BY <1>2, <1>3 DEF TypeOK, DataType, FunctionType

\* What a thread did not touch keeps its shape.
Untouched(u) ==
  /\ pc'[u] = pc[u] /\ call'[u] = call[u] /\ at'[u] = at[u] /\ found'[u] = found[u]
  /\ since'[u] = since[u] /\ answer'[u] = answer[u]

LEMMA UntouchedFits ==
  ASSUME NEW u \in Thread, Fits(u), Untouched(u)
  PROVE  Fits(u)'
BY DEF Fits, Untouched, Matches, Correcting

\* The invariant of the next state, from the parts of the thread that took the step.
LEMMA Assemble ==
  ASSUME IInv, NEW t \in Thread, DataType', FunctionType', Fits(t)',
         \A u \in Thread \ {t} : Untouched(u)
  PROVE  IInv'
<1>1. ASSUME NEW u \in Thread PROVE Fits(u)'
  <2>1. CASE u = t
    BY <2>1
  <2>2. CASE u # t
    <3>1. Fits(u) /\ Untouched(u)
      BY <2>2 DEF IInv
    <3>2. QED
      BY <3>1, UntouchedFits
  <2>3. QED
    BY <2>1, <2>2
<1>2. QED
  BY <1>1 DEF IInv

\* A call that ends leaves its thread idle and the others alone.
LEMMA EndFits ==
  ASSUME FunctionType, NEW t \in Thread, End(t)
  PROVE  FunctionType' /\ Fits(t)' /\ \A u \in Thread \ {t} : Untouched(u)
<1>1. /\ pc' = [pc EXCEPT ![t] = "idle"] /\ call' = [call EXCEPT ![t] = NoCall]
      /\ at' = [at EXCEPT ![t] = 0] /\ found' = [found EXCEPT ![t] = {}]
      /\ since' = [since EXCEPT ![t] = {}] /\ answer' = [answer EXCEPT ![t] = NoAnswer]
  BY DEF End, Goto
<1>2. NoAnswer \in AnswerType /\ "idle" \in Labels
  BY DEF AnswerType, Labels
<1>3. FunctionType'
  BY <1>1, <1>2 DEF FunctionType
<1>4. /\ pc'[t] = "idle" /\ call'[t] = NoCall /\ at'[t] = 0 /\ found'[t] = {}
      /\ answer'[t] = NoAnswer
  BY <1>1 DEF FunctionType
<1>5. Fits(t)'
  BY <1>4 DEF Fits, Matches, Correcters, Certifiers, Deciders
<1>6. \A u \in Thread \ {t} : Untouched(u)
  BY <1>1 DEF Untouched, FunctionType
<1>7. QED
  BY <1>3, <1>5, <1>6

LEMMA EndKeeps ==
  ASSUME IInv, NEW t \in Thread, DataType', End(t)
  PROVE  IInv'
BY EndFits, Assemble DEF IInv

\* A thread only goes on, and may decide or find something.
Goes(t, l, f, a, n) ==
  /\ pc' = [pc EXCEPT ![t] = l] /\ call' = call /\ since' = since
  /\ at' = [at EXCEPT ![t] = n] /\ found' = [found EXCEPT ![t] = f]
  /\ answer' = [answer EXCEPT ![t] = a]

LEMMA GoFits ==
  ASSUME FunctionType, NEW t \in Thread, NEW l \in Labels,
         NEW f \in SUBSET (Correction \cup Certificate), NEW a \in AnswerType, NEW n \in Nat,
         Goes(t, l, f, a, n)
  PROVE  /\ FunctionType' /\ \A u \in Thread \ {t} : Untouched(u)
         /\ pc'[t] = l /\ call'[t] = call[t] /\ at'[t] = n /\ found'[t] = f /\ answer'[t] = a
<1>1. FunctionType'
  BY DEF FunctionType, Goes
<1>2. \A u \in Thread \ {t} : Untouched(u)
  BY DEF Untouched, FunctionType, Goes
<1>3. QED
  BY <1>1, <1>2 DEF FunctionType, Goes

\* What a variable is when a step changes nothing of it.
LEMMA Same ==
  ASSUME FunctionType, NEW t \in Thread
  PROVE  /\ at = [at EXCEPT ![t] = at[t]] /\ at[t] \in Nat
         /\ found = [found EXCEPT ![t] = found[t]] /\ found[t] \in SUBSET (Correction \cup Certificate)
         /\ answer = [answer EXCEPT ![t] = answer[t]] /\ answer[t] \in AnswerType
BY DEF FunctionType

\* A thread goes from one place to another and changes nothing but the stores.
LEMMA GoKeeps ==
  ASSUME IInv, NEW t \in Thread, NEW l \in Labels, DataType', Goto(t, l),
         UNCHANGED <<call, at, found, since, answer>>,
         Fits(t)'
  PROVE  IInv'
<1>1. FunctionType
  BY DEF IInv
<1>2. at[t] \in Nat /\ found[t] \in SUBSET (Correction \cup Certificate) /\ answer[t] \in AnswerType
  BY <1>1, Same
<1>3. Goes(t, l, found[t], answer[t], at[t])
  BY <1>1, Same DEF Goes, Goto
<1>4. FunctionType' /\ \A u \in Thread \ {t} : Untouched(u)
  BY <1>1, <1>2, <1>3, GoFits
<1>5. QED
  BY <1>4, Assemble

\* What a going thread's invariant says of it, from the one it had.
LEMMA GoFitsThere ==
  ASSUME IInv, NEW t \in Thread, NEW l \in Labels, Goto(t, l),
         UNCHANGED <<call, at, found, since, answer>>,
         pc[t] # "idle", l # "idle",
         pc[t] \in Correcters <=> l \in Correcters,
         pc[t] \in Certifiers <=> l \in Certifiers,
         pc[t] \in Deciders <=> l \in Deciders,
         pc[t] = "load" => l = "return",
         pc[t] # "return",
         l \in {"directory", "file"} => at[t] < Len(Mentions[Correcting(t)]),
         l \notin {"directory", "file"} => at[t] = 0
  PROVE  Fits(t)'
<1>1. pc'[t] = l
  BY DEF IInv, FunctionType, Goto
<1>2. Fits(t)
  BY DEF IInv
<1>3. answer[t] # NoAnswer => l \in {"load", "return"}
  BY <1>2 DEF Fits
<1>4. Matches(t)'
  BY <1>1, <1>2 DEF Fits, Matches
<1>5. Correcting(t)' = Correcting(t)
  BY DEF Correcting
<1>6. QED
  BY <1>1, <1>3, <1>4, <1>5 DEF Fits

\* A decision is made.
LEMMA DecidedKeeps ==
  ASSUME IInv, NEW t \in Thread, NEW a \in AnswerType, DataType', Decided(t, a),
         pc[t] \in Deciders, UNCHANGED <<call, at, found, since>>
  PROVE  IInv'
<1>1. FunctionType /\ Fits(t)
  BY DEF IInv
<1>2. /\ Goes(t, "return", found[t], a, at[t]) /\ "return" \in Labels
      /\ at[t] \in Nat /\ found[t] \in SUBSET (Correction \cup Certificate)
  BY <1>1, Same DEF Decided, Goto, Labels, Goes
<1>3. /\ FunctionType' /\ \A u \in Thread \ {t} : Untouched(u)
      /\ pc'[t] = "return" /\ call'[t] = call[t] /\ at'[t] = at[t] /\ answer'[t] = a
  BY <1>1, <1>2, GoFits
<1>4. at[t] = 0
  BY <1>1 DEF Fits, Deciders
<1>5. call[t] \in [op : {"decide"}, checkpoint : Checkpoint]
  BY <1>1 DEF Fits, Matches
<1>6. Fits(t)'
  BY <1>3, <1>4, <1>5 DEF Fits, Matches, Correcters, Certifiers, Deciders
<1>7. QED
  BY <1>3, <1>6, Assemble

LEMMA Answers ==
  /\ Refused \in AnswerType /\ Error \in AnswerType
  /\ \A x \in Certificate : [kind |-> "use", by |-> x] \in AnswerType
  /\ \A D \in SUBSET Correction : [kind |-> "replay", directives |-> D] \in AnswerType
BY DEF AnswerType

LEMMA FaultCounted ==
  ASSUME IInv, NEW t, Fault(t)
  PROVE  faults' \in 0..MaxFaults
BY MaxFaultsAssumption DEF IInv, DataType, Fault

LEMMA SameData ==
  ASSUME IInv, UNCHANGED <<stores, litter, acked, raced>>, faults' \in 0..MaxFaults
  PROVE  DataType'
BY DEF IInv, DataType, stores

LEMMA CorrectingTyped ==
  ASSUME IInv, NEW t \in Thread, pc[t] \in Correcters
  PROVE  /\ Correcting(t) \in Correction
         /\ Mentions[Correcting(t)] \in Seq(Checkpoint) /\ Mentions[Correcting(t)] # <<>>
BY DataAssumption DEF IInv, Fits, Matches, Correcting

LEMMA CertifyingTyped ==
  ASSUME IInv, NEW t \in Thread, pc[t] \in Certifiers
  PROVE  Certifying(t) \in Certificate /\ About[Certifying(t)] \in Checkpoint
BY DataAssumption DEF IInv, Fits, Matches, Certifying

LEMMA DecidingTyped ==
  ASSUME IInv, NEW t \in Thread, pc[t] \in Deciders
  PROVE  Deciding(t) \in Checkpoint
BY DEF IInv, Fits, Matches, Deciding

-----------------------------------------------------------------------------
(* Each step keeps the invariant *)

LEMMA CallStep ==
  ASSUME IInv, NEW t \in Thread, Call(t)
  PROVE  IInv'
<1>1. PICK c \in CallsOf[t] :
        /\ call' = [call EXCEPT ![t] = c]
        /\ Goto(t, Begin[c.op])
        /\ since' = IF c.op = "decide" THEN [since EXCEPT ![t] = acked] ELSE since
  BY DEF Call
<1>2. pc[t] = "idle" /\ UNCHANGED <<stores, litter, acked, raced, at, found, answer, faults>>
  BY DEF Call
<1>3. DataType /\ FunctionType /\ Fits(t)
  BY DEF IInv
<1>4. DataType'
  BY <1>2, <1>3 DEF DataType, stores
<1>5. c \in CallType
  BY ThreadsAssumption
<1>6. \/ c \in [op : {"correct"}, correction : Correction] /\ Begin[c.op] = "append"
      \/ c \in [op : {"certify"}, certificate : Certificate] /\ Begin[c.op] = "look"
      \/ c \in [op : {"decide"}, checkpoint : Checkpoint] /\ Begin[c.op] = "root"
  BY <1>5 DEF CallType, Begin
<1>7. acked \in SUBSET (Correction \cup Certificate)
  BY <1>3 DEF DataType
<1>8. since' \in [Thread -> SUBSET (Correction \cup Certificate)] /\ \A u \in Thread \ {t} : since'[u] = since[u]
  BY <1>1, <1>3, <1>7 DEF FunctionType
<1>9. pc' = [pc EXCEPT ![t] = Begin[c.op]] /\ Begin[c.op] \in Labels
  BY <1>1, <1>6 DEF Goto, Labels
<1>10. pc' \in [Thread -> Labels] /\ call' \in [Thread -> CallType \cup {NoCall}]
  BY <1>1, <1>3, <1>5, <1>9 DEF FunctionType
<1>11. FunctionType'
  BY <1>2, <1>3, <1>8, <1>10 DEF FunctionType
<1>12. pc'[t] = Begin[c.op] /\ call'[t] = c /\ at'[t] = at[t] /\ answer'[t] = answer[t]
  BY <1>1, <1>2, <1>3, <1>9 DEF FunctionType
<1>13. at[t] = 0 /\ answer[t] = NoAnswer
  BY <1>2, <1>3 DEF Fits
<1>14. Fits(t)'
  BY <1>6, <1>12, <1>13 DEF Fits, Matches, Correcters, Certifiers, Deciders
<1>15. \A u \in Thread \ {t} : Untouched(u)
  BY <1>1, <1>2, <1>3, <1>8, <1>9 DEF Untouched, FunctionType
<1>16. QED
  BY <1>4, <1>11, <1>14, <1>15, Assemble

LEMMA CorrectSteps ==
  ASSUME IInv, NEW t \in Thread,
         AppendEvent(t) \/ AppendFails(t) \/ MakeDirectory(t) \/ FileCorrection(t) \/ FileFails(t)
  PROVE  IInv'
<1>0. DataType /\ FunctionType /\ Fits(t)
  BY DEF IInv
<1>1. pc[t] \in Correcters
  BY DEF Correcters, AppendEvent, AppendFails, MakeDirectory, FileCorrection, FileFails
<1>2. /\ Correcting(t) \in Correction
      /\ Mentions[Correcting(t)] \in Seq(Checkpoint) /\ Mentions[Correcting(t)] # <<>>
  BY <1>1, CorrectingTyped
<1>3. Len(Mentions[Correcting(t)]) \in Nat /\ 0 < Len(Mentions[Correcting(t)])
  BY <1>2
<1>4. ASSUME File(t) PROVE index' \in [Checkpoint -> SUBSET Correction]
  BY <1>0, <1>2, <1>4 DEF File, DataType
<1>5. CASE AppendEvent(t)
  <2>1. DataType'
    BY <1>0, <1>2, <1>5 DEF AppendEvent, DataType
  <2>2. pc[t] = "append" /\ Goto(t, "directory") /\ UNCHANGED <<call, at, found, since, answer>>
    BY <1>5 DEF AppendEvent
  <2>3. at[t] = 0 /\ "directory" \in Labels
    BY <1>0, <2>2 DEF Fits, Labels
  <2>4. Fits(t)'
    BY <1>3, <2>2, <2>3, GoFitsThere DEF Correcters, Certifiers, Deciders
  <2>5. QED
    BY <2>1, <2>2, <2>3, <2>4, GoKeeps
<1>6. CASE AppendFails(t)
  <2>1. log' \in {log, log \cup {Correcting(t)}} /\ Fault(t) /\ End(t)
        /\ UNCHANGED <<root, index, cert, latest, litter, raced, acked>>
    BY <1>6 DEF AppendFails
  <2>2. DataType'
    BY <1>0, <1>2, <2>1, FaultCounted DEF DataType
  <2>3. QED
    BY <2>1, <2>2, EndKeeps
<1>7. CASE MakeDirectory(t)
  <2>1. DataType'
    BY <1>0, <1>7 DEF MakeDirectory, DataType
  <2>2. pc[t] = "directory" /\ Goto(t, "file") /\ UNCHANGED <<call, at, found, since, answer>>
    BY <1>7 DEF MakeDirectory
  <2>3. at[t] < Len(Mentions[Correcting(t)]) /\ "file" \in Labels
    BY <1>0, <2>2 DEF Fits, Labels
  <2>4. Fits(t)'
    BY <2>2, <2>3, GoFitsThere DEF Correcters, Certifiers, Deciders
  <2>5. QED
    BY <2>1, <2>2, <2>3, <2>4, GoKeeps
<1>8. CASE FileCorrection(t)
  <2>1. pc[t] = "file" /\ File(t) /\ UNCHANGED <<log, root, cert, latest, litter, raced, faults>>
    BY <1>8 DEF FileCorrection
  <2>2. CASE at[t] + 1 < Len(Mentions[Correcting(t)])
    <3>1. /\ at' = [at EXCEPT ![t] = at[t] + 1] /\ Goto(t, "directory")
          /\ UNCHANGED <<acked, call, found, since, answer>>
      BY <1>8, <2>2 DEF FileCorrection
    <3>2. DataType'
      BY <1>0, <1>4, <2>1, <3>1 DEF DataType
    <3>3. PICK n \in Nat : n = at[t] + 1
      BY <1>0, Same
    <3>4. Goes(t, "directory", found[t], answer[t], n)
      BY <1>0, <3>1, <3>3, Same DEF Goes, Goto
    <3>10. "directory" \in Labels
      BY DEF Labels
    <3>5. /\ FunctionType' /\ \A u \in Thread \ {t} : Untouched(u)
          /\ pc'[t] = "directory" /\ call'[t] = call[t] /\ at'[t] = n
          /\ answer'[t] = answer[t]
      BY <1>0, <3>4, <3>10, Same, GoFits
    <3>6. call[t] \in [op : {"correct"}, correction : Correction]
      BY <1>0, <1>1 DEF Fits, Matches
    <3>7. answer[t] = NoAnswer
      BY <1>0, <2>1 DEF Fits
    <3>8. Fits(t)'
      BY <2>2, <3>3, <3>5, <3>6, <3>7 DEF Fits, Matches, Correcting, Correcters, Certifiers, Deciders
    <3>9. QED
      BY <3>2, <3>5, <3>8, Assemble
  <2>3. CASE ~(at[t] + 1 < Len(Mentions[Correcting(t)]))
    <3>1. acked' = acked \cup {Correcting(t)} /\ End(t)
      BY <1>8, <2>3 DEF FileCorrection, Acknowledge
    <3>2. DataType'
      BY <1>0, <1>2, <1>4, <2>1, <3>1 DEF DataType
    <3>3. QED
      BY <3>1, <3>2, EndKeeps
  <2>4. QED
    BY <2>2, <2>3
<1>9. CASE FileFails(t)
  <2>1. Fault(t) /\ End(t) /\ UNCHANGED <<log, cert, latest, litter, raced, acked>>
    BY <1>9 DEF FileFails
  <2>2. root' \in BOOLEAN /\ index' \in [Checkpoint -> SUBSET Correction]
    BY <1>0, <1>4, <1>9 DEF FileFails, DataType
  <2>3. DataType'
    BY <1>0, <2>1, <2>2, FaultCounted DEF DataType
  <2>4. QED
    BY <2>1, <2>3, EndKeeps
<1>10. QED
  BY <1>5, <1>6, <1>7, <1>8, <1>9

\* The checkpoint whose index another auditor is about to write as t goes to write it.
RacedBy(t) ==
  {About[Certifying(u)] : u \in
     {u \in Thread : pc[u] = "name" /\ About[Certifying(u)] = About[Certifying(t)]}}

LEMMA CertifySteps ==
  ASSUME IInv, NEW t \in Thread,
         \/ LookForCertificate(t) \/ StoreCertificate(t) \/ CompareLatest(t) \/ NameLatest(t)
         \/ CertificateFails(t)
  PROVE  IInv'
<1>0. DataType /\ FunctionType /\ Fits(t)
  BY DEF IInv
<1>1. pc[t] \in Certifiers
  BY DEF Certifiers, LookForCertificate, StoreCertificate, CompareLatest, Compared, NameLatest,
     CertificateFails
<1>2. Certifying(t) \in Certificate /\ About[Certifying(t)] \in Checkpoint
  BY <1>1, CertifyingTyped
<1>3. at[t] = 0
  BY <1>0, <1>1 DEF Fits, Certifiers
<1>4. ASSUME Acknowledge(t, Certifying(t)), UNCHANGED <<stores, litter, raced, faults>> PROVE IInv'
  <2>1. acked' = acked \cup {Certifying(t)} /\ End(t)
    BY <1>4 DEF Acknowledge
  <2>2. DataType'
    BY <1>0, <1>2, <1>4, <2>1 DEF DataType, stores
  <2>3. QED
    BY <2>1, <2>2, EndKeeps
<1>5. ASSUME NEW l \in Labels, l \in Certifiers, Goto(t, l), DataType',
             UNCHANGED <<call, at, found, since, answer>>
      PROVE  IInv'
  <2>1. Fits(t)'
    BY <1>1, <1>3, <1>5, GoFitsThere DEF Correcters, Certifiers, Deciders
  <2>2. QED
    BY <1>5, <2>1, GoKeeps
<1>6. {"store", "compare", "name"} \subseteq Labels /\ {"store", "compare", "name"} \subseteq Certifiers
  BY DEF Labels, Certifiers
<1>7. ASSUME Name(t) PROVE latest' \in [Checkpoint -> Certificate \cup {None}]
  BY <1>0, <1>2, <1>7 DEF Name, DataType
<1>8. CASE LookForCertificate(t)
  <2>1. DataType'
    BY <1>0, <1>8, SameData DEF LookForCertificate, DataType
  <2>2. CASE Certifying(t) \in cert
    BY <1>8, <2>1, <2>2, EndKeeps DEF LookForCertificate
  <2>3. CASE Certifying(t) \notin cert
    BY <1>5, <1>6, <1>8, <2>1, <2>3 DEF LookForCertificate
  <2>4. QED
    BY <2>2, <2>3
<1>9. CASE StoreCertificate(t)
  <2>1. Goto(t, "compare") /\ UNCHANGED <<call, at, found, since, answer>>
    BY <1>9 DEF StoreCertificate
  <2>2. DataType'
    BY <1>0, <1>2, <1>9 DEF StoreCertificate, DataType
  <2>3. QED
    BY <1>5, <1>6, <2>1, <2>2
<1>10. CASE CompareLatest(t)
  <2>1. UNCHANGED <<stores, litter, faults>>
    BY <1>10 DEF CompareLatest, Compared
  <2>2. CASE ~Newer(Certifying(t), latest[About[Certifying(t)]])
    BY <1>4, <1>10, <2>1, <2>2 DEF CompareLatest, Compared
  <2>3. CASE Newer(Certifying(t), latest[About[Certifying(t)]])
    <3>1. Goto(t, "name") /\ UNCHANGED <<acked, call, at, found, since, answer>>
      BY <1>10, <2>3 DEF CompareLatest, Compared
    <3>2. raced' = raced \cup RacedBy(t)
      BY <1>10, <2>3 DEF CompareLatest, Compared, RacedBy
    <3>3. raced' \subseteq Checkpoint
      BY <1>0, <1>2, <3>2 DEF RacedBy, DataType
    <3>4. DataType'
      BY <1>0, <2>1, <3>1, <3>3 DEF DataType, stores
    <3>5. QED
      BY <1>5, <1>6, <3>1, <3>4
  <2>4. QED
    BY <2>2, <2>3
<1>11. CASE NameLatest(t)
  <2>1. Name(t) /\ acked' = acked \cup {Certifying(t)} /\ End(t)
        /\ UNCHANGED <<log, root, index, cert, litter, raced, faults>>
    BY <1>11 DEF NameLatest, Acknowledge
  <2>2. DataType'
    BY <1>0, <1>2, <1>7, <2>1 DEF DataType
  <2>3. QED
    BY <2>1, <2>2, EndKeeps
<1>12. CASE CertificateFails(t)
  <2>1. Fault(t) /\ End(t) /\ UNCHANGED <<log, root, index, litter, raced, acked>>
    BY <1>12 DEF CertificateFails
  <2>2. cert' \subseteq Certificate /\ latest' \in [Checkpoint -> Certificate \cup {None}]
    BY <1>0, <1>2, <1>7, <1>12 DEF CertificateFails, DataType
  <2>3. DataType'
    BY <1>0, <2>1, <2>2, FaultCounted DEF DataType
  <2>4. QED
    BY <2>1, <2>3, EndKeeps
<1>13. QED
  BY <1>8, <1>9, <1>10, <1>11, <1>12

LEMMA JudgeKeeps ==
  ASSUME IInv, NEW t \in Thread, NEW x, DataType', Judge(t, x),
         pc[t] \in {"latest", "certificates"}, UNCHANGED <<call, at, found, since>>
  PROVE  IInv'
<1>1. pc[t] \in Deciders /\ FunctionType /\ Fits(t) /\ "load" \in Labels
  BY DEF IInv, Deciders, Labels
<1>2. CASE x \notin Granting
  BY <1>1, <1>2, Answers, DecidedKeeps DEF Judge
<1>3. CASE x \in Granting
  <2>1. PICK a \in AnswerType : a = [kind |-> "use", by |-> x]
    BY <1>3, Answers, DataAssumption
  <2>2. answer' = [answer EXCEPT ![t] = a] /\ Goto(t, "load")
    BY <1>3, <2>1 DEF Judge
  <2>3. Goes(t, "load", found[t], a, at[t])
    BY <1>1, <2>2, Same DEF Goes, Goto
  <2>4. /\ FunctionType' /\ \A u \in Thread \ {t} : Untouched(u)
        /\ pc'[t] = "load" /\ call'[t] = call[t] /\ at'[t] = at[t] /\ answer'[t] = a
    <3>1. at[t] \in Nat /\ found[t] \in SUBSET (Correction \cup Certificate)
      BY <1>1, Same
    <3>2. QED
      BY <1>1, <2>3, <3>1, GoFits
  <2>5. at[t] = 0 /\ call[t] \in [op : {"decide"}, checkpoint : Checkpoint]
    BY <1>1 DEF Fits, Matches, Deciders
  <2>6. Fits(t)'
    BY <2>4, <2>5 DEF Fits, Matches, Correcters, Certifiers, Deciders
  <2>7. QED
    BY <2>4, <2>6, Assemble
<1>4. QED
  BY <1>2, <1>3

LEMMA FindKeeps ==
  ASSUME IInv, NEW t \in Thread, NEW l \in Labels,
         NEW f \in SUBSET (Correction \cup Certificate), DataType',
         pc[t] \in Deciders \ {"load", "return"}, l \in Deciders, Goto(t, l),
         found' = [found EXCEPT ![t] = f], UNCHANGED <<call, at, since, answer>>
  PROVE  IInv'
<1>1. FunctionType /\ Fits(t)
  BY DEF IInv
<1>2. Goes(t, l, f, answer[t], at[t])
  BY <1>1, Same DEF Goes, Goto
<1>3. /\ FunctionType' /\ \A u \in Thread \ {t} : Untouched(u)
      /\ pc'[t] = l /\ call'[t] = call[t] /\ at'[t] = at[t] /\ answer'[t] = answer[t]
  BY <1>1, <1>2, Same, GoFits
<1>4. at[t] = 0 /\ answer[t] = NoAnswer /\ call[t] \in [op : {"decide"}, checkpoint : Checkpoint]
  BY <1>1 DEF Fits, Matches, Deciders
<1>5. Fits(t)'
  BY <1>3, <1>4 DEF Fits, Matches, Correcters, Certifiers, Deciders
<1>6. QED
  BY <1>3, <1>5, Assemble

LEMMA LeftTyped ==
  ASSUME IInv, NEW place
  PROVE  Left(place) \subseteq {"empty", "partial"} \cup Correction \cup Certificate
BY DEF IInv, DataType, Left, Contents

LEMMA UnfinishedTyped ==
  ASSUME IInv, NEW place
  PROVE  Unfinished(place) \subseteq Correction \cup Certificate
<1>1. ASSUME NEW u \in Thread, pc[u] = "file" PROVE Correcting(u) \in Correction
  BY <1>1, CorrectingTyped DEF Correcters
<1>2. ASSUME NEW u \in Thread, pc[u] = "store" PROVE Certifying(u) \in Certificate
  BY <1>2, CertifyingTyped DEF Certifiers
<1>3. QED
  BY <1>1, <1>2 DEF Unfinished

Decision(t) ==
  \/ LookForIndex(t) \/ ReadEvents(t) \/ OpenIndex(t) \/ ReadFiles(t) \/ IndexUnreadable(t)
  \/ PassBarrier(t) \/ LatestForCheckpoint(t) \/ PassOverLatest(t)
  \/ OpenCertificates(t) \/ ListForCheckpoint(t) \/ LedgerUnreadable(t)
  \/ LoadCheckpoint(t) \/ ReplayEvents(t) \/ DecisionFails(t)

LEMMA DecisionChangesNoData ==
  ASSUME IInv, NEW t \in Thread, Decision(t)
  PROVE  DataType' /\ UNCHANGED <<stores, litter, acked, raced, call, at, since>>
<1>1. UNCHANGED <<stores, litter, acked, raced, call, at, since>>
  BY DEF Decision, LookForIndex, ReadEvents, OpenIndex, ReadFiles, IndexUnreadable, PassBarrier,
     LatestForCheckpoint, PassOverLatest, OpenCertificates, ListForCheckpoint, LedgerUnreadable,
     LoadCheckpoint, ReplayEvents, DecisionFails
<1>2. faults' = faults \/ Fault(t)
  BY DEF Decision, LookForIndex, ReadEvents, OpenIndex, ReadFiles, IndexUnreadable, PassBarrier,
     LatestForCheckpoint, PassOverLatest, OpenCertificates, ListForCheckpoint, LedgerUnreadable,
     LoadCheckpoint, ReplayEvents, DecisionFails
<1>3. faults' \in 0..MaxFaults
  <2>1. CASE faults' = faults
    BY <2>1 DEF IInv, DataType
  <2>2. CASE Fault(t)
    BY <2>2, FaultCounted
  <2>3. QED
    BY <1>2, <2>1, <2>2
<1>4. QED
  BY <1>1, <1>3, SameData

LEMMA DecisionSteps ==
  ASSUME IInv, NEW t \in Thread, Decision(t)
  PROVE  IInv'
<1>0. DataType /\ FunctionType /\ Fits(t)
  BY DEF IInv
<1>1. DataType' /\ UNCHANGED <<call, at, since>>
  BY DecisionChangesNoData
<1>2. ASSUME NEW l \in Labels, NEW m \in Labels, pc[t] = m,
             m \in Deciders \ {"load", "return"}, l \in Deciders, Goto(t, l),
             UNCHANGED <<found, answer>>
      PROVE  IInv'
  <2>1. l # "idle" /\ pc[t] # "idle" /\ l \notin {"directory", "file"} /\ at[t] = 0
    BY <1>0, <1>2 DEF Deciders, Fits
  <2>2. /\ pc[t] \in Correcters <=> l \in Correcters
        /\ pc[t] \in Certifiers <=> l \in Certifiers
        /\ pc[t] \in Deciders <=> l \in Deciders
    BY <1>2 DEF Correcters, Certifiers, Deciders
  <2>3. Fits(t)'
    BY <1>1, <1>2, <2>1, <2>2, GoFitsThere
  <2>4. QED
    BY <1>1, <1>2, <2>3, GoKeeps
<1>3. ASSUME NEW l \in Labels, NEW m \in Labels, pc[t] = m,
             m \in Deciders \ {"load", "return"}, l \in Deciders, Goto(t, l),
             NEW f \in SUBSET (Correction \cup Certificate),
             found' = [found EXCEPT ![t] = f], answer' = answer
      PROVE  IInv'
  BY <1>1, <1>3, FindKeeps
<1>4. /\ {"root", "events", "index", "files", "gate", "latest", "list", "certificates"} \subseteq Labels
      /\ {"root", "events", "index", "files", "gate", "latest", "list", "certificates"}
           \subseteq Deciders \ {"load", "return"}
  BY DEF Labels, Deciders
<1>5. CASE LookForIndex(t)
  <2>1. CASE root
    BY <1>2, <1>4, <1>5, <2>1 DEF LookForIndex
  <2>2. CASE ~root
    BY <1>2, <1>4, <1>5, <2>2 DEF LookForIndex
  <2>3. QED
    BY <2>1, <2>2
<1>6. CASE ReadEvents(t)
  <2>1. log \in SUBSET (Correction \cup Certificate)
    BY <1>0 DEF DataType
  <2>2. QED
    BY <1>3, <1>4, <1>6, <2>1 DEF ReadEvents
<1>7. CASE OpenIndex(t)
  <2>1. Deciding(t) \in Checkpoint
    BY <1>7, DecidingTyped DEF OpenIndex, Deciders
  <2>2. PICK f : f = index[Deciding(t)] \cup (Left(Deciding(t)) \cap Correction)
    OBVIOUS
  <2>3. f \in SUBSET (Correction \cup Certificate)
    BY <1>0, <2>1, <2>2 DEF DataType
  <2>4. QED
    BY <1>3, <1>4, <1>7, <2>2, <2>3 DEF OpenIndex
<1>8. CASE ReadFiles(t)
  <2>1. Deciding(t) \in Checkpoint
    BY <1>8, DecidingTyped DEF ReadFiles, Deciders
  <2>2. PICK read \in SUBSET (index[Deciding(t)] \cup Unfinished(Deciding(t))) :
          found' = [found EXCEPT ![t] = found[t] \cup read]
    BY <1>8 DEF ReadFiles
  <2>3. PICK f : f = found[t] \cup read
    OBVIOUS
  <2>4. f \in SUBSET (Correction \cup Certificate)
    BY <1>0, <2>1, <2>2, <2>3, UnfinishedTyped, Same DEF DataType
  <2>5. found' = [found EXCEPT ![t] = f]
    BY <2>2, <2>3
  <2>6. pc[t] = "files" /\ Goto(t, "gate") /\ answer' = answer
    BY <1>8 DEF ReadFiles
  <2>7. QED
    BY <1>3, <1>4, <2>4, <2>5, <2>6
<1>9. CASE IndexUnreadable(t) \/ LedgerUnreadable(t) \/ DecisionFails(t)
  <2>1. pc[t] \in Deciders /\ Decided(t, Error) /\ found' = found
    BY <1>9 DEF IndexUnreadable, LedgerUnreadable, DecisionFails, Deciders
  <2>2. QED
    BY <1>1, <2>1, Answers, DecidedKeeps
<1>10. CASE PassBarrier(t)
  BY <1>2, <1>4, <1>10 DEF PassBarrier
<1>11. CASE LatestForCheckpoint(t)
  BY <1>1, <1>11, JudgeKeeps DEF LatestForCheckpoint
<1>12. CASE PassOverLatest(t)
  BY <1>2, <1>4, <1>12 DEF PassOverLatest
<1>13. CASE OpenCertificates(t)
  <2>1. PICK f : f = cert \cup Left("certificates")
    OBVIOUS
  <2>2. f \in SUBSET (Correction \cup Certificate)
    BY <1>0, <1>13, <2>1, LeftTyped DEF DataType, OpenCertificates
  <2>3. QED
    BY <1>3, <1>4, <1>13, <2>1, <2>2 DEF OpenCertificates
<1>14. CASE ListForCheckpoint(t)
  <2>1. pc[t] = "certificates" /\ found' = found
    BY <1>14 DEF ListForCheckpoint
  <2>2. Decided(t, Refused) \/ \E x : Judge(t, x)
    BY <1>14 DEF ListForCheckpoint
  <2>3. CASE Decided(t, Refused)
    BY <1>1, <1>4, <2>1, <2>3, Answers, DecidedKeeps
  <2>4. CASE \E x : Judge(t, x)
    BY <1>1, <2>1, <2>4, JudgeKeeps
  <2>5. QED
    BY <2>2, <2>3, <2>4
<1>15. CASE LoadCheckpoint(t)
  <2>1. pc[t] = "load" /\ Goto(t, "return") /\ UNCHANGED <<found, answer>>
    BY <1>15 DEF LoadCheckpoint
  <2>2. at[t] = 0 /\ "return" \in Labels
    BY <1>0, <2>1 DEF Fits, Labels
  <2>3. Fits(t)'
    BY <1>1, <2>1, <2>2, GoFitsThere DEF Correcters, Certifiers, Deciders
  <2>4. QED
    BY <1>1, <2>1, <2>2, <2>3, GoKeeps
<1>16. CASE ReplayEvents(t)
  <2>1. pc[t] \in Deciders /\ found' = found
    BY <1>16 DEF ReplayEvents, Deciders
  <2>2. PICK D : D = BlockingCorrectionsFor(found[t], Deciding(t))
    OBVIOUS
  <2>3. D \subseteq Correction
    BY <2>2, DataAssumption DEF BlockingCorrectionsFor
  <2>4. Decided(t, IF D \subseteq Actionable THEN [kind |-> "replay", directives |-> D] ELSE Error)
    BY <1>16, <2>2 DEF ReplayEvents
  <2>5. PICK a \in AnswerType : Decided(t, a)
    BY <2>3, <2>4, Answers
  <2>6. QED
    BY <1>1, <2>1, <2>5, DecidedKeeps
<1>17. QED
  BY <1>5, <1>6, <1>7, <1>8, <1>9, <1>10, <1>11, <1>12, <1>13, <1>14, <1>15, <1>16 DEF Decision

LEMMA EndSteps ==
  ASSUME IInv, NEW t \in Thread, Return(t) \/ Crash(t)
  PROVE  IInv'
<1>0. DataType
  BY DEF IInv
<1>1. CASE Return(t)
  <2>1. DataType'
    BY <1>0, <1>1 DEF Return, DataType, stores
  <2>2. QED
    BY <1>1, <2>1, EndKeeps DEF Return
<1>2. CASE Crash(t)
  <2>1. Fault(t) /\ End(t) /\ UNCHANGED <<stores, acked, raced>>
    BY <1>2 DEF Crash
  <2>2. litter' \subseteq [place : Place, holds : Contents]
    <3>1. CASE UNCHANGED litter
      BY <1>0, <3>1 DEF DataType
    <3>2. CASE pc[t] = "file" /\ \E h \in {"empty", "partial", Correcting(t)} :
                 litter' = litter \cup {[place |-> Under(t), holds |-> h]}
      <4>1. PICK h : /\ h \in {"empty", "partial", Correcting(t)}
                     /\ litter' = litter \cup {[place |-> Under(t), holds |-> h]}
        BY <3>2
      <4>2. Correcting(t) \in Correction /\ Mentions[Correcting(t)] \in Seq(Checkpoint)
        BY <3>2, CorrectingTyped DEF Correcters
      <4>3. at[t] \in Nat /\ at[t] < Len(Mentions[Correcting(t)])
        BY <3>2 DEF IInv, Fits, FunctionType
      <4>4. at[t] + 1 \in 1..Len(Mentions[Correcting(t)])
        BY <4>2, <4>3
      <4>5. Under(t) \in Checkpoint
        BY <4>2, <4>4 DEF Under
      <4>6. h \in Contents /\ Under(t) \in Place
        BY <4>1, <4>2, <4>5 DEF Contents, Place
      <4>7. QED
        BY <1>0, <4>1, <4>6 DEF DataType
    <3>3. CASE pc[t] = "store" /\ \E h \in {"empty", "partial", Certifying(t)} :
                 litter' = litter \cup {[place |-> "certificates", holds |-> h]}
      <4>1. PICK h : /\ h \in {"empty", "partial", Certifying(t)}
                     /\ litter' = litter \cup {[place |-> "certificates", holds |-> h]}
        BY <3>3
      <4>2. Certifying(t) \in Certificate
        BY <3>3, CertifyingTyped DEF Certifiers
      <4>3. h \in Contents /\ "certificates" \in Place
        BY <4>1, <4>2 DEF Contents, Place
      <4>4. QED
        BY <1>0, <4>1, <4>3 DEF DataType
    <3>4. QED
      BY <1>2, <3>1, <3>2, <3>3 DEF Crash
  <2>3. DataType'
    BY <1>0, <2>1, <2>2, FaultCounted DEF DataType, stores
  <2>4. QED
    BY <2>1, <2>3, EndKeeps
<1>3. QED
  BY <1>1, <1>2

LEMMA InitIInv == Init => IInv
<1>1. SUFFICES ASSUME Init PROVE IInv
  OBVIOUS
<1>2. DataType
  <2>1. index \in [Checkpoint -> SUBSET Correction] /\ latest \in [Checkpoint -> Certificate \cup {None}]
    BY <1>1 DEF Init
  <2>2. faults \in 0..MaxFaults
    BY <1>1, MaxFaultsAssumption DEF Init
  <2>3. /\ log \subseteq Correction /\ root \in BOOLEAN /\ cert \subseteq Certificate
        /\ litter \subseteq [place : Place, holds : Contents]
        /\ acked \subseteq Correction \cup Certificate /\ raced \subseteq Checkpoint
    BY <1>1 DEF Init
  <2>4. QED
    BY <2>1, <2>2, <2>3 DEF DataType
<1>3. /\ "idle" \in Labels /\ NoAnswer \in AnswerType
  BY DEF Labels, AnswerType
<1>4. FunctionType
  BY <1>1, <1>3 DEF Init, FunctionType
<1>5. ASSUME NEW t \in Thread PROVE Fits(t)
  BY <1>1 DEF Init, Fits, Matches, Correcters, Certifiers, Deciders
<1>6. QED
  BY <1>2, <1>4, <1>5 DEF IInv

\* The step of some thread, or none.
LEMMA Steps ==
  ASSUME [Next]_vars
  PROVE  \/ UNCHANGED vars
         \/ \E t \in Thread :
              \/ Call(t)
              \/ AppendEvent(t) \/ AppendFails(t) \/ MakeDirectory(t) \/ FileCorrection(t)
              \/ FileFails(t)
              \/ LookForCertificate(t) \/ StoreCertificate(t) \/ CompareLatest(t)
              \/ NameLatest(t) \/ CertificateFails(t)
              \/ Decision(t)
              \/ Return(t) \/ Crash(t)
BY DEF Next, Decision

LEMMA NextIInv == IInv /\ [Next]_vars => IInv'
<1>1. SUFFICES ASSUME IInv, [Next]_vars PROVE IInv'
  OBVIOUS
<1>2. CASE UNCHANGED vars
  BY <1>1, <1>2 DEF IInv, DataType, FunctionType, Fits, Matches, Correcting, vars, stores
<1>3. CASE \E t \in Thread : Call(t)
  BY <1>1, <1>3, CallStep
<1>4. CASE \E t \in Thread : AppendEvent(t) \/ AppendFails(t) \/ MakeDirectory(t)
                               \/ FileCorrection(t) \/ FileFails(t)
  BY <1>1, <1>4, CorrectSteps
<1>5. CASE \E t \in Thread : LookForCertificate(t) \/ StoreCertificate(t) \/ CompareLatest(t)
                               \/ NameLatest(t) \/ CertificateFails(t)
  BY <1>1, <1>5, CertifySteps
<1>6. CASE \E t \in Thread : Decision(t)
  BY <1>1, <1>6, DecisionSteps
<1>7. CASE \E t \in Thread : Return(t) \/ Crash(t)
  BY <1>1, <1>7, EndSteps
<1>8. QED
  BY <1>1, <1>2, <1>3, <1>4, <1>5, <1>6, <1>7, Steps

\* DecisionGate is type correct, for any checkpoints, corrections, certificates,
\* threads and number of failures.
THEOREM TypeCorrect == Spec => []TypeOK
<1>1. Spec => []IInv
  BY InitIInv, NextIInv, PTL DEF Spec
<1>2. QED
  BY <1>1, IInvIsTypeOK, PTL

-----------------------------------------------------------------------------
(* Acknowledged corrections are heeded *)

\* Wherever a decision looks, it finds the correction.
Filed(c) ==
  /\ c \in log /\ root
  /\ \A k \in Checkpoint : IsAbout(c, k) => c \in index[k]

Recorded == \A c \in acked \cap Correction : Filed(c)

\* A correction that is being filed is in the log, and under what its call has passed.
Filing(t) ==
  /\ pc[t] \in {"directory", "file"} =>
       /\ Correcting(t) \in log
       /\ \A i \in 1..at[t] : Correcting(t) \in index[Mentions[Correcting(t)][i]]
  /\ pc[t] = "file" => root

\* What a decision must go by.
Concerns(t, c) == c \in since[t] /\ c \in Blocking /\ IsAbout(c, Deciding(t))

Heeding(t) ==
  /\ since[t] \subseteq acked
  /\ pc[t] \in {"files", "gate"} => \A c \in Correction : Concerns(t, c) => c \in found[t]
  /\ pc[t] \in {"latest", "list", "certificates", "load"} \/ answer[t].kind = "use" =>
       \A c \in Correction : ~Concerns(t, c)
  /\ answer[t].kind = "replay" =>
       \A c \in Correction : Concerns(t, c) => c \in answer[t].directives

HInv == Recorded /\ \A t \in Thread : Filing(t) /\ Heeding(t)

Grows ==
  /\ log \subseteq log' /\ (root => root') /\ acked \subseteq acked'
  /\ \A k \in Checkpoint : index[k] \subseteq index'[k]

LEMMA FiledStays ==
  ASSUME NEW c, Filed(c), Grows
  PROVE  Filed(c)'
BY DEF Filed, Grows, IsAbout

LEMMA UntouchedHeeds ==
  ASSUME IInv, NEW u \in Thread, Filing(u), Heeding(u), Untouched(u), Grows
  PROVE  Filing(u)' /\ Heeding(u)'
<1>1. /\ Correcting(u)' = Correcting(u) /\ Deciding(u)' = Deciding(u)
      /\ pc'[u] = pc[u] /\ at'[u] = at[u] /\ since'[u] = since[u]
      /\ found'[u] = found[u] /\ answer'[u] = answer[u]
  BY DEF Untouched, Correcting, Deciding
<1>2. Filing(u)'
  <2>1. ASSUME pc[u] \in {"directory", "file"}, NEW i \in 1..at[u]
        PROVE  Correcting(u) \in index'[Mentions[Correcting(u)][i]]
    <3>1. Mentions[Correcting(u)] \in Seq(Checkpoint)
      BY <2>1, CorrectingTyped DEF Correcters
    <3>2. at[u] \in Nat /\ at[u] < Len(Mentions[Correcting(u)])
      BY <2>1 DEF IInv, Fits, FunctionType
    <3>3. i \in 1..Len(Mentions[Correcting(u)])
      BY <3>1, <3>2
    <3>4. Mentions[Correcting(u)][i] \in Checkpoint
      BY <3>1, <3>3
    <3>5. QED
      BY <2>1, <3>4 DEF Filing, Grows
  <2>2. QED
    BY <1>1, <2>1 DEF Filing, Grows
<1>3. \A c : Concerns(u, c)' <=> Concerns(u, c)
  BY <1>1 DEF Concerns, IsAbout
<1>4. Heeding(u)'
  BY <1>1, <1>3 DEF Heeding, Grows
<1>5. QED
  BY <1>2, <1>4

\* A thread that neither files nor decides has nothing to heed.
LEMMA IdleHeeds ==
  ASSUME IInv, NEW t \in Thread, End(t)
  PROVE  Filing(t)' /\ Heeding(t)' /\ \A u \in Thread \ {t} : Untouched(u)
<1>1. FunctionType
  BY DEF IInv
<1>2. pc'[t] = "idle" /\ since'[t] = {} /\ answer'[t] = NoAnswer
  BY <1>1 DEF End, Goto, FunctionType
<1>3. Filing(t)' /\ Heeding(t)'
  BY <1>2 DEF Filing, Heeding, NoAnswer
<1>4. QED
  BY <1>1, <1>3, EndFits

\* The invariant of the next state, from the parts of the thread that took the step.
LEMMA HeedAssemble ==
  ASSUME IInv, HInv, NEW t \in Thread, Grows, Recorded', Filing(t)', Heeding(t)',
         \A u \in Thread \ {t} : Untouched(u)
  PROVE  HInv'
<1>1. ASSUME NEW u \in Thread PROVE Filing(u)' /\ Heeding(u)'
  <2>1. CASE u = t
    BY <2>1
  <2>2. CASE u # t
    <3>1. Filing(u) /\ Heeding(u) /\ Untouched(u)
      BY <2>2 DEF HInv
    <3>2. QED
      BY <3>1, UntouchedHeeds
  <2>3. QED
    BY <2>1, <2>2
<1>2. QED
  BY <1>1 DEF HInv

LEMMA RecordedStays ==
  ASSUME IInv, HInv, Grows, acked' \cap Correction = acked \cap Correction
  PROVE  Recorded'
BY FiledStays DEF HInv, Recorded

LEMMA CallHeeds ==
  ASSUME IInv, HInv, NEW t \in Thread, Call(t)
  PROVE  HInv'
<1>1. PICK c \in CallsOf[t] :
        /\ call' = [call EXCEPT ![t] = c]
        /\ Goto(t, Begin[c.op])
        /\ since' = IF c.op = "decide" THEN [since EXCEPT ![t] = acked] ELSE since
  BY DEF Call
<1>2. pc[t] = "idle" /\ UNCHANGED <<log, root, index, litter, acked, at, found, answer, faults>>
  BY DEF Call, stores
<1>3. FunctionType /\ Fits(t) /\ Heeding(t)
  BY DEF IInv, HInv
<1>4. c \in CallType
  BY ThreadsAssumption
<1>5. Begin[c.op] \in {"append", "look", "root"}
  BY <1>4 DEF CallType, Begin
<1>6. Grows
  BY <1>2 DEF Grows
<1>7. Recorded'
  BY <1>2, <1>6, RecordedStays
<1>8. pc'[t] \in {"append", "look", "root"} /\ answer'[t] = NoAnswer
  BY <1>1, <1>2, <1>3, <1>5 DEF Goto, FunctionType, Fits
<1>9. since'[t] \subseteq acked'
  BY <1>1, <1>2, <1>3 DEF FunctionType, Heeding
<1>10. Filing(t)' /\ Heeding(t)'
  BY <1>8, <1>9 DEF Filing, Heeding, NoAnswer
<1>11. \A u \in Thread \ {t} : Untouched(u)
  BY <1>1, <1>2, <1>3 DEF Untouched, FunctionType, Goto
<1>12. QED
  BY <1>6, <1>7, <1>10, <1>11, HeedAssemble

\* A call ends, and whatever it acknowledged is no correction.
LEMMA EndHeeds ==
  ASSUME IInv, HInv, NEW t \in Thread, End(t), Grows, acked' \cap Correction = acked \cap Correction
  PROVE  HInv'
<1>1. Recorded'
  BY RecordedStays
<1>2. Filing(t)' /\ Heeding(t)' /\ \A u \in Thread \ {t} : Untouched(u)
  BY IdleHeeds
<1>3. QED
  BY <1>1, <1>2, HeedAssemble

\* Filing a correction adds to the index and takes nothing from it.
LEMMA FileGrows ==
  ASSUME IInv, NEW t \in Thread, pc[t] = "file", File(t)
  PROVE  /\ \A k \in Checkpoint : index[k] \subseteq index'[k]
         /\ at[t] + 1 \in 1..Len(Mentions[Correcting(t)]) /\ at[t] \in Nat
         /\ Correcting(t) \in index'[Mentions[Correcting(t)][at[t] + 1]]
<1>1. Correcting(t) \in Correction /\ Mentions[Correcting(t)] \in Seq(Checkpoint)
  BY CorrectingTyped DEF Correcters
<1>2. at[t] \in Nat /\ at[t] < Len(Mentions[Correcting(t)])
  BY DEF IInv, Fits, FunctionType
<1>3. at[t] + 1 \in 1..Len(Mentions[Correcting(t)])
  BY <1>1, <1>2
<1>4. Under(t) \in Checkpoint
  BY <1>1, <1>3 DEF Under
<1>5. index \in [Checkpoint -> SUBSET Correction]
  BY DEF IInv, DataType
<1>6. Correcting(t) \in index'[Under(t)] /\ \A k \in Checkpoint : index[k] \subseteq index'[k]
  BY <1>4, <1>5 DEF File
<1>7. QED
  BY <1>2, <1>3, <1>6 DEF Under

LEMMA CorrectHeeds ==
  ASSUME IInv, HInv, NEW t \in Thread,
         AppendEvent(t) \/ AppendFails(t) \/ MakeDirectory(t) \/ FileCorrection(t) \/ FileFails(t)
  PROVE  HInv'
<1>0. FunctionType /\ Fits(t) /\ Filing(t) /\ Heeding(t)
  BY DEF IInv, HInv
<1>1. pc[t] \in Correcters
  BY DEF Correcters, AppendEvent, AppendFails, MakeDirectory, FileCorrection, FileFails
<1>2. answer[t] = NoAnswer
  BY <1>0, <1>1 DEF Fits, Correcters
<1>3. ASSUME NEW l \in {"directory", "file"}, Goto(t, l), Grows,
             UNCHANGED <<acked, call, found, since, answer>>, Filing(t)',
             \A u \in Thread \ {t} : at'[u] = at[u]
      PROVE  HInv'
  <2>1. Recorded'
    BY <1>3, RecordedStays
  <2>2. pc'[t] = l /\ answer'[t] = NoAnswer /\ since'[t] = since[t]
    BY <1>0, <1>2, <1>3 DEF Goto, FunctionType
  <2>3. Heeding(t)'
    BY <1>0, <1>3, <2>2 DEF Heeding, NoAnswer
  <2>4. \A u \in Thread \ {t} : Untouched(u)
    BY <1>0, <1>3 DEF Untouched, FunctionType, Goto
  <2>5. QED
    BY <1>3, <2>1, <2>3, <2>4, HeedAssemble
<1>4. Correcting(t)' = Correcting(t) \/ ~UNCHANGED call
  BY DEF Correcting
<1>5. CASE AppendEvent(t)
  <2>1. /\ log' = log \cup {Correcting(t)} /\ Goto(t, "directory") /\ pc[t] = "append"
        /\ UNCHANGED <<root, index, acked, call, at, found, since, answer>>
    BY <1>5 DEF AppendEvent
  <2>2. Grows
    BY <2>1 DEF Grows
  <2>3. pc'[t] = "directory" /\ at'[t] = 0 /\ Correcting(t) \in log'
    BY <1>0, <2>1 DEF Goto, FunctionType, Fits
  <2>4. Filing(t)'
    BY <1>4, <2>1, <2>3 DEF Filing
  <2>5. QED
    BY <1>3, <2>1, <2>2, <2>4
<1>6. CASE AppendFails(t)
  <2>1. End(t) /\ Grows /\ acked' = acked
    BY <1>6 DEF AppendFails, Grows
  <2>2. QED
    BY <2>1, EndHeeds
<1>7. CASE MakeDirectory(t)
  <2>1. /\ root' = TRUE /\ Goto(t, "file") /\ pc[t] = "directory"
        /\ UNCHANGED <<log, index, acked, call, at, found, since, answer>>
    BY <1>7 DEF MakeDirectory
  <2>2. Grows
    BY <2>1 DEF Grows
  <2>3. Filing(t)'
    BY <1>0, <1>4, <2>1 DEF Filing
  <2>4. QED
    BY <1>3, <2>1, <2>2, <2>3
<1>8. CASE FileCorrection(t)
  <2>1. pc[t] = "file" /\ File(t) /\ UNCHANGED <<log, root>>
    BY <1>8 DEF FileCorrection
  <2>2. /\ \A k \in Checkpoint : index[k] \subseteq index'[k]
        /\ at[t] + 1 \in 1..Len(Mentions[Correcting(t)]) /\ at[t] \in Nat
        /\ Correcting(t) \in index'[Mentions[Correcting(t)][at[t] + 1]]
    BY <2>1, FileGrows
  <2>3. Correcting(t) \in Correction /\ Mentions[Correcting(t)] \in Seq(Checkpoint)
    BY <1>1, CorrectingTyped
  <2>4. ASSUME NEW i \in 1..(at[t] + 1)
        PROVE  Correcting(t) \in index'[Mentions[Correcting(t)][i]]
    <3>1. CASE i = at[t] + 1
      BY <2>2, <3>1
    <3>2. CASE i # at[t] + 1
      <4>1. i \in 1..at[t] /\ i \in 1..Len(Mentions[Correcting(t)])
        BY <2>2, <3>2
      <4>2. Mentions[Correcting(t)][i] \in Checkpoint
        BY <2>3, <4>1
      <4>3. QED
        BY <1>0, <2>1, <2>2, <4>1, <4>2 DEF Filing
    <3>3. QED
      BY <3>1, <3>2
  <2>5. CASE at[t] + 1 < Len(Mentions[Correcting(t)])
    <3>1. /\ at' = [at EXCEPT ![t] = at[t] + 1] /\ Goto(t, "directory")
          /\ UNCHANGED <<acked, call, found, since, answer>>
      BY <1>8, <2>5 DEF FileCorrection
    <3>2. Grows
      BY <2>1, <2>2, <3>1 DEF Grows
    <3>3. pc'[t] = "directory" /\ at'[t] = at[t] + 1 /\ \A u \in Thread \ {t} : at'[u] = at[u]
      BY <1>0, <3>1 DEF Goto, FunctionType
    <3>4. Correcting(t)' = Correcting(t) /\ Correcting(t) \in log'
      BY <1>0, <2>1, <3>1 DEF Correcting, Filing
    <3>5. Filing(t)'
      BY <2>4, <3>3, <3>4 DEF Filing
    <3>6. QED
      BY <1>3, <3>1, <3>2, <3>3, <3>5
  <2>6. CASE ~(at[t] + 1 < Len(Mentions[Correcting(t)]))
    <3>1. acked' = acked \cup {Correcting(t)} /\ End(t)
      BY <1>8, <2>6 DEF FileCorrection, Acknowledge
    <3>2. Grows
      BY <2>1, <2>2, <3>1 DEF Grows
    <3>3. Len(Mentions[Correcting(t)]) \in Nat
      BY <2>3
    <3>4. 1..(at[t] + 1) = 1..Len(Mentions[Correcting(t)])
      BY <2>2, <2>6, <3>3
    <3>5. PICK d \in Correction : d = Correcting(t)
      BY <2>3
    <3>9. Filed(d)'
      BY <1>0, <2>1, <2>4, <3>4, <3>5 DEF Filed, Filing, IsAbout
    <3>6. ASSUME NEW c \in acked' \cap Correction PROVE Filed(c)'
      <4>1. CASE c \in acked
        <5>1. Filed(c)
          BY <4>1 DEF HInv, Recorded
        <5>2. QED
          BY <3>2, <5>1, FiledStays
      <4>2. CASE c = d
        BY <3>9, <4>2
      <4>3. QED
        BY <3>1, <3>5, <4>1, <4>2
    <3>7. Recorded'
      BY <3>6 DEF Recorded
    <3>8. QED
      BY <3>1, <3>2, <3>7, IdleHeeds, HeedAssemble
  <2>7. QED
    BY <2>5, <2>6
<1>9. CASE FileFails(t)
  <2>1. End(t) /\ UNCHANGED <<log, acked>> /\ pc[t] \in {"directory", "file"}
    BY <1>9 DEF FileFails
  <2>2. (root => root') /\ \A k \in Checkpoint : index[k] \subseteq index'[k]
    <3>1. CASE pc[t] = "directory"
      BY <1>9, <3>1 DEF FileFails
    <3>2. CASE pc[t] = "file"
      BY <1>9, <3>2, FileGrows DEF FileFails
    <3>3. QED
      BY <2>1, <3>1, <3>2
  <2>3. Grows
    BY <2>1, <2>2 DEF Grows
  <2>4. QED
    BY <2>1, <2>3, EndHeeds
<1>10. QED
  BY <1>5, <1>6, <1>7, <1>8, <1>9

LEMMA CertifyHeeds ==
  ASSUME IInv, HInv, NEW t \in Thread,
         LookForCertificate(t) \/ StoreCertificate(t) \/ CompareLatest(t) \/ NameLatest(t)
           \/ CertificateFails(t)
  PROVE  HInv'
<1>1. pc[t] \in Certifiers
  BY DEF Certifiers, LookForCertificate, StoreCertificate, CompareLatest, Compared, NameLatest,
     CertificateFails
<1>2. FunctionType /\ Fits(t) /\ Heeding(t) /\ answer[t] = NoAnswer
  BY <1>1 DEF IInv, HInv, Fits, Certifiers
<1>3. Certifying(t) \in Certificate /\ Certifying(t) \notin Correction
  BY <1>1, CertifyingTyped, DataAssumption
<1>4. UNCHANGED <<log, root, index>>
  BY DEF LookForCertificate, StoreCertificate, CompareLatest, Compared, NameLatest, CertificateFails,
     stores
<1>5. ASSUME End(t), acked' = acked \/ acked' = acked \cup {Certifying(t)}
      PROVE  HInv'
  <2>1. Grows /\ acked' \cap Correction = acked \cap Correction
    BY <1>3, <1>4, <1>5 DEF Grows
  <2>2. QED
    BY <1>5, <2>1, EndHeeds
<1>6. ASSUME NEW l \in Labels, l \in {"store", "compare", "name"}, Goto(t, l),
             UNCHANGED <<acked, call, at, found, since, answer>>
      PROVE  HInv'
  <2>1. Grows /\ acked' \cap Correction = acked \cap Correction
    BY <1>4, <1>6 DEF Grows
  <2>2. Recorded'
    BY <2>1, RecordedStays
  <2>3. pc'[t] = l /\ answer'[t] = NoAnswer /\ since'[t] = since[t]
    BY <1>2, <1>6 DEF Goto, FunctionType
  <2>4. Filing(t)' /\ Heeding(t)'
    BY <1>2, <1>6, <2>3 DEF Filing, Heeding, NoAnswer
  <2>5. \A u \in Thread \ {t} : Untouched(u)
    BY <1>2, <1>6 DEF Untouched, FunctionType, Goto
  <2>6. QED
    BY <2>1, <2>2, <2>4, <2>5, HeedAssemble
<1>7. {"store", "compare", "name"} \subseteq Labels
  BY DEF Labels
<1>8. CASE LookForCertificate(t)
  BY <1>5, <1>6, <1>7, <1>8 DEF LookForCertificate, Acknowledge
<1>9. CASE StoreCertificate(t)
  BY <1>6, <1>7, <1>9 DEF StoreCertificate
<1>10. CASE CompareLatest(t)
  BY <1>5, <1>6, <1>7, <1>10 DEF CompareLatest, Compared, Acknowledge
<1>11. CASE NameLatest(t)
  BY <1>5, <1>11 DEF NameLatest, Acknowledge
<1>12. CASE CertificateFails(t)
  BY <1>5, <1>12 DEF CertificateFails
<1>13. QED
  BY <1>8, <1>9, <1>10, <1>11, <1>12

-----------------------------------------------------------------------------
(* A decision heeds *)

\* What it knows of the corrections it must go by, as it goes on to l.
Knows(t, l, f) ==
  /\ l \in {"files", "gate"} => \A c \in Correction : Concerns(t, c) => c \in f
  /\ l \in {"latest", "list", "certificates", "load"} => \A c \in Correction : ~Concerns(t, c)

LEMMA DecisionHeeding ==
  ASSUME IInv, HInv, NEW t \in Thread, UNCHANGED <<stores, acked, call, at, since>>,
         pc'[t] \in Deciders, \A u \in Thread \ {t} : Untouched(u), Heeding(t)'
  PROVE  HInv'
<1>1. Grows /\ acked' \cap Correction = acked \cap Correction
  BY DEF Grows, stores
<1>2. Recorded' /\ Filing(t)'
  BY <1>1, RecordedStays DEF Filing, Deciders
<1>3. QED
  BY <1>1, <1>2, HeedAssemble

LEMMA SameConcerns ==
  ASSUME NEW t, UNCHANGED <<call, since>>
  PROVE  \A c : Concerns(t, c)' <=> Concerns(t, c)
BY DEF Concerns, IsAbout, Deciding

\* It goes on, without an answer.
LEMMA GoesOn ==
  ASSUME IInv, HInv, NEW t \in Thread, NEW l \in Labels, NEW f \in SUBSET (Correction \cup Certificate),
         UNCHANGED <<stores, acked, call, at, since, answer>>, Goto(t, l), l \in Deciders,
         pc[t] \in Deciders \ {"load", "return"}, found' = [found EXCEPT ![t] = f], Knows(t, l, f)
  PROVE  HInv'
<1>1. FunctionType /\ Fits(t) /\ Heeding(t)
  BY DEF IInv, HInv
<1>2. answer[t] = NoAnswer
  BY <1>1 DEF Fits, Deciders
<1>3. pc'[t] = l /\ found'[t] = f /\ answer'[t] = NoAnswer /\ since'[t] = since[t]
  BY <1>1, <1>2 DEF Goto, FunctionType
<1>4. \A u \in Thread \ {t} : Untouched(u)
  BY <1>1 DEF Untouched, FunctionType, Goto
<1>5. \A c : Concerns(t, c)' <=> Concerns(t, c)
  BY SameConcerns
<1>6. Heeding(t)'
  BY <1>1, <1>3, <1>5 DEF Heeding, Knows, NoAnswer
<1>7. QED
  BY <1>3, <1>4, <1>6, DecisionHeeding

\* It comes to an answer.
LEMMA Answering ==
  ASSUME IInv, HInv, NEW t \in Thread, NEW l \in Labels, NEW a,
         UNCHANGED <<stores, acked, call, at, since, found>>, Goto(t, l), l \in {"load", "return"},
         answer' = [answer EXCEPT ![t] = a],
         l = "load" \/ a.kind = "use" => \A c \in Correction : ~Concerns(t, c),
         a.kind = "replay" => \A c \in Correction : Concerns(t, c) => c \in a.directives
  PROVE  HInv'
<1>1. FunctionType /\ Heeding(t)
  BY DEF IInv, HInv
<1>2. pc'[t] = l /\ answer'[t] = a /\ since'[t] = since[t]
  BY <1>1 DEF Goto, FunctionType
<1>3. \A u \in Thread \ {t} : Untouched(u)
  BY <1>1 DEF Untouched, FunctionType, Goto
<1>4. \A c : Concerns(t, c)' <=> Concerns(t, c)
  BY SameConcerns
<1>5. Heeding(t)'
  BY <1>1, <1>2, <1>4 DEF Heeding
<1>6. QED
  BY <1>2, <1>3, <1>5, DecisionHeeding DEF Deciders

LEMMA ConcernsAreFiled ==
  ASSUME IInv, HInv, NEW t \in Thread, pc[t] \in Deciders, NEW c \in Correction, Concerns(t, c)
  PROVE  c \in log /\ c \in index[Deciding(t)]
<1>1. c \in acked
  BY DEF HInv, Heeding, Concerns
<1>2. Filed(c) /\ Deciding(t) \in Checkpoint
  BY <1>1, DecidingTyped DEF HInv, Recorded
<1>3. QED
  BY <1>2 DEF Filed, Concerns

LEMMA JudgeHeeds ==
  ASSUME IInv, HInv, NEW t \in Thread, NEW x, Judge(t, x), pc[t] \in {"latest", "certificates"},
         UNCHANGED <<stores, acked, call, at, since, found>>
  PROVE  HInv'
<1>1. \A c \in Correction : ~Concerns(t, c)
  BY DEF HInv, Heeding
<1>2. "load" \in Labels /\ "return" \in Labels
  BY DEF Labels
<1>3. CASE x \in Granting
  BY <1>1, <1>2, <1>3, Answering DEF Judge
<1>4. CASE x \notin Granting
  BY <1>2, <1>4, Answering DEF Judge, Decided, Refused
<1>5. QED
  BY <1>3, <1>4

LEMMA ErrorHeeds ==
  ASSUME IInv, HInv, NEW t \in Thread, NEW a, Decided(t, a), a \in {Refused, Error},
         UNCHANGED <<stores, acked, call, at, since, found>>
  PROVE  HInv'
<1>1. a.kind = "refused" \/ a.kind = "error"
  BY DEF Refused, Error
<1>2. "return" \in Labels
  BY DEF Labels
<1>3. QED
  BY <1>1, <1>2, Answering DEF Decided

LEMMA DecisionHeeds ==
  ASSUME IInv, HInv, NEW t \in Thread, Decision(t)
  PROVE  HInv'
<1>0. DataType /\ FunctionType /\ Fits(t) /\ Heeding(t)
  BY DEF IInv, HInv
<1>1. UNCHANGED <<stores, acked, call, at, since>>
  BY DecisionChangesNoData
<1>2. ASSUME NEW l \in Labels, NEW m \in Labels, pc[t] = m, m \in Deciders \ {"load", "return"},
             l \in Deciders, Goto(t, l), answer' = answer,
             NEW f \in SUBSET (Correction \cup Certificate),
             found' = [found EXCEPT ![t] = f], Knows(t, l, f)
      PROVE  HInv'
  BY <1>1, <1>2, GoesOn
<1>3. /\ {"root", "events", "index", "files", "gate", "latest", "list", "certificates"} \subseteq Labels
      /\ {"root", "events", "index", "files", "gate", "latest", "list", "certificates"}
           \subseteq Deciders \ {"load", "return"}
  BY DEF Labels, Deciders
<1>4. found[t] \in SUBSET (Correction \cup Certificate) /\ found = [found EXCEPT ![t] = found[t]]
  BY <1>0 DEF FunctionType
<1>5. CASE LookForIndex(t)
  <2>1. PICK l \in {"index", "events"} : Goto(t, l)
    BY <1>5 DEF LookForIndex
  <2>2. Knows(t, l, found[t])
    BY <2>1 DEF Knows
  <2>3. pc[t] = "root" /\ found' = found /\ answer' = answer
    BY <1>5 DEF LookForIndex
  <2>4. QED
    BY <1>2, <1>3, <1>4, <2>1, <2>2, <2>3
<1>6. CASE ReadEvents(t)
  <2>1. /\ pc[t] = "events" /\ Goto(t, "gate") /\ answer' = answer
        /\ found' = [found EXCEPT ![t] = log]
    BY <1>6 DEF ReadEvents
  <2>2. log \in SUBSET (Correction \cup Certificate) /\ Knows(t, "gate", log)
    BY <1>0, <1>3, <2>1, ConcernsAreFiled DEF DataType, Knows
  <2>3. QED
    BY <1>2, <1>3, <2>1, <2>2
<1>7. CASE OpenIndex(t)
  <2>1. PICK f : f = index[Deciding(t)] \cup (Left(Deciding(t)) \cap Correction)
    OBVIOUS
  <2>2. /\ pc[t] = "index" /\ Goto(t, "files") /\ answer' = answer
        /\ found' = [found EXCEPT ![t] = f]
    BY <1>7, <2>1 DEF OpenIndex
  <2>3. Deciding(t) \in Checkpoint
    BY <1>3, <2>2, DecidingTyped
  <2>4. f \in SUBSET (Correction \cup Certificate)
    BY <1>0, <2>1, <2>3 DEF DataType
  <2>5. Knows(t, "files", f)
    BY <1>3, <2>1, <2>2, ConcernsAreFiled DEF Knows
  <2>6. QED
    BY <1>2, <1>3, <2>2, <2>4, <2>5
<1>8. CASE ReadFiles(t)
  <2>1. PICK read \in SUBSET (index[Deciding(t)] \cup Unfinished(Deciding(t))) :
          found' = [found EXCEPT ![t] = found[t] \cup read]
    BY <1>8 DEF ReadFiles
  <2>2. PICK f : f = found[t] \cup read
    OBVIOUS
  <2>3. /\ pc[t] = "files" /\ Goto(t, "gate") /\ answer' = answer
        /\ found' = [found EXCEPT ![t] = f]
    BY <1>8, <2>1, <2>2 DEF ReadFiles
  <2>4. Deciding(t) \in Checkpoint
    BY <1>3, <2>3, DecidingTyped
  <2>5. f \in SUBSET (Correction \cup Certificate)
    BY <1>0, <1>4, <2>1, <2>2, <2>4, UnfinishedTyped DEF DataType
  <2>6. Knows(t, "gate", f)
    BY <1>0, <2>2, <2>3 DEF Knows, Heeding
  <2>7. QED
    BY <1>2, <1>3, <2>3, <2>5, <2>6
<1>9. CASE IndexUnreadable(t) \/ LedgerUnreadable(t) \/ DecisionFails(t)
  <2>1. Decided(t, Error) /\ found' = found
    BY <1>9 DEF IndexUnreadable, LedgerUnreadable, DecisionFails
  <2>2. QED
    BY <1>1, <2>1, ErrorHeeds
<1>10. CASE PassBarrier(t)
  <2>1. /\ pc[t] = "gate" /\ Goto(t, "latest") /\ found' = found /\ answer' = answer
        /\ BlockingCorrectionsFor(found[t], Deciding(t)) = {}
    BY <1>10 DEF PassBarrier
  <2>2. ASSUME NEW c \in Correction, Concerns(t, c) PROVE FALSE
    <3>1. c \in found[t] /\ c \in Blocking /\ IsAbout(c, Deciding(t))
      BY <1>0, <2>1, <2>2 DEF Heeding, Concerns
    <3>2. QED
      BY <2>1, <3>1 DEF BlockingCorrectionsFor
  <2>3. Knows(t, "latest", found[t])
    BY <2>2 DEF Knows
  <2>4. QED
    BY <1>2, <1>3, <1>4, <2>1, <2>3
<1>11. CASE LatestForCheckpoint(t)
  <2>1. pc[t] = "latest" /\ found' = found /\ Judge(t, latest[Deciding(t)])
    BY <1>11 DEF LatestForCheckpoint
  <2>2. QED
    BY <1>1, <2>1, JudgeHeeds
<1>12. CASE PassOverLatest(t)
  <2>1. pc[t] = "latest" /\ Goto(t, "list") /\ found' = found /\ answer' = answer
    BY <1>12 DEF PassOverLatest
  <2>2. Knows(t, "list", found[t])
    BY <1>0, <2>1 DEF Knows, Heeding
  <2>3. QED
    BY <1>2, <1>3, <1>4, <2>1, <2>2
<1>13. CASE OpenCertificates(t)
  <2>1. PICK f : f = cert \cup Left("certificates")
    OBVIOUS
  <2>2. /\ pc[t] = "list" /\ Goto(t, "certificates") /\ answer' = answer
        /\ found' = [found EXCEPT ![t] = f]
    BY <1>13, <2>1 DEF OpenCertificates
  <2>3. f \in SUBSET (Correction \cup Certificate)
    BY <1>0, <1>13, <2>1, LeftTyped DEF DataType, OpenCertificates
  <2>4. Knows(t, "certificates", f)
    BY <1>0, <2>2 DEF Knows, Heeding
  <2>5. QED
    BY <1>2, <1>3, <2>2, <2>3, <2>4
<1>14. CASE ListForCheckpoint(t)
  <2>1. pc[t] = "certificates" /\ found' = found
    BY <1>14 DEF ListForCheckpoint
  <2>2. Decided(t, Refused) \/ \E x : Judge(t, x)
    BY <1>14 DEF ListForCheckpoint
  <2>3. CASE Decided(t, Refused)
    BY <1>1, <2>1, <2>3, ErrorHeeds
  <2>4. CASE \E x : Judge(t, x)
    BY <1>1, <2>1, <2>4, JudgeHeeds
  <2>5. QED
    BY <2>2, <2>3, <2>4
<1>15. CASE LoadCheckpoint(t)
  <2>1. pc[t] = "load" /\ Goto(t, "return") /\ found' = found /\ answer' = answer
    BY <1>15 DEF LoadCheckpoint
  <2>2. \A c \in Correction : ~Concerns(t, c)
    BY <1>0, <2>1 DEF Heeding
  <2>3. PICK a : a = answer[t]
    OBVIOUS
  <2>4. answer' = [answer EXCEPT ![t] = a] /\ "return" \in Labels
    BY <1>0, <2>1, <2>3 DEF FunctionType, Labels
  <2>5. QED
    BY <1>1, <2>1, <2>2, <2>4, Answering
<1>16. CASE ReplayEvents(t)
  <2>1. PICK D : D = BlockingCorrectionsFor(found[t], Deciding(t))
    OBVIOUS
  <2>2. /\ pc[t] = "gate" /\ found' = found
        /\ Decided(t, IF D \subseteq Actionable THEN [kind |-> "replay", directives |-> D] ELSE Error)
    BY <1>16, <2>1 DEF ReplayEvents
  <2>3. ASSUME NEW c \in Correction, Concerns(t, c) PROVE c \in D
    <3>1. c \in found[t] /\ c \in Blocking /\ IsAbout(c, Deciding(t))
      BY <1>0, <2>2, <2>3 DEF Heeding, Concerns
    <3>2. QED
      BY <2>1, <3>1 DEF BlockingCorrectionsFor
  <2>4. CASE D \subseteq Actionable
    <3>1. PICK a : a = [kind |-> "replay", directives |-> D]
      OBVIOUS
    <3>2. Goto(t, "return") /\ answer' = [answer EXCEPT ![t] = a]
      BY <2>2, <2>4, <3>1 DEF Decided
    <3>3. a.kind = "replay" /\ a.directives = D /\ "return" \in Labels
      BY <3>1 DEF Labels
    <3>4. QED
      BY <1>1, <2>2, <2>3, <3>2, <3>3, Answering
  <2>5. CASE ~(D \subseteq Actionable)
    BY <1>1, <2>2, <2>5, ErrorHeeds
  <2>6. QED
    BY <2>4, <2>5
<1>17. QED
  BY <1>5, <1>6, <1>7, <1>8, <1>9, <1>10, <1>11, <1>12, <1>13, <1>14, <1>15, <1>16 DEF Decision

LEMMA InitHInv == Init => HInv
<1>1. SUFFICES ASSUME Init PROVE HInv
  OBVIOUS
<1>2. Recorded
  BY <1>1 DEF Init, Recorded
<1>3. ASSUME NEW t \in Thread PROVE Filing(t) /\ Heeding(t)
  BY <1>1 DEF Init, Filing, Heeding, NoAnswer
<1>4. QED
  BY <1>2, <1>3 DEF HInv

LEMMA NextHInv == IInv /\ HInv /\ [Next]_vars => HInv'
<1>1. SUFFICES ASSUME IInv, HInv, [Next]_vars PROVE HInv'
  OBVIOUS
<1>2. CASE UNCHANGED vars
  BY <1>1, <1>2 DEF HInv, Recorded, Filed, Filing, Heeding, Concerns, IsAbout, Correcting, Deciding,
     vars, stores
<1>3. CASE \E t \in Thread : Call(t)
  BY <1>1, <1>3, CallHeeds
<1>4. CASE \E t \in Thread : AppendEvent(t) \/ AppendFails(t) \/ MakeDirectory(t)
                               \/ FileCorrection(t) \/ FileFails(t)
  BY <1>1, <1>4, CorrectHeeds
<1>5. CASE \E t \in Thread : LookForCertificate(t) \/ StoreCertificate(t) \/ CompareLatest(t)
                               \/ NameLatest(t) \/ CertificateFails(t)
  BY <1>1, <1>5, CertifyHeeds
<1>6. CASE \E t \in Thread : Decision(t)
  BY <1>1, <1>6, DecisionHeeds
<1>7. CASE \E t \in Thread : Return(t) \/ Crash(t)
  <2>1. PICK t \in Thread : Return(t) \/ Crash(t)
    BY <1>7
  <2>2. End(t) /\ UNCHANGED <<stores, acked>>
    BY <2>1 DEF Return, Crash
  <2>3. Grows /\ acked' \cap Correction = acked \cap Correction
    BY <2>2 DEF Grows, stores
  <2>4. QED
    BY <1>1, <2>2, <2>3, EndHeeds
<1>8. QED
  BY <1>1, <1>2, <1>3, <1>4, <1>5, <1>6, <1>7, Steps

LEMMA Heeded == Spec => [](IInv /\ HInv)
<1>1. Init => IInv /\ HInv
  BY InitIInv, InitHInv
<1>2. IInv /\ HInv /\ [Next]_vars => (IInv /\ HInv)'
  BY NextIInv, NextHInv
<1>3. QED
  BY <1>1, <1>2, PTL DEF Spec

\* Whatever calls run at the same time, fail or die, a decision that began after a
\* blocking correction was acknowledged never uses the checkpoint it is about.
THEOREM AckedBlock == Spec => []AckedCorrectionsBlock
<1>1. IInv /\ HInv => AckedCorrectionsBlock
  <2>1. ASSUME HInv, NEW t \in Thread, answer[t].kind = "use",
               NEW c \in BlockingCorrectionsFor(since[t] \cap Correction, Deciding(t))
        PROVE  FALSE
    BY <2>1 DEF HInv, Heeding, Concerns, BlockingCorrectionsFor
  <2>2. QED
    BY <2>1 DEF AckedCorrectionsBlock
<1>2. QED
  BY <1>1, Heeded, PTL

\* A replay goes by every blocking correction that was acknowledged before it began.
THEOREM ReplaysHonour == Spec => []ReplayHonoursAcked
<1>1. IInv /\ HInv => ReplayHonoursAcked
  <2>1. ASSUME HInv, NEW t \in Thread, answer[t].kind = "replay",
               NEW c \in BlockingCorrectionsFor(since[t] \cap Correction, Deciding(t))
        PROVE  c \in answer[t].directives
    BY <2>1 DEF HInv, Heeding, Concerns, BlockingCorrectionsFor
  <2>2. QED
    BY <2>1 DEF ReplayHonoursAcked
<1>2. QED
  BY <1>1, Heeded, PTL

-----------------------------------------------------------------------------
(* The latest certificate controls *)

Naming(t, k) == pc[t] = "name" /\ About[Certifying(t)] = k

\* What the index of a checkpoint names is as new as every certificate acknowledged,
\* and only one auditor at a time writes it, to name a newer one. None of this holds
\* of a checkpoint that is raced.
AsNew(x, k) == latest[k] # None /\ Created[x] <= Created[latest[k]]

Ruled(k) ==
  /\ \A x \in acked \cap Certificate : About[x] = k => AsNew(x, k)
  /\ \A t, u \in Thread : Naming(t, k) /\ Naming(u, k) => t = u
  /\ \A t \in Thread : Naming(t, k) => Newer(Certifying(t), latest[k])

Ledger ==
  /\ acked \cap Certificate \subseteq cert
  /\ \A k \in Checkpoint \ raced : Ruled(k)

\* Whoever may name a certificate has stored it.
Stored(t) == pc[t] \in {"compare", "name"} => Certifying(t) \in cert

\* What a decision has found, and what it goes by.
Controls(t, x) ==
  \A y \in since[t] \cap Certificate : About[y] = Deciding(t) => Created[y] <= Created[x]

Informed(t) ==
  /\ pc[t] = "certificates" => since[t] \cap Certificate \subseteq found[t]
  /\ answer[t].kind = "use" /\ Deciding(t) \notin raced => Controls(t, answer[t].by)

LInv == Ledger /\ \A t \in Thread : Stored(t) /\ Informed(t)

\* The invariant of the next state, from the parts of the thread that took the step.
LEMMA LedgerAssemble ==
  ASSUME LInv, NEW t \in Thread, cert \subseteq cert', raced \subseteq raced',
         Ledger', Stored(t)', Informed(t)', \A u \in Thread \ {t} : Untouched(u)
  PROVE  LInv'
<1>1. ASSUME NEW u \in Thread PROVE Stored(u)' /\ Informed(u)'
  <2>1. CASE u = t
    BY <2>1
  <2>2. CASE u # t
    <3>1. Untouched(u) /\ Stored(u) /\ Informed(u)
      BY <2>2 DEF LInv
    <3>2. Certifying(u)' = Certifying(u) /\ Deciding(u)' = Deciding(u)
      BY <3>1 DEF Untouched, Certifying, Deciding
    <3>3. Stored(u)'
      BY <3>1, <3>2 DEF Stored, Untouched
    <3>4. Informed(u)'
      BY <3>1, <3>2 DEF Informed, Controls, Untouched
    <3>5. QED
      BY <3>3, <3>4
  <2>3. QED
    BY <2>1, <2>2
<1>2. QED
  BY <1>1 DEF LInv

\* What a step acknowledges is stored, and the index names nothing older.
Rightly ==
  \A x \in acked' \cap Certificate : x \in acked \/ (x \in cert /\ AsNew(x, About[x]))

\* A step that names nothing, nor goes to name it.
LEMMA LedgerStays ==
  ASSUME LInv, NEW t \in Thread, cert \subseteq cert', raced' = raced, latest' = latest,
         Rightly, pc'[t] # "name", \A u \in Thread \ {t} : Untouched(u)
  PROVE  Ledger'
<1>1. acked' \cap Certificate \subseteq cert'
  BY DEF LInv, Ledger, Rightly
<1>2. ASSUME NEW k \in Checkpoint \ raced PROVE Ruled(k)'
  <2>1. Ruled(k)
    BY <1>2 DEF LInv, Ledger
  <2>2. \A x \in acked' \cap Certificate : About[x] = k => AsNew(x, k)'
    BY <2>1 DEF Ruled, AsNew, Rightly
  <2>3. ASSUME NEW u \in Thread, Naming(u, k)'
        PROVE  Naming(u, k) /\ Certifying(u)' = Certifying(u)
    BY <2>3 DEF Naming, Untouched, Certifying
  <2>4. QED
    BY <2>1, <2>2, <2>3 DEF Ruled, Newer
<1>3. QED
  BY <1>1, <1>2 DEF Ledger

LEMMA EndInforms ==
  ASSUME IInv, LInv, NEW t \in Thread, End(t), cert \subseteq cert', raced' = raced, Ledger'
  PROVE  LInv'
<1>1. FunctionType
  BY DEF IInv
<1>2. pc'[t] = "idle" /\ answer'[t] = NoAnswer
  BY <1>1 DEF End, Goto, FunctionType
<1>3. Stored(t)' /\ Informed(t)'
  BY <1>2 DEF Stored, Informed, NoAnswer
<1>4. \A u \in Thread \ {t} : Untouched(u)
  BY <1>1, EndFits
<1>5. QED
  BY <1>3, <1>4, LedgerAssemble

LEMMA EndLedger ==
  ASSUME IInv, LInv, NEW t \in Thread, End(t), cert \subseteq cert', raced' = raced, latest' = latest,
         Rightly
  PROVE  LInv'
<1>1. FunctionType
  BY DEF IInv
<1>2. pc'[t] = "idle" /\ \A u \in Thread \ {t} : Untouched(u)
  BY <1>1, EndFits DEF End, Goto, FunctionType
<1>3. QED
  BY <1>2, LedgerStays, EndInforms

LEMMA Times ==
  ASSUME IInv, NEW k \in Checkpoint, latest[k] # None
  PROVE  latest[k] \in Certificate /\ Created[latest[k]] \in Nat
BY DataAssumption DEF IInv, DataType

\* An auditor names the certificate it stored.
LEMMA NameLedger ==
  ASSUME IInv, LInv, NEW t \in Thread, pc[t] = "name", Name(t), cert' = cert, raced' = raced,
         acked' = acked \/ acked' = acked \cup {Certifying(t)}, End(t)
  PROVE  LInv'
<1>0. DataType /\ FunctionType
  BY DEF IInv
<1>1. PICK c \in Certificate : c = Certifying(t)
  BY CertifyingTyped DEF Certifiers
<1>2. PICK m \in Checkpoint : m = About[c]
  BY <1>1, DataAssumption
<1>3. c \in cert
  BY <1>1 DEF LInv, Stored
<1>4. latest'[m] = c /\ \A k \in Checkpoint \ {m} : latest'[k] = latest[k]
  BY <1>0, <1>1, <1>2 DEF Name, DataType
<1>5. acked' \cap Certificate \subseteq cert'
  BY <1>1, <1>3 DEF LInv, Ledger
<1>6. pc'[t] = "idle" /\ \A u \in Thread \ {t} : Untouched(u)
  BY <1>0, EndFits DEF End, Goto, FunctionType
<1>7. ASSUME NEW k \in Checkpoint, NEW u \in Thread, Naming(u, k)'
      PROVE  u # t /\ Naming(u, k) /\ Certifying(u)' = Certifying(u)
  BY <1>6, <1>7 DEF Naming, Untouched, Certifying
<1>8. ASSUME NEW k \in Checkpoint \ raced PROVE Ruled(k)'
  <2>1. Ruled(k)
    BY <1>8 DEF LInv, Ledger
  <2>2. \A u, v \in Thread : Naming(u, k)' /\ Naming(v, k)' => u = v
    BY <1>7, <2>1 DEF Ruled
  <2>3. CASE k # m
    <3>1. latest'[k] = latest[k]
      BY <1>4, <2>3
    <3>2. \A x \in acked' \cap Certificate : About[x] = k => AsNew(x, k)'
      BY <1>1, <1>2, <2>1, <2>3, <3>1 DEF Ruled, AsNew
    <3>3. ASSUME NEW u \in Thread, Naming(u, k)' PROVE Newer(Certifying(u)', latest'[k])
      BY <1>7, <2>1, <3>1, <3>3 DEF Ruled
    <3>4. QED
      BY <2>2, <3>2, <3>3 DEF Ruled, Newer
  <2>4. CASE k = m
    <3>1. Naming(t, m)
      BY <1>1, <1>2 DEF Naming
    <3>2. Newer(c, latest[m])
      BY <1>1, <2>1, <2>4, <3>1 DEF Ruled
    <3>3. ASSUME NEW x \in acked' \cap Certificate, About[x] = m PROVE AsNew(x, m)'
      <4>1. Created[x] \in Nat /\ Created[c] \in Nat /\ c # None
        BY <1>1, DataAssumption
      <4>2. CASE x = c
        BY <1>4, <4>1, <4>2 DEF AsNew
      <4>3. CASE x # c
        <5>1. latest[m] # None /\ Created[x] <= Created[latest[m]]
          BY <1>1, <2>1, <2>4, <3>3, <4>3 DEF Ruled, AsNew
        <5>2. Created[latest[m]] \in Nat
          BY <5>1, Times
        <5>3. Created[latest[m]] < Created[c]
          BY <3>2, <5>1 DEF Newer
        <5>4. Created[x] <= Created[c]
          BY <4>1, <5>1, <5>2, <5>3
        <5>5. QED
          BY <1>4, <4>1, <5>4 DEF AsNew
      <4>4. QED
        BY <4>2, <4>3
    <3>4. \A u \in Thread : ~Naming(u, m)'
      BY <1>7, <2>1, <2>4, <3>1 DEF Ruled
    <3>5. QED
      BY <2>2, <2>4, <3>3, <3>4 DEF Ruled
  <2>5. QED
    BY <2>3, <2>4
<1>9. Ledger'
  BY <1>5, <1>8 DEF Ledger
<1>10. QED
  BY <1>9, EndInforms

\* An auditor goes to name the certificate: whoever was about to races with it.
LEMMA CompareLedger ==
  ASSUME IInv, LInv, NEW t \in Thread, pc[t] = "compare", Goto(t, "name"),
         Newer(Certifying(t), latest[About[Certifying(t)]]), raced' = raced \cup RacedBy(t),
         UNCHANGED <<stores, acked, call, at, found, since, answer>>
  PROVE  LInv'
<1>0. FunctionType /\ Fits(t) /\ Stored(t) /\ cert' = cert
  BY DEF IInv, LInv, stores
<1>1. pc'[t] = "name" /\ \A u \in Thread \ {t} : Untouched(u)
  BY <1>0 DEF Goto, Untouched, FunctionType
<1>2. Certifying(t)' = Certifying(t) /\ answer'[t] = NoAnswer
  BY <1>0 DEF Certifying, Fits
<1>3. ASSUME NEW k \in Checkpoint \ raced' PROVE Ruled(k)'
  <2>1. Ruled(k) /\ k \notin RacedBy(t) /\ latest' = latest
    BY <1>3 DEF LInv, Ledger, stores
  <2>2. \A x \in acked' \cap Certificate : About[x] = k => AsNew(x, k)'
    BY <2>1 DEF Ruled, AsNew
  <2>3. ASSUME NEW u \in Thread \ {t}, Naming(u, k)'
        PROVE  /\ Naming(u, k) /\ Certifying(u)' = Certifying(u)
               /\ About[Certifying(t)] # k
    <3>1. Naming(u, k) /\ Certifying(u)' = Certifying(u)
      BY <1>1, <2>3 DEF Naming, Untouched, Certifying
    <3>2. QED
      BY <2>1, <3>1 DEF RacedBy, Naming
  <2>4. \A u, v \in Thread : Naming(u, k)' /\ Naming(v, k)' => u = v
    <3>1. Naming(t, k)' => About[Certifying(t)] = k
      BY <1>2 DEF Naming
    <3>2. QED
      BY <2>1, <2>3, <3>1 DEF Ruled
  <2>5. ASSUME NEW u \in Thread, Naming(u, k)' PROVE Newer(Certifying(u), latest[k])'
    <3>1. CASE u = t
      BY <1>2, <2>1, <2>5, <3>1 DEF Naming, Newer
    <3>2. CASE u # t
      BY <2>1, <2>3, <2>5, <3>2 DEF Ruled, Newer
    <3>3. QED
      BY <3>1, <3>2
  <2>6. QED
    BY <2>2, <2>4, <2>5 DEF Ruled
<1>4. Ledger'
  BY <1>0, <1>3 DEF LInv, Ledger
<1>5. Stored(t)' /\ Informed(t)'
  BY <1>0, <1>1, <1>2 DEF Stored, Informed, NoAnswer
<1>6. QED
  BY <1>0, <1>1, <1>4, <1>5, LedgerAssemble

LEMMA CertifyLedger ==
  ASSUME IInv, LInv, NEW t \in Thread,
         LookForCertificate(t) \/ StoreCertificate(t) \/ CompareLatest(t) \/ NameLatest(t)
           \/ CertificateFails(t)
  PROVE  LInv'
<1>0. FunctionType /\ Fits(t)
  BY DEF IInv
<1>1. CASE LookForCertificate(t)
  <2>1. cert \subseteq cert' /\ latest' = latest /\ raced' = raced /\ Rightly
    BY <1>1 DEF LookForCertificate, stores, Rightly
  <2>2. CASE Certifying(t) \in cert
    BY <1>1, <2>1, <2>2, EndLedger DEF LookForCertificate
  <2>3. CASE Certifying(t) \notin cert
    <3>1. pc[t] = "look" /\ Goto(t, "store") /\ UNCHANGED <<call, at, found, since, answer>>
      BY <1>1, <2>3 DEF LookForCertificate
    <3>2. pc'[t] = "store" /\ answer'[t] = NoAnswer /\ \A u \in Thread \ {t} : Untouched(u)
      BY <1>0, <3>1 DEF Goto, Untouched, FunctionType, Fits
    <3>3. Stored(t)' /\ Informed(t)'
      BY <3>2 DEF Stored, Informed, NoAnswer
    <3>4. QED
      BY <2>1, <3>2, <3>3, LedgerStays, LedgerAssemble
  <2>4. QED
    BY <2>2, <2>3
<1>2. CASE StoreCertificate(t)
  <2>1. /\ pc[t] = "store" /\ Goto(t, "compare") /\ UNCHANGED <<call, at, found, since, answer>>
        /\ cert' = cert \cup {Certifying(t)} /\ latest' = latest /\ acked' = acked /\ raced' = raced
    BY <1>2 DEF StoreCertificate
  <2>2. pc'[t] = "compare" /\ answer'[t] = NoAnswer /\ \A u \in Thread \ {t} : Untouched(u)
    BY <1>0, <2>1 DEF Goto, Untouched, FunctionType, Fits
  <2>3. Certifying(t)' = Certifying(t)
    BY <2>1 DEF Certifying
  <2>4. Stored(t)' /\ Informed(t)'
    BY <2>1, <2>2, <2>3 DEF Stored, Informed, NoAnswer
  <2>5. cert \subseteq cert' /\ Rightly
    BY <2>1 DEF Rightly
  <2>6. QED
    BY <2>1, <2>2, <2>4, <2>5, LedgerStays, LedgerAssemble
<1>3. CASE CompareLatest(t)
  <2>1. pc[t] = "compare" /\ UNCHANGED stores /\ Certifying(t) \in cert
    BY <1>3 DEF CompareLatest, Compared, LInv, Stored
  <2>2. CASE Newer(Certifying(t), latest[About[Certifying(t)]])
    <3>1. /\ Goto(t, "name") /\ UNCHANGED <<acked, call, at, found, since, answer>>
          /\ raced' = raced \cup RacedBy(t)
      BY <1>3, <2>2 DEF CompareLatest, Compared, RacedBy
    <3>2. QED
      BY <2>1, <2>2, <3>1, CompareLedger
  <2>3. CASE ~Newer(Certifying(t), latest[About[Certifying(t)]])
    <3>1. acked' = acked \cup {Certifying(t)} /\ End(t) /\ raced' = raced
      BY <1>3, <2>3 DEF CompareLatest, Compared, Acknowledge
    <3>2. Certifying(t) \in Certificate /\ About[Certifying(t)] \in Checkpoint
      BY <2>1, CertifyingTyped DEF Certifiers
    <3>3. /\ latest[About[Certifying(t)]] # None
          /\ ~(Created[latest[About[Certifying(t)]]] < Created[Certifying(t)])
      BY <2>3 DEF Newer
    <3>4. Created[latest[About[Certifying(t)]]] \in Nat /\ Created[Certifying(t)] \in Nat
      BY <3>2, <3>3, Times, DataAssumption
    <3>5. AsNew(Certifying(t), About[Certifying(t)])
      BY <3>3, <3>4 DEF AsNew
    <3>6. cert \subseteq cert' /\ latest' = latest /\ Rightly
      BY <2>1, <3>1, <3>5 DEF stores, Rightly
    <3>7. QED
      BY <3>1, <3>6, EndLedger
  <2>4. QED
    BY <2>2, <2>3
<1>4. CASE NameLatest(t)
  BY <1>4, NameLedger DEF NameLatest, Acknowledge
<1>5. CASE CertificateFails(t)
  <2>1. End(t) /\ acked' = acked /\ raced' = raced /\ Rightly
    BY <1>5 DEF CertificateFails, Rightly
  <2>2. \/ pc[t] = "name" /\ Name(t) /\ cert' = cert
        \/ cert \subseteq cert' /\ latest' = latest
    BY <1>5 DEF CertificateFails
  <2>3. QED
    BY <2>1, <2>2, NameLedger, EndLedger
<1>6. QED
  BY <1>1, <1>2, <1>3, <1>4, <1>5

LEMMA CallLedger ==
  ASSUME IInv, LInv, NEW t \in Thread, Call(t)
  PROVE  LInv'
<1>1. FunctionType /\ Fits(t)
  BY DEF IInv
<1>2. PICK c \in CallsOf[t] :
        /\ call' = [call EXCEPT ![t] = c]
        /\ Goto(t, Begin[c.op])
        /\ since' = IF c.op = "decide" THEN [since EXCEPT ![t] = acked] ELSE since
  BY DEF Call
<1>3. /\ pc[t] = "idle" /\ UNCHANGED <<cert, latest, acked, raced, at, found, answer>>
      /\ cert \subseteq cert' /\ Rightly
  BY DEF Call, stores, Rightly
<1>4. c \in CallType
  BY ThreadsAssumption
<1>5. Begin[c.op] \in {"append", "look", "root"}
  BY <1>4 DEF CallType, Begin
<1>6. pc'[t] \in {"append", "look", "root"} /\ answer'[t] = NoAnswer
  BY <1>1, <1>2, <1>3, <1>5 DEF Goto, FunctionType, Fits
<1>7. \A u \in Thread \ {t} : Untouched(u)
  BY <1>1, <1>2, <1>3 DEF Untouched, FunctionType, Goto
<1>8. Stored(t)' /\ Informed(t)'
  BY <1>6 DEF Stored, Informed, NoAnswer
<1>9. QED
  BY <1>3, <1>6, <1>7, <1>8, LedgerStays, LedgerAssemble

LEMMA CorrectLedger ==
  ASSUME IInv, LInv, NEW t \in Thread,
         AppendEvent(t) \/ AppendFails(t) \/ MakeDirectory(t) \/ FileCorrection(t) \/ FileFails(t)
  PROVE  LInv'
<1>1. pc[t] \in Correcters
  BY DEF Correcters, AppendEvent, AppendFails, MakeDirectory, FileCorrection, FileFails
<1>2. FunctionType /\ Fits(t) /\ answer[t] = NoAnswer
  BY <1>1 DEF IInv, Fits, Correcters
<1>3. UNCHANGED <<cert, latest, raced>> /\ cert \subseteq cert'
  BY DEF AppendEvent, AppendFails, MakeDirectory, FileCorrection, FileFails
<1>4. Correcting(t) \in Correction
  BY <1>1, CorrectingTyped
<1>5. acked' \in {acked, acked \cup {Correcting(t)}}
  BY DEF AppendEvent, AppendFails, MakeDirectory, FileCorrection, FileFails, Acknowledge
<1>6. Rightly
  BY <1>4, <1>5, DataAssumption DEF Rightly
<1>7. CASE End(t)
  BY <1>3, <1>6, <1>7, EndLedger
<1>8. ASSUME NEW l \in {"directory", "file"}, Goto(t, l), UNCHANGED <<call, found, since, answer>>,
             at' = at \/ at' = [at EXCEPT ![t] = @ + 1]
      PROVE  LInv'
  <2>1. pc'[t] = l /\ answer'[t] = NoAnswer
    BY <1>2, <1>8 DEF Goto, FunctionType
  <2>2. \A u \in Thread \ {t} : Untouched(u)
    BY <1>2, <1>8 DEF Goto, Untouched, FunctionType
  <2>3. Stored(t)' /\ Informed(t)'
    BY <2>1 DEF Stored, Informed, NoAnswer
  <2>4. pc'[t] # "name"
    BY <2>1
  <2>5. QED
    BY <1>3, <1>6, <2>2, <2>3, <2>4, LedgerStays, LedgerAssemble
<1>9. CASE AppendEvent(t) \/ MakeDirectory(t)
  BY <1>8, <1>9 DEF AppendEvent, MakeDirectory
<1>10. CASE AppendFails(t) \/ FileFails(t)
  BY <1>7, <1>10 DEF AppendFails, FileFails
<1>11. CASE FileCorrection(t)
  BY <1>7, <1>8, <1>11 DEF FileCorrection, Acknowledge
<1>12. QED
  BY <1>9, <1>10, <1>11

LEMMA DecisionLedger ==
  ASSUME IInv, HInv, LInv, NEW t \in Thread, Decision(t)
  PROVE  LInv'
<1>0. DataType /\ FunctionType /\ Fits(t) /\ Heeding(t) /\ Informed(t)
  BY DEF IInv, HInv, LInv
<1>1. /\ UNCHANGED <<stores, acked, raced, call, at, since>> /\ UNCHANGED <<cert, latest>>
      /\ cert \subseteq cert' /\ Rightly
  BY DecisionChangesNoData DEF stores, Rightly
<1>2. Deciding(t)' = Deciding(t) /\ since'[t] = since[t]
  BY <1>1 DEF Deciding
<1>3. ASSUME NEW l \in Deciders, Goto(t, l), Informed(t)',
             \A u \in Thread \ {t} : found'[u] = found[u] /\ answer'[u] = answer[u]
      PROVE  LInv'
  <2>1. pc'[t] = l /\ l \notin {"compare", "name"}
    BY <1>0, <1>3 DEF Goto, FunctionType, Deciders
  <2>2. \A u \in Thread \ {t} : Untouched(u)
    BY <1>0, <1>1, <1>3 DEF Goto, Untouched, FunctionType
  <2>3. Stored(t)'
    BY <2>1 DEF Stored
  <2>4. QED
    BY <1>1, <1>3, <2>1, <2>2, <2>3, LedgerStays, LedgerAssemble
<1>4. ASSUME NEW a, NEW l \in {"load", "return"}, Goto(t, l), answer' = [answer EXCEPT ![t] = a],
             found' = found, a.kind = "use" /\ Deciding(t) \notin raced => Controls(t, a.by)
      PROVE  LInv'
  <2>1. pc'[t] = l /\ answer'[t] = a /\ \A u \in Thread \ {t} : answer'[u] = answer[u]
    BY <1>0, <1>4 DEF Goto, FunctionType
  <2>2. Controls(t, a.by)' <=> Controls(t, a.by)
    BY <1>2 DEF Controls
  <2>3. Informed(t)'
    BY <1>1, <1>2, <1>4, <2>1, <2>2 DEF Informed
  <2>4. QED
    BY <1>3, <1>4, <2>1, <2>3 DEF Deciders
<1>5. ASSUME Decided(t, Refused) \/ Decided(t, Error), found' = found PROVE LInv'
  BY <1>4, <1>5 DEF Decided, Refused, Error
<1>6. ASSUME NEW x, Judge(t, x), found' = found, Deciding(t) \notin raced => Controls(t, x)
      PROVE  LInv'
  <2>1. CASE x \in Granting
    BY <1>4, <1>6, <2>1 DEF Judge
  <2>2. CASE x \notin Granting
    BY <1>5, <1>6, <2>2 DEF Judge
  <2>3. QED
    BY <2>1, <2>2
<1>7. ASSUME NEW l \in Deciders \ {"certificates"}, Goto(t, l), answer' = answer, answer[t] = NoAnswer,
             \A u \in Thread \ {t} : found'[u] = found[u]
      PROVE  LInv'
  <2>1. pc'[t] = l
    BY <1>0, <1>7 DEF Goto, FunctionType
  <2>2. Informed(t)'
    BY <1>7, <2>1 DEF Informed, NoAnswer
  <2>3. QED
    BY <1>3, <1>7, <2>2
<1>8. pc[t] \notin {"load", "return"} => answer[t] = NoAnswer
  BY <1>0 DEF Fits
<1>9. CASE LookForIndex(t) \/ PassBarrier(t) \/ PassOverLatest(t)
  <2>1. answer[t] = NoAnswer /\ UNCHANGED <<found, answer>>
    BY <1>8, <1>9 DEF LookForIndex, PassBarrier, PassOverLatest
  <2>2. \E l \in {"index", "events", "latest", "list"} : Goto(t, l)
    BY <1>9 DEF LookForIndex, PassBarrier, PassOverLatest
  <2>3. QED
    BY <1>7, <2>1, <2>2 DEF Deciders
<1>10. CASE ReadEvents(t) \/ OpenIndex(t) \/ ReadFiles(t)
  <2>1. answer[t] = NoAnswer /\ answer' = answer
    BY <1>8, <1>10 DEF ReadEvents, OpenIndex, ReadFiles
  <2>2. \E l \in {"gate", "files"} : Goto(t, l)
    BY <1>10 DEF ReadEvents, OpenIndex, ReadFiles
  <2>3. \A u \in Thread \ {t} : found'[u] = found[u]
    BY <1>0, <1>10 DEF ReadEvents, OpenIndex, ReadFiles, FunctionType
  <2>4. QED
    BY <1>7, <2>1, <2>2, <2>3 DEF Deciders
<1>11. CASE IndexUnreadable(t) \/ LedgerUnreadable(t) \/ DecisionFails(t)
  BY <1>5, <1>11 DEF IndexUnreadable, LedgerUnreadable, DecisionFails
<1>12. CASE LatestForCheckpoint(t)
  <2>1. pc[t] = "latest" /\ found' = found /\ Judge(t, latest[Deciding(t)])
    BY <1>12 DEF LatestForCheckpoint
  <2>2. Deciding(t) \in Checkpoint
    BY <2>1, DecidingTyped DEF Deciders
  <2>3. ASSUME Deciding(t) \notin raced PROVE Controls(t, latest[Deciding(t)])
    <3>1. Ruled(Deciding(t)) /\ since[t] \subseteq acked
      BY <1>0, <2>2, <2>3 DEF LInv, Ledger, Heeding
    <3>2. QED
      BY <3>1 DEF Ruled, AsNew, Controls
  <2>4. QED
    BY <1>6, <2>1, <2>3
<1>13. CASE OpenCertificates(t)
  <2>1. /\ pc[t] = "list" /\ Goto(t, "certificates") /\ answer' = answer
        /\ found' = [found EXCEPT ![t] = cert \cup Left("certificates")]
    BY <1>13 DEF OpenCertificates
  <2>2. found'[t] = cert \cup Left("certificates") /\ \A u \in Thread \ {t} : found'[u] = found[u]
    BY <1>0, <2>1 DEF FunctionType
  <2>3. since[t] \cap Certificate \subseteq cert
    BY <1>0 DEF LInv, Ledger, Heeding
  <2>4. answer'[t] = NoAnswer
    BY <1>8, <2>1
  <2>5. Informed(t)'
    BY <1>2, <2>2, <2>3, <2>4 DEF Informed, NoAnswer
  <2>6. QED
    BY <1>3, <2>1, <2>2, <2>5 DEF Deciders
<1>14. CASE ListForCheckpoint(t)
  <2>1. pc[t] = "certificates" /\ found' = found
    BY <1>14 DEF ListForCheckpoint
  <2>2. PICK read : LET those == {x \in found[t] \cup read : About[x] = Deciding(t)} IN
           \/ those = {} /\ Decided(t, Refused)
           \/ \E x \in those : /\ \A y \in those : Created[y] <= Created[x]
                               /\ Judge(t, x)
    BY <1>14 DEF ListForCheckpoint
  <2>3. CASE Decided(t, Refused)
    BY <1>5, <2>1, <2>3
  <2>4. ASSUME NEW x, Judge(t, x),
               \A y \in found[t] : About[y] = Deciding(t) => Created[y] <= Created[x]
        PROVE  LInv'
    <3>1. Controls(t, x)
      BY <1>0, <2>1, <2>4 DEF Informed, Controls
    <3>2. QED
      BY <1>6, <2>1, <2>4, <3>1
  <2>5. QED
    BY <2>2, <2>3, <2>4
<1>15. CASE LoadCheckpoint(t)
  <2>1. pc[t] = "load" /\ Goto(t, "return") /\ found' = found /\ answer' = answer
    BY <1>15 DEF LoadCheckpoint
  <2>2. pc'[t] = "return"
    BY <1>0, <2>1 DEF Goto, FunctionType
  <2>3. Informed(t)'
    BY <1>0, <1>1, <1>2, <2>1, <2>2 DEF Informed, Controls
  <2>4. QED
    BY <1>3, <2>1, <2>3 DEF Deciders
<1>16. CASE ReplayEvents(t)
  <2>1. PICK D : D = BlockingCorrectionsFor(found[t], Deciding(t))
    OBVIOUS
  <2>2. /\ found' = found
        /\ Decided(t, IF D \subseteq Actionable THEN [kind |-> "replay", directives |-> D] ELSE Error)
    BY <1>16, <2>1 DEF ReplayEvents
  <2>3. PICK a : a.kind # "use" /\ Decided(t, a)
    BY <2>2 DEF Error
  <2>4. QED
    BY <1>4, <2>2, <2>3 DEF Decided
<1>17. QED
  BY <1>9, <1>10, <1>11, <1>12, <1>13, <1>14, <1>15, <1>16 DEF Decision

LEMMA InitLInv == Init => LInv
<1>1. SUFFICES ASSUME Init PROVE LInv
  OBVIOUS
<1>2. Ledger
  BY <1>1 DEF Init, Ledger, Ruled, Naming
<1>3. ASSUME NEW t \in Thread PROVE Stored(t) /\ Informed(t)
  BY <1>1 DEF Init, Stored, Informed, NoAnswer
<1>4. QED
  BY <1>2, <1>3 DEF LInv

LEMMA NextLInv == IInv /\ HInv /\ LInv /\ [Next]_vars => LInv'
<1>1. SUFFICES ASSUME IInv, HInv, LInv, [Next]_vars PROVE LInv'
  OBVIOUS
<1>2. CASE UNCHANGED vars
  BY <1>1, <1>2 DEF LInv, Ledger, Ruled, AsNew, Naming, Newer, Stored, Informed, Controls,
     Certifying, Deciding, vars, stores
<1>3. CASE \E t \in Thread : Call(t)
  BY <1>1, <1>3, CallLedger
<1>4. CASE \E t \in Thread : AppendEvent(t) \/ AppendFails(t) \/ MakeDirectory(t)
                               \/ FileCorrection(t) \/ FileFails(t)
  BY <1>1, <1>4, CorrectLedger
<1>5. CASE \E t \in Thread : LookForCertificate(t) \/ StoreCertificate(t) \/ CompareLatest(t)
                               \/ NameLatest(t) \/ CertificateFails(t)
  BY <1>1, <1>5, CertifyLedger
<1>6. CASE \E t \in Thread : Decision(t)
  BY <1>1, <1>6, DecisionLedger
<1>7. CASE \E t \in Thread : Return(t) \/ Crash(t)
  <2>1. PICK t \in Thread : Return(t) \/ Crash(t)
    BY <1>7
  <2>2. End(t) /\ cert \subseteq cert' /\ latest' = latest /\ raced' = raced /\ Rightly
    BY <2>1 DEF Return, Crash, stores, Rightly
  <2>3. QED
    BY <1>1, <2>2, EndLedger
<1>8. QED
  BY <1>1, <1>2, <1>3, <1>4, <1>5, <1>6, <1>7, Steps

\* A decision goes by no certificate older than one that was acknowledged before it
\* began, whether it reads the latest index or lists the ledger, and whatever calls run
\* at the same time, fail or die; unless two auditors wrote that index at once.
THEOREM LatestDecides == Spec => []LatestControls
<1>1. Init => IInv /\ HInv /\ LInv
  BY InitIInv, InitHInv, InitLInv
<1>2. IInv /\ HInv /\ LInv /\ [Next]_vars => (IInv /\ HInv /\ LInv)'
  BY NextIInv, NextHInv, NextLInv
<1>3. LInv => LatestControls
  BY DEF LInv, Informed, Controls, LatestControls
<1>4. QED
  BY <1>1, <1>2, <1>3, PTL DEF Spec
=============================================================================
