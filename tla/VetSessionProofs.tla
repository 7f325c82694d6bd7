--------------------------- MODULE VetSessionProofs ---------------------------
(***************************************************************************)
(* Of the vet commands, for any number of processes, events and documents: *)
(* steps are in order unless they were given or recorded at once, a        *)
(* verified bundle is of the whole log, and a rejected one has reason.     *)
(***************************************************************************)
EXTENDS VetSession, FiniteSetTheorems, TLAPS

-----------------------------------------------------------------------------
(* The invariant *)

BundleT == [count : Nat, corrections : SUBSET Nat, aid : Nat, raw : Nat, start : Nat]

FilesTyped ==
  /\ log \in Seq(EventType) /\ raw \in Nat /\ damaged \in BOOLEAN
  /\ writer \in Process \cup {Nobody}
  /\ aid \in Nat /\ versions \in Nat /\ handoff \in BundleT /\ disordered \in BOOLEAN

LocalTyped ==
  /\ pc \in [Process -> Labels] /\ call \in [Process -> Commands \cup {"none"}]
  /\ given \in [Process -> Nat]
  /\ read \in [Process -> ReadType] /\ bundle \in [Process -> BundleT]
  /\ verdict \in [Process -> {"none", "verified", "rejected"}] /\ since \in [Process -> Nat]

\* What the bytes of the log are, and that a document is one of those there were.
Sized ==
  /\ ~damaged /\ writer = Nobody => raw = 2 * Len(log)
  /\ ~damaged /\ writer # Nobody => raw = 2 * Len(log) + 1
  /\ damaged => raw > 2 * Len(log)
  /\ aid <= versions

\* What a bundle says was so once.
Once(b) ==
  /\ b.count <= Len(log) /\ b.corrections = Corrections(b.count)
  /\ b.aid <= versions
  /\ b.start = 2 * b.count /\ b.start <= b.raw /\ b.raw <= raw

Recording(p) == pc[p] \in {"append", "write"}

Plan(p) ==
  /\ pc[p] = "idle" => call[p] = "none"
  /\ Recording(p) => Appends(p)
  /\ pc[p] \in {"read aid", "digest", "open output", "output"} => call[p] = "handoff"
  /\ pc[p] \in {"open aid", "write aid"} => call[p] \in {"init", "handoff"}
  /\ pc[p] = "write" <=> writer = p
  /\ verdict[p] # "none" => pc[p] = "return"
  /\ since[p] <= Len(log)

\* What a handoff has read by now.
Gathers(p) ==
  /\ pc[p] \in {"read aid", "open aid", "write aid", "digest", "open output", "output"}
       /\ call[p] = "handoff" =>
       read[p].count <= Len(log) /\ read[p].start = 2 * read[p].count
  /\ pc[p] \in {"digest", "open output", "output"} => read[p].aid # 0 /\ read[p].aid <= versions
  /\ pc[p] \in {"open output", "output"} => read[p].start <= read[p].raw /\ read[p].raw <= raw

Verifying == {"verify aid", "verify digest", "verify events", "return"}

Whole(p) ==
  /\ bundle[p].count >= since[p]
  /\ bundle[p].corrections = Corrections(bundle[p].count)
  /\ bundle[p].raw = 2 * bundle[p].count
Reason(p) == raw # bundle[p].start \/ aid # bundle[p].aid \/ disordered

\* What a verification knows of its bundle by now.
Checks(p) ==
  /\ Once(bundle[p])
  /\ pc[p] \in Verifying => bundle[p].aid # 0
  /\ pc[p] \in {"verify digest", "verify events"} =>
       (read[p].aid # bundle[p].aid => aid # bundle[p].aid)
  /\ pc[p] = "verify events" => bundle[p].raw <= read[p].raw /\ read[p].raw <= raw
  /\ verdict[p] = "verified" => Whole(p)
  /\ verdict[p] = "rejected" => Reason(p)

Fits(p) == Plan(p) /\ Gathers(p) /\ Checks(p)

\* While steps are in order one process records, and it found the last step.
Numbers(p) ==
  ~disordered =>
    /\ Appends(p) => given[p] = 0
    /\ Recording(p) /\ ~damaged => read[p].count = Len(log)
OneRecords == ~disordered => \A p, q \in Process : Recording(p) /\ Recording(q) => p = q

Ordered == StepsInOrder /\ OneRecords /\ \A p \in Process : Numbers(p)

HandoffOnce == Once(handoff) /\ (handoff # NoBundle => handoff.aid # 0)

IInv ==
  /\ FilesTyped /\ LocalTyped /\ Sized /\ Ordered /\ HandoffOnce
  /\ \A p \in Process : Fits(p)

-----------------------------------------------------------------------------
(* Whatever others do *)

Untouched(q) ==
  /\ pc'[q] = pc[q] /\ call'[q] = call[q] /\ given'[q] = given[q] /\ read'[q] = read[q]
  /\ bundle'[q] = bundle[q] /\ verdict'[q] = verdict[q] /\ since'[q] = since[q]

\* The files only grow, and no document comes twice.
Grows ==
  /\ Len(log) <= Len(log') /\ \A i \in 1..Len(log) : log'[i] = log[i]
  /\ raw <= raw' /\ versions <= versions'
  /\ \A n \in Nat : n # 0 /\ n <= versions /\ aid # n => aid' # n
  /\ (disordered => disordered') /\ (damaged => damaged')

LEMMA CorrectionsKept ==
  ASSUME Grows, FilesTyped, NEW n \in Nat, n <= Len(log)
  PROVE  Corrections(n)' = Corrections(n)
<1>1. ASSUME NEW i \in 1..n PROVE log'[i] = log[i]
  <2>1. Len(log) \in Nat
    BY DEF FilesTyped
  <2>2. i \in 1..Len(log)
    BY <2>1
  <2>3. QED
    BY <2>2 DEF Grows
<1>2. QED
  BY <1>1 DEF Corrections

LEMMA OnceKept ==
  ASSUME Grows, FilesTyped, FilesTyped', NEW b \in BundleT, Once(b)
  PROVE  Once(b)'
<1>1. Corrections(b.count)' = Corrections(b.count)
  BY CorrectionsKept DEF Once, BundleT
<1>2. /\ b.count \in Nat /\ b.aid \in Nat /\ b.raw \in Nat /\ Len(log) \in Nat /\ Len(log') \in Nat
      /\ raw \in Nat /\ raw' \in Nat /\ versions \in Nat /\ versions' \in Nat
  BY DEF BundleT, FilesTyped
<1>3. b.count <= Len(log') /\ b.aid <= versions' /\ b.raw <= raw'
  BY <1>2 DEF Once, Grows
<1>4. QED
  BY <1>1, <1>3 DEF Once

LEMMA Numeric ==
  ASSUME FilesTyped
  PROVE  Len(log) \in Nat /\ raw \in Nat /\ versions \in Nat /\ aid \in Nat
BY DEF FilesTyped

LEMMA LocalNumeric ==
  ASSUME LocalTyped, NEW q \in Process
  PROVE  /\ since[q] \in Nat /\ read[q] \in ReadType /\ bundle[q] \in BundleT
         /\ read[q].count \in Nat /\ read[q].aid \in Nat /\ read[q].raw \in Nat
         /\ read[q].start \in Nat
         /\ bundle[q].count \in Nat /\ bundle[q].aid \in Nat /\ bundle[q].raw \in Nat
         /\ bundle[q].start \in Nat
<1>1. since[q] \in Nat /\ read[q] \in ReadType /\ bundle[q] \in BundleT
  BY DEF LocalTyped
<1>2. QED
  BY <1>1 DEF ReadType, BundleT

LEMMA UntouchedFits ==
  ASSUME IInv, Grows, FilesTyped', NEW q \in Process, Untouched(q),
         writer' = q <=> writer = q
  PROVE  Fits(q)'
<1>1. Plan(q) /\ Gathers(q) /\ Checks(q) /\ FilesTyped /\ LocalTyped
  BY DEF IInv, Fits
<1>2. /\ Len(log) \in Nat /\ raw \in Nat /\ versions \in Nat
      /\ Len(log') \in Nat /\ raw' \in Nat /\ versions' \in Nat
  BY <1>1 DEF FilesTyped
<1>3. /\ \A n \in Nat : n <= Len(log) => n <= Len(log')
      /\ \A n \in Nat : n <= raw => n <= raw'
      /\ \A n \in Nat : n <= versions => n <= versions'
  BY <1>2 DEF Grows
<1>4. Plan(q)'
  <2>1. since[q] <= Len(log')
    BY <1>1, <1>3, LocalNumeric DEF Plan
  <2>2. pc'[q] = "write" <=> writer' = q
    BY <1>1 DEF Plan, Untouched
  <2>3. QED
    BY <1>1, <2>1, <2>2 DEF Plan, Untouched, Appends, Recording
<1>5. Gathers(q)'
  BY <1>1, <1>3, LocalNumeric DEF Gathers, Untouched
<1>6. Once(bundle[q])'
  <2>1. Once(bundle[q])
    BY <1>1 DEF Checks
  <2>2. PICK b \in BundleT : b = bundle[q] /\ b = bundle'[q]
    BY <1>1, LocalNumeric DEF Untouched
  <2>3. Once(b)'
    BY <1>1, <2>1, <2>2, OnceKept
  <2>4. QED
    BY <2>2, <2>3 DEF Once
<1>7. verdict[q] = "verified" => Whole(q)'
  <2>1. Corrections(bundle[q].count)' = Corrections(bundle[q].count)
    <3>1. PICK n \in Nat : n = bundle[q].count /\ n = bundle'[q].count
      BY <1>1, LocalNumeric DEF Untouched
    <3>2. n <= Len(log)
      BY <1>1, <3>1 DEF Checks, Once
    <3>3. Corrections(n)' = Corrections(n)
      BY <1>1, <3>2, CorrectionsKept
    <3>4. QED
      BY <3>1, <3>3 DEF Corrections
  <2>2. QED
    BY <1>1, <2>1 DEF Checks, Whole, Untouched, Corrections
<1>8. verdict[q] = "rejected" => Reason(q)'
  <2>1. SUFFICES ASSUME verdict[q] = "rejected" PROVE Reason(q)'
    OBVIOUS
  <2>2. /\ bundle[q].start <= raw /\ bundle[q].aid # 0 /\ bundle[q].aid <= versions
        /\ Reason(q)
    <3>1. bundle[q].start <= bundle[q].raw /\ bundle[q].raw <= raw
      BY <1>1 DEF Checks, Once
    <3>2. bundle[q].start <= raw
      BY <1>1, <1>2, <3>1, LocalNumeric
    <3>3. QED
      BY <1>1, <2>1, <3>2 DEF Plan, Checks, Once, Verifying
  <2>3. CASE raw # bundle[q].start
    <3>1. raw' # bundle[q].start
      BY <1>1, <1>2, <2>2, <2>3, LocalNumeric DEF Grows
    <3>2. QED
      BY <3>1 DEF Reason, Untouched
  <2>4. CASE aid # bundle[q].aid
    <3>1. aid' # bundle[q].aid
      BY <1>1, <2>2, <2>4, LocalNumeric DEF Grows
    <3>2. QED
      BY <3>1 DEF Reason, Untouched
  <2>5. CASE disordered
    BY <2>5 DEF Reason, Grows
  <2>6. QED
    BY <2>2, <2>3, <2>4, <2>5 DEF Reason
<1>9. pc[q] \in {"verify digest", "verify events"} =>
        (read[q].aid # bundle[q].aid => aid' # bundle[q].aid)
  <2>1. pc[q] \in Verifying => bundle[q].aid # 0 /\ bundle[q].aid <= versions
    BY <1>1 DEF Checks, Once
  <2>2. QED
    BY <1>1, <2>1, LocalNumeric DEF Checks, Verifying, Grows
<1>10. pc[q] = "verify events" => bundle[q].raw <= read[q].raw /\ read[q].raw <= raw'
  BY <1>1, <1>3, LocalNumeric DEF Checks
<1>11. pc[q] \in Verifying => bundle[q].aid # 0
  BY <1>1 DEF Checks
<1>12. Checks(q)'
  BY <1>6, <1>7, <1>8, <1>9, <1>10, <1>11 DEF Checks, Untouched
<1>13. QED
  BY <1>4, <1>5, <1>12 DEF Fits

\* A step of one process.
LEMMA Assemble ==
  ASSUME IInv, NEW p \in Process, Grows, FilesTyped', LocalTyped', Sized', Ordered', HandoffOnce',
         \A q \in Process \ {p} : Untouched(q) /\ (writer' = q <=> writer = q), Fits(p)'
  PROVE  IInv'
<1>1. ASSUME NEW q \in Process PROVE Fits(q)'
  <2>1. CASE q = p
    BY <2>1
  <2>2. CASE q # p
    BY <2>2, UntouchedFits
  <2>3. QED
    BY <2>1, <2>2
<1>2. QED
  BY <1>1 DEF IInv

\* A step that records nothing.
LEMMA OrderKept ==
  ASSUME IInv, NEW p \in Process, UNCHANGED log,
         \A q \in Process \ {p} : Untouched(q),
         (disordered => disordered'), (damaged => damaged'),
         Appends(p)' => disordered' \/ given'[p] = 0,
         Recording(p)' => Recording(p) /\ UNCHANGED <<read, given, call>>
  PROVE  Ordered'
<1>1. StepsInOrder'
  BY DEF IInv, Ordered, StepsInOrder
<1>2. ASSUME NEW q \in Process PROVE Recording(q)' => Recording(q)
  BY DEF Untouched, Recording
<1>3. OneRecords'
  BY <1>2 DEF IInv, Ordered, OneRecords
<1>4. ASSUME NEW q \in Process PROVE Numbers(q)'
  <2>1. Numbers(q)
    BY DEF IInv, Ordered
  <2>2. CASE q = p
    BY <2>1, <2>2 DEF Numbers, Recording
  <2>3. CASE q # p
    BY <2>1, <2>3 DEF Numbers, Untouched, Recording, Appends
  <2>4. QED
    BY <2>2, <2>3
<1>5. QED
  BY <1>1, <1>3, <1>4 DEF Ordered

\* A step that leaves the files alone and records nothing.
LEMMA Quiet ==
  ASSUME IInv, NEW p \in Process, UNCHANGED <<files, disordered>>, LocalTyped',
         \A q \in Process \ {p} : Untouched(q), Fits(p)',
         Appends(p)' => disordered' \/ given'[p] = 0,
         Recording(p)' => Recording(p) /\ UNCHANGED <<read, given, call>>
  PROVE  IInv'
<1>1. Grows /\ FilesTyped' /\ Sized' /\ HandoffOnce'
  BY DEF IInv, files, Grows, FilesTyped, Sized, HandoffOnce, Once, Corrections
<1>2. Ordered'
  BY OrderKept DEF files
<1>3. QED
  BY <1>1, <1>2, Assemble DEF files

LEMMA QuietIsGrowing ==
  ASSUME FilesTyped, UNCHANGED <<log, raw, versions, aid, damaged>>, disordered => disordered'
  PROVE  Grows
BY Numeric DEF Grows

LEMMA EndUntouched ==
  ASSUME IInv, NEW p \in Process, End(p)
  PROVE  \A q \in Process \ {p} : Untouched(q)
BY DEF IInv, LocalTyped, End, Goto, Untouched

LEMMA EndTyped ==
  ASSUME IInv, NEW p \in Process, End(p)
  PROVE  /\ LocalTyped' /\ ~Appends(p)' /\ ~Recording(p)'
         /\ pc'[p] = "idle" /\ call'[p] = "none" /\ verdict'[p] = "none" /\ since'[p] = 0
         /\ bundle'[p] = NoBundle
<1>1. NothingRead \in ReadType /\ NoBundle \in BundleT /\ "idle" \in Labels
  BY DEF NothingRead, ReadType, NoBundle, BundleT, Labels
<1>2. LocalTyped'
  BY <1>1 DEF IInv, LocalTyped, End, Goto
<1>3. /\ pc'[p] = "idle" /\ call'[p] = "none" /\ verdict'[p] = "none" /\ since'[p] = 0
      /\ bundle'[p] = NoBundle
  BY DEF IInv, LocalTyped, End, Goto
<1>4. QED
  BY <1>2, <1>3 DEF Appends, Recording

LEMMA NoBundleOnce ==
  ASSUME FilesTyped
  PROVE  Once(NoBundle)
<1>1. NoBundle.count = 0 /\ NoBundle.corrections = {} /\ NoBundle.aid = 0 /\ NoBundle.raw = 0
      /\ NoBundle.start = 0
  BY DEF NoBundle
<1>2. Corrections(0) = {}
  BY DEF Corrections
<1>3. QED
  BY <1>1, <1>2, Numeric DEF Once

LEMMA EndFits ==
  ASSUME IInv, FilesTyped', NEW p \in Process, End(p), writer' # p
  PROVE  Fits(p)'
<1>1. /\ pc'[p] = "idle" /\ call'[p] = "none" /\ verdict'[p] = "none" /\ since'[p] = 0
      /\ bundle'[p] = NoBundle
  BY EndTyped
<1>2. Once(NoBundle)' /\ Len(log') \in Nat
  <2>1. NoBundle.count = 0 /\ NoBundle.corrections = {} /\ NoBundle.aid = 0 /\ NoBundle.raw = 0
        /\ NoBundle.start = 0
    BY DEF NoBundle
  <2>2. Corrections(0)' = {}
    BY DEF Corrections
  <2>3. Len(log') \in Nat /\ raw' \in Nat /\ versions' \in Nat
    BY DEF FilesTyped
  <2>4. QED
    BY <2>1, <2>2, <2>3 DEF Once, Corrections
<1>3. Once(bundle[p])'
  BY <1>1, <1>2 DEF Once, Corrections
<1>4. Plan(p)'
  BY <1>1, <1>2 DEF Plan, Recording
<1>5. Gathers(p)' /\ Checks(p)'
  BY <1>1, <1>3 DEF Gathers, Checks, Verifying
<1>6. QED
  BY <1>4, <1>5 DEF Fits

\* A command that ends and leaves the files alone.
LEMMA QuietEnd ==
  ASSUME IInv, NEW p \in Process, End(p), UNCHANGED <<files, disordered>>, pc[p] # "write"
  PROVE  IInv'
<1>1. FilesTyped' /\ writer' # p
  BY DEF IInv, Fits, Plan, FilesTyped, files
<1>2. QED
  BY <1>1, EndTyped, EndUntouched, EndFits, Quiet

-----------------------------------------------------------------------------
(* The steps that only read *)

LEMMA RunCommandKeeps ==
  ASSUME IInv, NEW p \in Process, RunCommand(p)
  PROVE  IInv'
<1>1. PICK c \in CallsOf[p] :
        /\ call' = [call EXCEPT ![p] = c] /\ Goto(p, Begin(c))
        /\ \E n \in {0} \cup {n \in Given : c = "record"} :
             /\ given' = [given EXCEPT ![p] = n]
             /\ disordered' = (disordered \/ n # 0)
  BY DEF RunCommand
<1>2. PICK n \in {0} \cup {n \in Given : c = "record"} :
        given' = [given EXCEPT ![p] = n] /\ disordered' = (disordered \/ n # 0)
  BY <1>1
<1>3. /\ c \in Commands /\ n \in Nat /\ Begin(c) \in {"open aid", "read bundle", "load"}
      /\ Begin(c) = "open aid" => c = "init"
  BY CallsAssumption, GivenAssumption DEF Begin, Commands
<1>4. /\ pc[p] = "idle" /\ UNCHANGED <<files, read, bundle, verdict, faults>>
      /\ since' = [since EXCEPT ![p] = Len(log)]
      /\ FilesTyped /\ LocalTyped /\ Plan(p) /\ Checks(p) /\ Len(log) \in Nat
  BY Numeric DEF RunCommand, IInv, Fits
<1>5. /\ pc'[p] = Begin(c) /\ call'[p] = c /\ given'[p] = n /\ since'[p] = Len(log)
      /\ \A q \in Process \ {p} : Untouched(q)
  BY <1>1, <1>2, <1>4 DEF LocalTyped, Goto, Untouched
<1>6. LocalTyped' /\ disordered' \in BOOLEAN
  BY <1>1, <1>2, <1>3, <1>4 DEF LocalTyped, Goto, Labels, FilesTyped
<1>7. FilesTyped' /\ Sized' /\ HandoffOnce' /\ Grows
  BY <1>2, <1>4, <1>6, QuietIsGrowing DEF IInv, FilesTyped, Sized, HandoffOnce, Once, Corrections,
     files
<1>8. Ordered'
  <2>1. Appends(p)' => disordered' \/ given'[p] = 0
    BY <1>2, <1>5
  <2>2. ~Recording(p)'
    BY <1>3, <1>5 DEF Recording
  <2>3. QED
    BY <1>2, <1>4, <1>5, <2>1, <2>2, OrderKept DEF files
<1>9. Fits(p)'
  <2>1. Once(bundle[p])'
    BY <1>4 DEF Checks, Once, Corrections, files
  <2>2. verdict'[p] = "none" /\ writer' # p /\ since'[p] <= Len(log')
    BY <1>4, <1>5 DEF Plan, LocalTyped, files
  <2>3. Plan(p)'
    BY <1>3, <1>5, <2>2 DEF Plan, Recording
  <2>4. Gathers(p)'
    BY <1>3, <1>5 DEF Gathers
  <2>5. Checks(p)'
    BY <1>3, <1>5, <2>1, <2>2 DEF Checks, Verifying
  <2>6. QED
    BY <2>3, <2>4, <2>5 DEF Fits
<1>10. QED
  BY <1>4, <1>5, <1>6, <1>7, <1>8, <1>9, Assemble DEF files

LEMMA CountEventsKeeps ==
  ASSUME IInv, NEW p \in Process, CountEvents(p)
  PROVE  IInv'
<1>1. /\ pc[p] = "load" /\ Appends(p) /\ FilesTyped /\ LocalTyped /\ Plan(p) /\ Checks(p)
      /\ UNCHANGED <<files, call, given, bundle, verdict, since, faults>>
  BY DEF CountEvents, IInv, Fits
<1>2. PICK n \in Nat : /\ n = (IF damaged THEN 0 ELSE Len(log))
                       /\ read' = [read EXCEPT ![p] = [read[p] EXCEPT !.count = n]]
  BY <1>1, Numeric DEF CountEvents, Read
<1>3. [read[p] EXCEPT !.count = n] \in ReadType
  BY <1>1, LocalNumeric DEF ReadType
<1>4. LocalTyped' /\ pc'[p] = "append" /\ read'[p].count = n /\ \A q \in Process \ {p} : Untouched(q)
  BY <1>1, <1>2, <1>3 DEF LocalTyped, CountEvents, Goto, Labels, Untouched, ReadType
<1>5. disordered' \in BOOLEAN /\ (disordered => disordered')
  BY <1>1 DEF CountEvents, FilesTyped
<1>6. FilesTyped' /\ Sized' /\ HandoffOnce' /\ Grows
  BY <1>1, <1>5, QuietIsGrowing DEF IInv, FilesTyped, Sized, HandoffOnce, Once, Corrections, files
<1>7. Ordered'
  <2>1. StepsInOrder'
    BY <1>1, <1>5 DEF IInv, Ordered, StepsInOrder, files
  <2>2. ASSUME NEW q \in Process \ {p}, ~disordered' PROVE ~Recording(q)'
    <3>1. ~(Appends(q) /\ pc[q] # "load")
      BY <2>2 DEF CountEvents
    <3>2. Plan(q)
      BY DEF IInv, Fits
    <3>3. QED
      BY <1>4, <3>1, <3>2 DEF Plan, Recording, Untouched
  <2>3. OneRecords'
    BY <2>2 DEF OneRecords
  <2>4. Numbers(p)'
    BY <1>1, <1>2, <1>4, <1>5 DEF IInv, Ordered, Numbers, Appends, files
  <2>5. ASSUME NEW q \in Process \ {p} PROVE Numbers(q)'
    BY <1>1, <1>4, <1>5, <2>2 DEF IInv, Ordered, Numbers, Appends, Untouched, Recording
  <2>6. QED
    BY <2>1, <2>3, <2>4, <2>5 DEF Ordered
<1>8. Fits(p)'
  <2>1. Plan(p)'
    BY <1>1, <1>4 DEF Plan, Recording, Appends, files
  <2>2. Gathers(p)'
    BY <1>4 DEF Gathers
  <2>3. verdict[p] = "none"
    BY <1>1 DEF Plan, LocalTyped
  <2>4. Checks(p)'
    BY <1>1, <1>4, <2>3 DEF Checks, Verifying, Once, Corrections, files
  <2>5. QED
    BY <2>1, <2>2, <2>4 DEF Fits
<1>9. QED
  BY <1>1, <1>4, <1>6, <1>7, <1>8, Assemble DEF files

\* A step from and to where nothing is recorded, which ends no command.
Moves(p, l) ==
  /\ UNCHANGED <<files, disordered, call, given, since>>
  /\ pc' = [pc EXCEPT ![p] = l] /\ l \in Labels \ {"idle", "append", "write"}
  /\ read' = [read EXCEPT ![p] = read'[p]] /\ read'[p] \in ReadType
  /\ bundle' = [bundle EXCEPT ![p] = bundle'[p]] /\ bundle'[p] \in BundleT
  /\ verdict' = [verdict EXCEPT ![p] = verdict'[p]]
  /\ verdict'[p] \in {"none", "verified", "rejected"}

LEMMA MoveKeeps ==
  ASSUME IInv, NEW p \in Process, NEW l, Moves(p, l), pc[p] # "write", Fits(p)'
  PROVE  IInv'
<1>1. LocalTyped
  BY DEF IInv
<1>2. LocalTyped' /\ pc'[p] = l /\ \A q \in Process \ {p} : Untouched(q)
  BY <1>1 DEF LocalTyped, Moves, Untouched
<1>3. Appends(p)' => disordered' \/ given'[p] = 0
  BY DEF IInv, Ordered, Numbers, Moves, Appends
<1>4. ~Recording(p)'
  BY <1>2 DEF Moves, Recording
<1>5. QED
  BY <1>2, <1>3, <1>4, Quiet DEF Moves

LEMMA LoadEventsKeeps ==
  ASSUME IInv, NEW p \in Process, LoadEvents(p)
  PROVE  IInv'
<1>1. /\ pc[p] = "load" /\ call[p] = "handoff" /\ writer = Nobody
      /\ UNCHANGED <<files, disordered, faults>>
      /\ FilesTyped /\ LocalTyped /\ Plan(p) /\ Checks(p) /\ Sized
  BY DEF LoadEvents, IInv, Fits
<1>2. CASE damaged
  BY <1>1, <1>2, QuietEnd DEF LoadEvents
<1>3. CASE ~damaged
  <2>1. /\ read' = [read EXCEPT ![p] = [read[p] EXCEPT !.count = Len(log), !.start = raw]]
        /\ Goto(p, "read aid") /\ UNCHANGED <<call, given, bundle, verdict, since>>
    BY <1>3 DEF LoadEvents, Read
  <2>2. [read[p] EXCEPT !.count = Len(log), !.start = raw] \in ReadType
    BY <1>1, LocalNumeric, Numeric DEF ReadType
  <2>3. /\ read'[p] = [read[p] EXCEPT !.count = Len(log), !.start = raw]
        /\ pc'[p] = "read aid" /\ read[p] \in ReadType
    BY <1>1, <2>1 DEF LocalTyped, Goto
  <2>4. Moves(p, "read aid")
    BY <1>1, <2>1, <2>2, <2>3 DEF Moves, LocalTyped, Goto, Labels
  <2>5. Plan(p)'
    BY <1>1, <2>1, <2>3 DEF Plan, Recording, files
  <2>6. Gathers(p)'
    <3>1. raw = 2 * Len(log)
      BY <1>1, <1>3 DEF Sized
    <3>2. read'[p].count = Len(log) /\ read'[p].start = raw
      BY <2>3 DEF ReadType
    <3>3. Len(log) \in Nat
      BY <1>1, Numeric
    <3>4. read'[p].count <= Len(log') /\ read'[p].start = 2 * read'[p].count
      BY <1>1, <3>1, <3>2, <3>3 DEF files
    <3>5. QED
      BY <2>3, <3>4 DEF Gathers
  <2>7. Checks(p)'
    BY <1>1, <2>1, <2>3 DEF Checks, Plan, Verifying, Once, Corrections, files
  <2>8. QED
    BY <1>1, <2>4, <2>5, <2>6, <2>7, MoveKeeps DEF Fits
<1>4. QED
  BY <1>2, <1>3

LEMMA ReadAidFileKeeps ==
  ASSUME IInv, NEW p \in Process, ReadAidFile(p)
  PROVE  IInv'
<1>1. /\ pc[p] = "read aid" /\ UNCHANGED <<files, call, given, bundle, verdict, since, disordered>>
      /\ FilesTyped /\ LocalTyped /\ Plan(p) /\ Gathers(p) /\ Checks(p) /\ Sized
      /\ call[p] = "handoff"
  BY DEF ReadAidFile, IInv, Fits, Plan
<1>2. Once(bundle[p])' /\ verdict'[p] = "none"
  BY <1>1 DEF Checks, Plan, Once, Corrections, files, LocalTyped
<1>3. CASE aid = 0
  <2>1. Goto(p, "open aid") /\ UNCHANGED read
    BY <1>3 DEF ReadAidFile
  <2>2. Moves(p, "open aid") /\ pc'[p] = "open aid"
    BY <1>1, <2>1 DEF Moves, LocalTyped, Goto, Labels
  <2>3. Fits(p)'
    BY <1>1, <1>2, <2>1, <2>2 DEF Fits, Plan, Gathers, Checks, Verifying, Recording, files
  <2>4. QED
    BY <1>1, <2>2, <2>3, MoveKeeps
<1>4. CASE aid # 0
  <2>1. Goto(p, "digest") /\ read' = [read EXCEPT ![p] = [read[p] EXCEPT !.aid = aid]]
    BY <1>4 DEF ReadAidFile, Read
  <2>2. [read[p] EXCEPT !.aid = aid] \in ReadType /\ read[p] \in ReadType
    BY <1>1, LocalNumeric, Numeric DEF ReadType
  <2>3. /\ read'[p] = [read[p] EXCEPT !.aid = aid] /\ pc'[p] = "digest"
        /\ Moves(p, "digest")
    BY <1>1, <2>1, <2>2 DEF Moves, LocalTyped, Goto, Labels
  <2>4. read'[p].aid = aid /\ read'[p].count = read[p].count /\ read'[p].start = read[p].start
    BY <2>2, <2>3 DEF ReadType
  <2>5. Fits(p)'
    BY <1>1, <1>2, <1>4, <2>3, <2>4
       DEF Fits, Plan, Gathers, Checks, Verifying, Recording, files, Sized
  <2>6. QED
    BY <1>1, <2>3, <2>5, MoveKeeps
<1>5. QED
  BY <1>3, <1>4

LEMMA DigestKeeps ==
  ASSUME IInv, NEW p \in Process, ComputeTraceDigestFromFile(p)
  PROVE  IInv'
<1>1. /\ pc[p] = "digest" /\ UNCHANGED <<files, disordered, faults>>
      /\ FilesTyped /\ LocalTyped /\ Plan(p) /\ Gathers(p) /\ Checks(p) /\ Sized
      /\ call[p] = "handoff"
  BY DEF ComputeTraceDigestFromFile, IInv, Fits, Plan
<1>2. CASE raw = 0
  BY <1>1, <1>2, QuietEnd DEF ComputeTraceDigestFromFile
<1>3. CASE raw # 0
  <2>1. /\ Goto(p, "open output") /\ read' = [read EXCEPT ![p] = [read[p] EXCEPT !.raw = raw]]
        /\ UNCHANGED <<call, given, bundle, verdict, since>>
    BY <1>3 DEF ComputeTraceDigestFromFile, Read
  <2>2. [read[p] EXCEPT !.raw = raw] \in ReadType /\ read[p] \in ReadType
    BY <1>1, LocalNumeric, Numeric DEF ReadType
  <2>3. /\ read'[p] = [read[p] EXCEPT !.raw = raw] /\ pc'[p] = "open output"
        /\ Moves(p, "open output")
    BY <1>1, <2>1, <2>2 DEF Moves, LocalTyped, Goto, Labels
  <2>4. /\ read'[p].raw = raw /\ read'[p].count = read[p].count /\ read'[p].start = read[p].start
        /\ read'[p].aid = read[p].aid
    BY <2>2, <2>3 DEF ReadType
  <2>5. read[p].start <= raw
    <3>1. read[p].start = 2 * read[p].count /\ read[p].count <= Len(log)
      BY <1>1 DEF Gathers
    <3>2. raw >= 2 * Len(log)
      BY <1>1, Numeric DEF Sized
    <3>3. QED
      BY <1>1, <3>1, <3>2, Numeric, LocalNumeric
  <2>6. Gathers(p)'
    <3>1. read'[p].count <= Len(log') /\ read'[p].start = 2 * read'[p].count
      BY <1>1, <2>4 DEF Gathers, files
    <3>2. read'[p].aid # 0 /\ read'[p].aid <= versions'
      BY <1>1, <2>4 DEF Gathers, files
    <3>3. read'[p].start <= read'[p].raw /\ read'[p].raw <= raw'
      BY <1>1, <2>4, <2>5, Numeric DEF files
    <3>4. QED
      BY <3>1, <3>2, <3>3 DEF Gathers
  <2>7. Once(bundle[p])' /\ verdict'[p] = "none"
    BY <1>1, <2>1 DEF Checks, Plan, Once, Corrections, files, LocalTyped
  <2>8. Plan(p)' /\ Checks(p)'
    BY <1>1, <2>1, <2>3, <2>7 DEF Plan, Checks, Verifying, Recording, files
  <2>9. QED
    BY <1>1, <2>3, <2>6, <2>8, MoveKeeps DEF Fits
<1>4. QED
  BY <1>2, <1>3

LEMMA ReadBundleKeeps ==
  ASSUME IInv, NEW p \in Process, ReadBundle(p)
  PROVE  IInv'
<1>1. /\ pc[p] = "read bundle" /\ UNCHANGED <<files, disordered, faults>>
      /\ FilesTyped /\ LocalTyped /\ Plan(p) /\ HandoffOnce
  BY DEF ReadBundle, IInv, Fits
<1>2. CASE handoff = NoBundle
  BY <1>1, <1>2, QuietEnd DEF ReadBundle
<1>3. CASE handoff # NoBundle
  <2>1. /\ bundle' = [bundle EXCEPT ![p] = handoff] /\ Goto(p, "verify aid")
        /\ UNCHANGED <<call, given, read, verdict, since>>
    BY <1>3 DEF ReadBundle
  <2>2. /\ bundle'[p] = handoff /\ pc'[p] = "verify aid" /\ Moves(p, "verify aid")
        /\ verdict'[p] = "none"
    BY <1>1, <2>1 DEF Moves, LocalTyped, FilesTyped, Goto, Labels, Plan
  <2>3. Once(bundle[p])' /\ bundle'[p].aid # 0
    BY <1>1, <1>3, <2>2 DEF HandoffOnce, Once, Corrections, files
  <2>4. Plan(p)' /\ Gathers(p)' /\ Checks(p)'
    BY <1>1, <2>1, <2>2, <2>3 DEF Plan, Gathers, Checks, Verifying, Recording, files
  <2>5. QED
    BY <1>1, <2>2, <2>4, MoveKeeps DEF Fits
<1>4. QED
  BY <1>2, <1>3

LEMMA VerifyAidKeeps ==
  ASSUME IInv, NEW p \in Process, VerifyAid(p)
  PROVE  IInv'
<1>1. /\ pc[p] = "verify aid" /\ UNCHANGED <<files, call, given, bundle, since, disordered, faults>>
      /\ FilesTyped /\ LocalTyped /\ Plan(p) /\ Checks(p)
  BY DEF VerifyAid, IInv, Fits
<1>2. Once(bundle[p])' /\ bundle[p].aid # 0 /\ verdict[p] = "none"
  BY <1>1 DEF Checks, Plan, Once, Corrections, files, LocalTyped, Verifying
<1>3. CASE aid = 0
  <2>1. verdict' = [verdict EXCEPT ![p] = "rejected"] /\ Goto(p, "return") /\ UNCHANGED read
    BY <1>3 DEF VerifyAid, Judge
  <2>2. verdict'[p] = "rejected" /\ pc'[p] = "return" /\ Moves(p, "return")
    BY <1>1, <2>1 DEF Moves, LocalTyped, Goto, Labels
  <2>3. Reason(p)'
    BY <1>1, <1>2, <1>3 DEF Reason, files
  <2>4. Plan(p)' /\ Gathers(p)' /\ Checks(p)'
    BY <1>1, <1>2, <2>1, <2>2, <2>3 DEF Plan, Gathers, Checks, Verifying, Recording, files
  <2>5. QED
    BY <1>1, <2>2, <2>4, MoveKeeps DEF Fits
<1>4. CASE aid # 0
  <2>1. /\ read' = [read EXCEPT ![p] = [read[p] EXCEPT !.aid = aid]]
        /\ Goto(p, "verify digest") /\ UNCHANGED verdict
    BY <1>4 DEF VerifyAid, Read
  <2>2. [read[p] EXCEPT !.aid = aid] \in ReadType /\ read[p] \in ReadType
    BY <1>1, LocalNumeric, Numeric DEF ReadType
  <2>3. /\ read'[p] = [read[p] EXCEPT !.aid = aid] /\ pc'[p] = "verify digest"
        /\ Moves(p, "verify digest")
    BY <1>1, <2>1, <2>2 DEF Moves, LocalTyped, Goto, Labels
  <2>4. read'[p].aid = aid
    BY <2>2, <2>3 DEF ReadType
  <2>5. Plan(p)' /\ Gathers(p)' /\ Checks(p)'
    BY <1>1, <1>2, <2>1, <2>3, <2>4 DEF Plan, Gathers, Checks, Verifying, Recording, files
  <2>6. QED
    BY <1>1, <2>3, <2>5, MoveKeeps DEF Fits
<1>5. QED
  BY <1>3, <1>4

LEMMA VerifyDigestKeeps ==
  ASSUME IInv, NEW p \in Process, VerifyDigest(p)
  PROVE  IInv'
<1>1. /\ pc[p] = "verify digest"
      /\ UNCHANGED <<files, call, given, bundle, verdict, since, disordered, faults>>
      /\ FilesTyped /\ LocalTyped /\ Plan(p) /\ Checks(p)
      /\ read' = [read EXCEPT ![p] = [read[p] EXCEPT !.raw = raw]] /\ Goto(p, "verify events")
  BY DEF VerifyDigest, Read, IInv, Fits
<1>2. Once(bundle[p])' /\ bundle[p].aid # 0 /\ verdict[p] = "none" /\ bundle[p].raw <= raw
  BY <1>1 DEF Checks, Plan, Once, Corrections, files, LocalTyped, Verifying
<1>3. [read[p] EXCEPT !.raw = raw] \in ReadType /\ read[p] \in ReadType
  BY <1>1, LocalNumeric, Numeric DEF ReadType
<1>4. /\ read'[p] = [read[p] EXCEPT !.raw = raw] /\ pc'[p] = "verify events"
      /\ Moves(p, "verify events")
  BY <1>1, <1>3 DEF Moves, LocalTyped, Goto, Labels
<1>5. read'[p].aid = read[p].aid /\ read'[p].raw = raw
  BY <1>3, <1>4 DEF ReadType
<1>6. raw <= raw'
  <2>1. raw' = raw /\ raw \in Nat
    BY <1>1, Numeric DEF files
  <2>2. QED
    BY <2>1
<1>7. Plan(p)' /\ Gathers(p)' /\ Checks(p)'
  BY <1>1, <1>2, <1>4, <1>5, <1>6 DEF Plan, Gathers, Checks, Verifying, Recording, files
<1>8. QED
  BY <1>1, <1>4, <1>7, MoveKeeps DEF Fits

Judging(p) == pc[p] = "verify events" /\ writer = Nobody

\* The log as the verification finds it decides what is said of the bundle.
LEMMA VerdictStands ==
  ASSUME IInv, NEW p \in Process, Judging(p)
  PROVE  IF ~damaged /\ Verified(bundle[p], read[p], log) THEN Whole(p) ELSE Reason(p)
<1>1. /\ FilesTyped /\ LocalTyped /\ Plan(p) /\ Checks(p) /\ Sized /\ Ordered
      /\ Once(bundle[p]) /\ bundle[p].raw <= read[p].raw /\ read[p].raw <= raw
      /\ read[p].aid # bundle[p].aid => aid # bundle[p].aid
  BY DEF IInv, Fits, Checks, Judging
<1>2. /\ bundle[p].count \in Nat /\ bundle[p].start \in Nat /\ bundle[p].raw \in Nat
      /\ read[p].raw \in Nat /\ Len(log) \in Nat /\ raw \in Nat /\ since[p] \in Nat
  BY <1>1, Numeric, LocalNumeric
<1>3. /\ bundle[p].count <= Len(log) /\ bundle[p].start = 2 * bundle[p].count
      /\ bundle[p].start <= bundle[p].raw /\ bundle[p].corrections = Corrections(bundle[p].count)
      /\ since[p] <= Len(log)
  BY <1>1 DEF Once, Plan
<1>4. PICK c \in Nat, s \in Nat, d \in Nat, e \in Nat, n \in Nat, w \in Nat,
           f \in Nat :
        /\ c = bundle[p].count /\ s = bundle[p].start /\ d = bundle[p].raw
        /\ e = read[p].raw /\ n = Len(log) /\ w = raw /\ f = since[p]
  BY <1>2
<1>5. /\ c <= n /\ s = 2 * c /\ s <= d /\ d <= e /\ e <= w
      /\ f <= n
  BY <1>1, <1>3, <1>4
<1>6. (~damaged => w = 2 * n) /\ (damaged => w > 2 * n)
  BY <1>1, <1>4 DEF Sized, Judging
<1>7. CASE ~damaged /\ Verified(bundle[p], read[p], log)
  <2>1. d = e /\ c = n
    BY <1>4, <1>7 DEF Verified
  <2>2. w = 2 * n
    BY <1>6, <1>7
  <2>3. d = 2 * c /\ c >= f
    BY <1>5, <2>2, <2>1
  <2>4. QED
    BY <1>3, <1>4, <1>7, <2>3 DEF Whole
<1>8. CASE damaged
  <2>1. w > 2 * n
    BY <1>6, <1>8
  <2>2. w # s
    BY <1>5, <2>1
  <2>3. QED
    BY <1>4, <1>8, <2>2 DEF Reason
<1>9. CASE ~damaged /\ ~Verified(bundle[p], read[p], log)
  <2>1. SUFFICES ASSUME raw = bundle[p].start, aid = bundle[p].aid, ~disordered PROVE FALSE
    BY <1>9 DEF Reason
  <2>2. bundle[p].aid = read[p].aid
    BY <1>1, <2>1
  <2>3. w = s
    BY <1>4, <2>1
  <2>4. w = 2 * n
    BY <1>6, <1>9
  <2>5. d = e /\ c = n
    BY <1>5, <2>4, <2>3
  <2>6. ValidateExecutionTrace(log)
    <3>1. \A i \in 1..Len(log) : log[i].step = i
      BY <1>1, <2>1 DEF Ordered, StepsInOrder
    <3>2. ASSUME NEW i \in 1..Len(log), NEW j \in 1..Len(log), i < j
          PROVE  log[i].step < log[j].step
      BY <3>1, <3>2
    <3>3. QED
      BY <3>2 DEF ValidateExecutionTrace
  <2>7. QED
    BY <1>3, <1>4, <1>9, <2>2, <2>5, <2>6 DEF Verified
<1>10. QED
  BY <1>7, <1>8, <1>9

LEMMA VerifyEventsKeeps ==
  ASSUME IInv, NEW p \in Process, VerifyEvents(p)
  PROVE  IInv'
<1>1. /\ pc[p] = "verify events" /\ writer = Nobody
      /\ UNCHANGED <<files, call, given, read, bundle, since, disordered, faults>>
      /\ FilesTyped /\ LocalTyped /\ Plan(p) /\ Checks(p)
  BY DEF VerifyEvents, IInv, Fits
<1>2. PICK v \in {"verified", "rejected"} :
        /\ v = (IF ~damaged /\ Verified(bundle[p], read[p], log) THEN "verified" ELSE "rejected")
        /\ verdict' = [verdict EXCEPT ![p] = v] /\ Goto(p, "return")
  BY DEF VerifyEvents, Judge
<1>3. Once(bundle[p])' /\ bundle[p].aid # 0
  BY <1>1 DEF Checks, Once, Corrections, files, Verifying
<1>4. verdict'[p] = v /\ pc'[p] = "return" /\ Moves(p, "return")
  BY <1>1, <1>2 DEF Moves, LocalTyped, Goto, Labels
<1>5. (v = "verified" => Whole(p)') /\ (v = "rejected" => Reason(p)')
  BY <1>1, <1>2, VerdictStands DEF Judging, Whole, Reason, Corrections, files
<1>6. Plan(p)' /\ Gathers(p)'
  BY <1>1, <1>4 DEF Plan, Gathers, Recording, files
<1>7. Checks(p)'
  BY <1>1, <1>3, <1>4, <1>5 DEF Checks
<1>8. QED
  BY <1>1, <1>4, <1>6, <1>7, MoveKeeps DEF Fits

LEMMA ReturnKeeps ==
  ASSUME IInv, NEW p \in Process, Return(p)
  PROVE  IInv'
BY QuietEnd DEF Return

-----------------------------------------------------------------------------
(* The steps that write *)

LEMMA BeginAppendKeeps ==
  ASSUME IInv, NEW p \in Process, BeginAppend(p)
  PROVE  IInv'
<1>1. /\ pc[p] = "append" /\ writer = Nobody /\ writer' = p /\ raw' = raw + 1 /\ Goto(p, "write")
      /\ UNCHANGED <<log, damaged, aid, versions, handoff, local, disordered, faults>>
      /\ FilesTyped /\ LocalTyped /\ Plan(p) /\ Gathers(p) /\ Checks(p) /\ Sized
      /\ Len(log) \in Nat /\ raw \in Nat /\ versions \in Nat /\ p # Nobody
  BY Numeric, NobodyAssumption DEF BeginAppend, IInv, Fits
<1>2. /\ pc'[p] = "write" /\ LocalTyped' /\ FilesTyped'
      /\ \A q \in Process \ {p} : Untouched(q) /\ (writer' = q <=> writer = q)
  <2>1. pc' = [pc EXCEPT ![p] = "write"] /\ UNCHANGED <<call, given, read, bundle, verdict, since>>
    BY <1>1 DEF Goto, local
  <2>2. pc'[p] = "write" /\ LocalTyped' /\ \A q \in Process \ {p} : Untouched(q)
    BY <1>1, <2>1 DEF LocalTyped, Labels, Untouched
  <2>3. raw' \in Nat
    BY <1>1
  <2>4. FilesTyped'
    BY <1>1, <2>3 DEF FilesTyped
  <2>5. \A q \in Process \ {p} : (writer' = q <=> writer = q)
    BY <1>1, NobodyAssumption
  <2>6. QED
    BY <2>2, <2>4, <2>5
<1>3. raw <= raw' /\ raw' \in Nat
  BY <1>1
<1>4. Grows
  BY <1>1, <1>3 DEF Grows
<1>5. Sized'
  <2>1. ~damaged => raw' = 2 * Len(log) + 1
    BY <1>1 DEF Sized
  <2>2. damaged => raw' > 2 * Len(log)
    BY <1>1 DEF Sized
  <2>3. QED
    BY <1>1, <2>1, <2>2 DEF Sized
<1>6. HandoffOnce'
  BY <1>1, <1>2, <1>4, OnceKept DEF IInv, HandoffOnce, Once, Corrections, FilesTyped
<1>7. Ordered'
  BY <1>1, <1>2, OrderKept DEF Recording, local, IInv, Ordered, Numbers, Appends, Plan
<1>8. Once(bundle[p])'
  <2>1. Once(bundle[p])
    BY <1>1 DEF Checks
  <2>2. PICK b \in BundleT : b = bundle[p] /\ b = bundle'[p]
    BY <1>1, LocalNumeric DEF local
  <2>3. Once(b)'
    BY <1>1, <1>2, <1>4, <2>1, <2>2, OnceKept
  <2>4. QED
    BY <2>2, <2>3 DEF Once
<1>9. verdict'[p] = "none"
  BY <1>1 DEF Plan, LocalTyped, local
<1>10. Plan(p)' /\ Gathers(p)' /\ Checks(p)'
  BY <1>1, <1>2, <1>8, <1>9 DEF Plan, Gathers, Checks, Verifying, Recording, local, Appends
<1>11. QED
  BY <1>2, <1>4, <1>5, <1>6, <1>7, <1>10, Assemble DEF Fits

LEMMA EndAppendKeeps ==
  ASSUME IInv, NEW p \in Process, EndAppend(p)
  PROVE  IInv'
<1>1. /\ pc[p] = "write" /\ writer' = Nobody /\ raw' = raw + 1 /\ End(p)
      /\ UNCHANGED <<damaged, aid, versions, handoff, disordered, faults>>
      /\ FilesTyped /\ LocalTyped /\ Plan(p) /\ Sized
      /\ raw \in Nat /\ versions \in Nat /\ p # Nobody /\ writer = p /\ Appends(p)
  BY Numeric, NobodyAssumption DEF EndAppend, IInv, Fits, Plan, Recording
<1>2. PICK e : /\ e = [type |-> call[p], step |-> NextStep(p)]
               /\ log' = IF damaged THEN log ELSE Append(log, e)
  BY DEF EndAppend
<1>3. e \in EventType /\ NextStep(p) \in Nat
  BY <1>1, <1>2, LocalNumeric DEF EventType, Appends, NextStep, LocalTyped
<1>4. PICK n \in Nat : n = Len(log) /\ log \in Seq(EventType)
  BY <1>1, Numeric DEF FilesTyped
<1>6. /\ log' \in Seq(EventType)
      /\ damaged => log' = log
      /\ ~damaged => Len(log') = n + 1 /\ log'[n + 1] = e
      /\ \A i \in 1..n : log'[i] = log[i]
      /\ Len(log) <= Len(log')
  BY <1>2, <1>3, <1>4
<1>7. FilesTyped'
  BY <1>1, <1>6 DEF FilesTyped
<1>8. Grows
  BY <1>1, <1>4, <1>6 DEF Grows
<1>9. Sized'
  <2>1. ~damaged => raw = 2 * n + 1
    BY <1>1, <1>4 DEF Sized
  <2>2. damaged => raw > 2 * n
    BY <1>1, <1>4 DEF Sized
  <2>3. ~damaged => raw' = 2 * Len(log')
    BY <1>1, <1>6, <2>1
  <2>4. damaged => raw' > 2 * Len(log')
    BY <1>1, <1>4, <1>6, <2>2
  <2>5. QED
    BY <1>1, <2>3, <2>4 DEF Sized
<1>10. HandoffOnce'
  BY <1>1, <1>7, <1>8, OnceKept DEF IInv, HandoffOnce, Once, Corrections, FilesTyped
<1>11. \A q \in Process \ {p} : Untouched(q) /\ (writer' = q <=> writer = q)
  BY <1>1, EndUntouched, NobodyAssumption
<1>12. LocalTyped' /\ ~Appends(p)' /\ ~Recording(p)'
  BY <1>1, EndTyped
<1>13. Ordered'
  <2>1. CASE disordered
    BY <1>1, <2>1 DEF Ordered, StepsInOrder, OneRecords, Numbers
  <2>2. CASE ~disordered
    <3>1. ASSUME NEW q \in Process PROVE ~Recording(q)'
      BY <1>1, <1>11, <1>12, <2>2 DEF IInv, Ordered, OneRecords, Recording, Untouched
    <3>2. OneRecords'
      BY <3>1 DEF OneRecords
    <3>3. ASSUME NEW q \in Process PROVE Numbers(q)'
      BY <1>1, <1>11, <1>12, <3>1 DEF IInv, Ordered, Numbers, Untouched, Appends
    <3>4. \A i \in 1..n : log[i].step = i
      BY <1>4, <2>2 DEF IInv, Ordered, StepsInOrder
    <3>5. ~damaged => e.step = n + 1
      BY <1>1, <1>2, <1>4, <2>2 DEF IInv, Ordered, Numbers, Recording, NextStep
    <3>6. StepsInOrder'
      <4>1. CASE damaged
        BY <1>1, <1>4, <1>6, <3>4, <4>1 DEF StepsInOrder
      <4>2. CASE ~damaged
        <5>1. ASSUME NEW i \in 1..n + 1 PROVE log'[i].step = i
          <6>1. i \in 1..n \/ i = n + 1
            BY <1>4
          <6>2. QED
            BY <1>6, <3>4, <3>5, <4>2, <6>1
        <5>2. QED
          BY <1>6, <4>2, <5>1 DEF StepsInOrder
      <4>3. QED
        BY <4>1, <4>2
    <3>7. QED
      BY <3>2, <3>3, <3>6 DEF Ordered
  <2>3. QED
    BY <2>1, <2>2
<1>14. Fits(p)'
  BY <1>1, <1>7, EndFits
<1>15. QED
  BY <1>7, <1>8, <1>9, <1>10, <1>11, <1>12, <1>13, <1>14, Assemble

\* The bundles a step finds, as long as it changes no bundle itself.
LEMMA BundlesKept ==
  ASSUME IInv, Grows, FilesTyped'
  PROVE  /\ UNCHANGED handoff => HandoffOnce'
         /\ \A p \in Process : bundle'[p] = bundle[p] => Once(bundle[p])'
<1>1. FilesTyped /\ LocalTyped /\ HandoffOnce /\ \A p \in Process : Once(bundle[p])
  BY DEF IInv, Fits, Checks
<1>2. UNCHANGED handoff => HandoffOnce'
  BY <1>1, OnceKept DEF HandoffOnce, Once, Corrections, FilesTyped
<1>3. ASSUME NEW p \in Process, bundle'[p] = bundle[p] PROVE Once(bundle[p])'
  <2>1. PICK b \in BundleT : b = bundle[p] /\ b = bundle'[p]
    BY <1>1, <1>3, LocalNumeric
  <2>2. Once(b)'
    BY <1>1, <2>1, OnceKept
  <2>3. QED
    BY <2>1, <2>2 DEF Once
<1>4. QED
  BY <1>2, <1>3

LEMMA OpenAidKeeps ==
  ASSUME IInv, NEW p \in Process, OpenAid(p)
  PROVE  IInv'
<1>1. /\ pc[p] = "open aid" /\ aid' = 0 /\ pc' = [pc EXCEPT ![p] = "write aid"]
      /\ UNCHANGED <<log, raw, damaged, writer, versions, handoff, local, disordered, faults>>
      /\ FilesTyped /\ LocalTyped /\ Plan(p) /\ Gathers(p) /\ Sized
  BY DEF OpenAid, Goto, IInv, Fits
<1>2. /\ pc'[p] = "write aid" /\ LocalTyped' /\ \A q \in Process \ {p} : Untouched(q)
  BY <1>1 DEF LocalTyped, Labels, Untouched, local
<1>3. FilesTyped' /\ Sized'
  <2>1. aid' = 0 /\ versions' = versions /\ versions \in Nat
    BY <1>1, Numeric
  <2>2. aid' \in Nat /\ aid' <= versions'
    BY <2>1
  <2>3. QED
    BY <1>1, <2>2 DEF FilesTyped, Sized
<1>4. Grows
  <2>1. /\ UNCHANGED <<log, raw, versions>>
        /\ Len(log) \in Nat /\ raw \in Nat /\ versions \in Nat
    BY <1>1, Numeric
  <2>2. Len(log) <= Len(log') /\ raw <= raw' /\ versions <= versions'
    BY <2>1
  <2>3. QED
    BY <1>1, <2>2 DEF Grows
<1>5. HandoffOnce' /\ Once(bundle[p])'
  BY <1>1, <1>3, <1>4, BundlesKept DEF local
<1>6. Ordered'
  BY <1>1, <1>2, OrderKept DEF Recording, local, IInv, Ordered, Numbers, Appends, Plan
<1>7. verdict'[p] = "none"
  BY <1>1 DEF Plan, LocalTyped, local
<1>8. Plan(p)' /\ Gathers(p)' /\ Checks(p)'
  BY <1>1, <1>2, <1>5, <1>7 DEF Plan, Gathers, Checks, Verifying, Recording, local
<1>9. QED
  BY <1>1, <1>2, <1>3, <1>4, <1>5, <1>6, <1>8, Assemble DEF Fits

LEMMA WriteAidFileKeeps ==
  ASSUME IInv, NEW p \in Process, WriteAidFile(p)
  PROVE  IInv'
<1>1. /\ pc[p] = "write aid" /\ versions' = versions + 1 /\ aid' \in {0, versions'}
      /\ UNCHANGED <<log, raw, damaged, writer, handoff, disordered, faults>>
      /\ FilesTyped /\ LocalTyped /\ Plan(p) /\ Gathers(p) /\ Sized
  BY DEF WriteAidFile, IInv, Fits
<1>2. /\ versions \in Nat /\ versions' \in Nat /\ versions' # 0 /\ versions < versions'
      /\ aid' \in Nat /\ aid' <= versions' /\ aid' \in {0, versions'}
  <2>1. versions \in Nat /\ versions' = versions + 1 /\ aid' \in {0, versions'}
    BY <1>1, Numeric
  <2>2. QED
    BY <2>1
<1>3. FilesTyped' /\ Sized'
  BY <1>1, <1>2 DEF FilesTyped, Sized
<1>4. Grows
  <2>1. \A n \in Nat : n # 0 /\ n <= versions => aid' # n
    BY <1>2
  <2>2. UNCHANGED <<log, raw>> /\ Len(log) \in Nat /\ raw \in Nat
    BY <1>1, Numeric
  <2>3. Len(log) <= Len(log') /\ raw <= raw' /\ versions <= versions'
    BY <1>2, <2>2
  <2>4. QED
    BY <1>1, <2>1, <2>3 DEF Grows
<1>5. HandoffOnce'
  BY <1>1, <1>3, <1>4, BundlesKept
<1>6. CASE call[p] = "init"
  <2>1. End(p)
    BY <1>6 DEF WriteAidFile
  <2>2. LocalTyped' /\ ~Appends(p)' /\ ~Recording(p)' /\ \A q \in Process \ {p} : Untouched(q)
    BY <2>1, EndTyped, EndUntouched
  <2>3. Ordered'
    BY <1>1, <2>2, OrderKept
  <2>4. Fits(p)'
    BY <1>1, <1>3, <2>1, EndFits DEF Plan
  <2>5. QED
    BY <1>1, <1>3, <1>4, <1>5, <2>2, <2>3, <2>4, Assemble
<1>7. CASE call[p] # "init"
  <2>1. /\ read' = [read EXCEPT ![p] = [read[p] EXCEPT !.aid = versions']]
        /\ pc' = [pc EXCEPT ![p] = "digest"]
        /\ UNCHANGED <<call, given, bundle, verdict, since>> /\ call[p] = "handoff"
    BY <1>1, <1>7 DEF WriteAidFile, Read, Goto, Plan
  <2>2. [read[p] EXCEPT !.aid = versions'] \in ReadType /\ read[p] \in ReadType
    BY <1>1, <1>2, LocalNumeric DEF ReadType
  <2>3. /\ pc'[p] = "digest" /\ read'[p] = [read[p] EXCEPT !.aid = versions']
        /\ LocalTyped' /\ \A q \in Process \ {p} : Untouched(q)
    BY <1>1, <2>1, <2>2 DEF LocalTyped, Labels, Untouched
  <2>4. /\ read'[p].aid = versions' /\ read'[p].count = read[p].count
        /\ read'[p].start = read[p].start
    BY <2>2, <2>3 DEF ReadType
  <2>5. Once(bundle[p])' /\ verdict'[p] = "none"
    BY <1>1, <1>3, <1>4, <2>1, BundlesKept DEF Plan, LocalTyped
  <2>6. Ordered'
    BY <1>1, <2>1, <2>3, OrderKept DEF Recording, Appends
  <2>7. Plan(p)' /\ Checks(p)'
    BY <1>1, <2>1, <2>3, <2>5 DEF Plan, Checks, Verifying, Recording
  <2>8. Gathers(p)'
    <3>1. read'[p].count <= Len(log') /\ read'[p].start = 2 * read'[p].count
      BY <1>1, <2>1, <2>4 DEF Gathers
    <3>2. read'[p].aid # 0 /\ read'[p].aid <= versions'
      BY <1>2, <2>4
    <3>3. QED
      BY <2>3, <3>1, <3>2 DEF Gathers
  <2>9. QED
    BY <1>1, <1>3, <1>4, <1>5, <2>3, <2>6, <2>7, <2>8, Assemble DEF Fits
<1>8. QED
  BY <1>6, <1>7

LEMMA OpenOutputKeeps ==
  ASSUME IInv, NEW p \in Process, OpenOutput(p)
  PROVE  IInv'
<1>1. /\ pc[p] = "open output" /\ handoff' = NoBundle /\ pc' = [pc EXCEPT ![p] = "output"]
      /\ UNCHANGED <<log, raw, damaged, writer, aid, versions, local, disordered, faults>>
      /\ FilesTyped /\ LocalTyped /\ Plan(p) /\ Gathers(p) /\ Sized
  BY DEF OpenOutput, Goto, IInv, Fits
<1>2. /\ pc'[p] = "output" /\ LocalTyped' /\ \A q \in Process \ {p} : Untouched(q)
  BY <1>1 DEF LocalTyped, Labels, Untouched, local
<1>3. FilesTyped' /\ Sized'
  BY <1>1 DEF FilesTyped, Sized, NoBundle, BundleT
<1>4. Grows
  BY <1>1, QuietIsGrowing
<1>5. HandoffOnce' /\ Once(bundle[p])'
  BY <1>1, <1>3, <1>4, BundlesKept, NoBundleOnce DEF local, HandoffOnce, Once, Corrections
<1>6. Ordered'
  BY <1>1, <1>2, OrderKept DEF Recording, local, IInv, Ordered, Numbers, Appends, Plan
<1>7. verdict'[p] = "none"
  BY <1>1 DEF Plan, LocalTyped, local
<1>8. Plan(p)' /\ Gathers(p)' /\ Checks(p)'
  BY <1>1, <1>2, <1>5, <1>7 DEF Plan, Gathers, Checks, Verifying, Recording, local
<1>9. QED
  BY <1>1, <1>2, <1>3, <1>4, <1>5, <1>6, <1>8, Assemble DEF Fits

LEMMA WriteOutputKeeps ==
  ASSUME IInv, NEW p \in Process, WriteOutput(p)
  PROVE  IInv'
<1>1. /\ pc[p] = "output" /\ handoff' \in {BuildHandoffBundle(p), NoBundle} /\ End(p)
      /\ UNCHANGED <<log, raw, damaged, writer, aid, versions, disordered, faults>>
      /\ FilesTyped /\ LocalTyped /\ Plan(p) /\ Gathers(p) /\ Sized /\ call[p] = "handoff"
  BY DEF WriteOutput, IInv, Fits, Plan
<1>2. PICK n \in Nat : n = read[p].count /\ n <= Len(log)
  BY <1>1, LocalNumeric DEF Gathers
<1>3. /\ BuildHandoffBundle(p).count = n /\ BuildHandoffBundle(p).corrections = Corrections(n)
      /\ BuildHandoffBundle(p).aid = read[p].aid /\ BuildHandoffBundle(p).raw = read[p].raw
      /\ BuildHandoffBundle(p).start = read[p].start
  BY <1>2 DEF BuildHandoffBundle
<1>4. Once(BuildHandoffBundle(p)) /\ BuildHandoffBundle(p).aid # 0
  BY <1>1, <1>2, <1>3 DEF Once, Gathers
<1>5. BuildHandoffBundle(p) \in BundleT
  <2>1. Corrections(n) \in SUBSET Nat
    BY <1>2 DEF Corrections
  <2>2. QED
    BY <1>1, <1>2, <2>1, LocalNumeric DEF BuildHandoffBundle, BundleT
<1>6. FilesTyped' /\ Sized'
  BY <1>1, <1>5 DEF FilesTyped, Sized, NoBundle, BundleT
<1>7. Grows
  BY <1>1, QuietIsGrowing
<1>8. HandoffOnce'
  BY <1>1, <1>4, NoBundleOnce DEF HandoffOnce, Once, Corrections
<1>9. LocalTyped' /\ ~Appends(p)' /\ ~Recording(p)' /\ \A q \in Process \ {p} : Untouched(q)
  BY <1>1, EndTyped, EndUntouched
<1>10. Ordered'
  BY <1>1, <1>9, OrderKept
<1>11. Fits(p)'
  BY <1>1, <1>6, EndFits DEF Plan
<1>12. QED
  BY <1>1, <1>6, <1>7, <1>8, <1>9, <1>10, <1>11, Assemble

LEMMA DieKeeps ==
  ASSUME IInv, NEW p \in Process, Die(p)
  PROVE  IInv'
<1>1. /\ writer' = (IF writer = p THEN Nobody ELSE writer) /\ End(p)
      /\ damaged' = (damaged \/ writer = p)
      /\ UNCHANGED <<log, raw, aid, versions, handoff, disordered>>
      /\ FilesTyped /\ Sized /\ p # Nobody
  BY NobodyAssumption DEF Die, IInv
<1>2. FilesTyped' /\ writer' # p
  BY <1>1 DEF FilesTyped
<1>3. Sized'
  <2>1. CASE damaged \/ writer # p
    BY <1>1, <2>1 DEF Sized
  <2>2. CASE ~damaged /\ writer = p
    <3>1. raw = 2 * Len(log) + 1
      BY <1>1, <2>2 DEF Sized
    <3>2. raw > 2 * Len(log)
      BY <1>1, <3>1, Numeric
    <3>3. QED
      BY <1>1, <2>2, <3>2 DEF Sized
  <2>3. QED
    BY <2>1, <2>2
<1>4. Grows
  <2>1. Len(log) <= Len(log') /\ raw <= raw' /\ versions <= versions'
    BY <1>1, Numeric
  <2>2. QED
    BY <1>1, <2>1 DEF Grows
<1>5. HandoffOnce'
  BY <1>1, <1>2, <1>4, BundlesKept
<1>6. LocalTyped' /\ ~Appends(p)' /\ ~Recording(p)' /\ \A q \in Process \ {p} : Untouched(q)
  BY <1>1, EndTyped, EndUntouched
<1>7. Ordered'
  BY <1>1, <1>6, OrderKept
<1>8. Fits(p)'
  BY <1>1, <1>2, EndFits
<1>9. \A q \in Process \ {p} : (writer' = q <=> writer = q)
  BY <1>1, NobodyAssumption
<1>10. QED
  BY <1>2, <1>3, <1>4, <1>5, <1>6, <1>7, <1>8, <1>9, Assemble

-----------------------------------------------------------------------------
(* The theorems *)

LEMMA InitHolds == Init => IInv
<1>1. SUFFICES ASSUME Init PROVE IInv
  OBVIOUS
<1>2. FilesTyped
  <2>1. <<>> \in Seq(EventType) /\ NoBundle \in BundleT
    BY DEF NoBundle, BundleT
  <2>2. QED
    BY <1>1, <2>1 DEF Init, FilesTyped
<1>3. LocalTyped
  BY <1>1 DEF Init, LocalTyped, NothingRead, ReadType, NoBundle, BundleT, Labels
<1>4. Len(log) = 0 /\ raw = 0 /\ aid = 0 /\ versions = 0 /\ damaged = FALSE /\ writer = Nobody
  BY <1>1 DEF Init
<1>5. Sized
  BY <1>4 DEF Sized
<1>6. HandoffOnce
  BY <1>1, <1>2, NoBundleOnce DEF Init, HandoffOnce
<1>7. ASSUME NEW p \in Process
      PROVE  /\ pc[p] = "idle" /\ call[p] = "none" /\ verdict[p] = "none" /\ since[p] = 0
             /\ bundle[p] = NoBundle /\ writer # p
  BY <1>1, NobodyAssumption DEF Init
<1>8. Ordered
  <2>1. StepsInOrder
    BY <1>4 DEF StepsInOrder
  <2>2. \A p \in Process : ~Recording(p) /\ ~Appends(p)
    BY <1>7 DEF Recording, Appends
  <2>3. QED
    BY <2>1, <2>2 DEF Ordered, OneRecords, Numbers
<1>9. ASSUME NEW p \in Process PROVE Fits(p)
  <2>1. Once(bundle[p])
    BY <1>2, <1>7, NoBundleOnce
  <2>2. Plan(p)
    <3>1. since[p] <= Len(log)
      BY <1>4, <1>7
    <3>2. QED
      BY <1>7, <3>1 DEF Plan, Recording
  <2>3. Gathers(p) /\ Checks(p)
    BY <1>7, <2>1 DEF Gathers, Checks, Verifying
  <2>4. QED
    BY <2>2, <2>3 DEF Fits
<1>10. QED
  BY <1>2, <1>3, <1>5, <1>6, <1>8, <1>9 DEF IInv

LEMMA StutterKeeps ==
  ASSUME IInv, UNCHANGED vars
  PROVE  IInv'
<1>1. UNCHANGED <<files, pc, call, given, read, bundle, verdict, since, disordered>>
  BY DEF vars, local
<1>2. FilesTyped' /\ LocalTyped' /\ Sized' /\ HandoffOnce'
  BY <1>1 DEF IInv, files, FilesTyped, LocalTyped, Sized, HandoffOnce, Once, Corrections
<1>3. Ordered'
  BY <1>1 DEF IInv, Ordered, StepsInOrder, OneRecords, Numbers, Recording, Appends, files
<1>4. ASSUME NEW p \in Process PROVE Fits(p)'
  <2>1. Plan(p)' /\ Gathers(p)'
    BY <1>1 DEF IInv, Fits, Plan, Gathers, Recording, Appends, files
  <2>2. Checks(p)'
    BY <1>1 DEF IInv, Fits, Checks, Once, Whole, Reason, Corrections, files
  <2>3. QED
    BY <2>1, <2>2 DEF Fits
<1>5. QED
  BY <1>2, <1>3, <1>4 DEF IInv

LEMMA NextKeeps == IInv /\ [Next]_vars => IInv'
<1>1. SUFFICES ASSUME IInv, [Next]_vars PROVE IInv'
  OBVIOUS
<1>2. CASE UNCHANGED vars
  BY <1>1, <1>2, StutterKeeps
<1>3. ASSUME NEW p \in Process, RunCommand(p) \/ Return(p) \/ Die(p) PROVE IInv'
  BY <1>1, <1>3, RunCommandKeeps, ReturnKeeps, DieKeeps
<1>4. ASSUME NEW p \in Process, CountEvents(p) \/ BeginAppend(p) \/ EndAppend(p) PROVE IInv'
  BY <1>1, <1>4, CountEventsKeeps, BeginAppendKeeps, EndAppendKeeps
<1>5. ASSUME NEW p \in Process, OpenAid(p) \/ WriteAidFile(p) PROVE IInv'
  BY <1>1, <1>5, OpenAidKeeps, WriteAidFileKeeps
<1>6. ASSUME NEW p \in Process,
             LoadEvents(p) \/ ReadAidFile(p) \/ ComputeTraceDigestFromFile(p) PROVE IInv'
  BY <1>1, <1>6, LoadEventsKeeps, ReadAidFileKeeps, DigestKeeps
<1>7. ASSUME NEW p \in Process, OpenOutput(p) \/ WriteOutput(p) PROVE IInv'
  BY <1>1, <1>7, OpenOutputKeeps, WriteOutputKeeps
<1>8. ASSUME NEW p \in Process,
             ReadBundle(p) \/ VerifyAid(p) \/ VerifyDigest(p) \/ VerifyEvents(p) PROVE IInv'
  BY <1>1, <1>8, ReadBundleKeeps, VerifyAidKeeps, VerifyDigestKeeps, VerifyEventsKeeps
<1>9. QED
  BY <1>1, <1>2, <1>3, <1>4, <1>5, <1>6, <1>7, <1>8 DEF Next

\* The invariant holds in every state: the bytes of the log say whether it is whole, a
\* command has read what the files have grown from, and while steps are in order at most
\* one command is between finding its step and recording it.
THEOREM InvariantAlways == Spec => []IInv
<1>1. QED
  BY InitHolds, NextKeeps, PTL DEF Spec

\* However many commands record, steps are numbered like the events as long as none was
\* given and none was found while another was being recorded (vet_main.cc:335-339).
THEOREM StepsAlwaysInOrder == Spec => []StepsInOrder
<1>1. IInv => StepsInOrder
  BY DEF IInv, Ordered
<1>2. QED
  BY <1>1, InvariantAlways, PTL

\* However many commands are under way, and wherever one died, a bundle that was verified
\* has all events and corrections there were, and its digest is of exactly its events
\* (vet_main.cc:735-749).
THEOREM VerifiedAlwaysComplete == Spec => []VerifiedComplete
<1>1. IInv => VerifiedComplete
  BY DEF IInv, Fits, Checks, Whole, VerifiedComplete
<1>2. QED
  BY <1>1, InvariantAlways, PTL

\* A bundle is only ever rejected because the log has grown since its handoff began,
\* because the identity document was replaced, or because the steps are disordered.
THEOREM RejectedAlwaysHasReason == Spec => []RejectedHasReason
<1>1. IInv => RejectedHasReason
  BY DEF IInv, Fits, Checks, Reason, RejectedHasReason
<1>2. QED
  BY <1>1, InvariantAlways, PTL
-----------------------------------------------------------------------------
(* The bounds: there is room for what the commands under way may write *)

Recorders == {p \in Process : Appends(p)}
Identifying(p) ==
  MayWriteAid(p) /\ pc[p] \in {"load", "read aid", "open aid", "write aid"}
Identifiers == {p \in Process : Identifying(p)}

\* Half a record of the one that writes is there already.
LogHasRoom ==
  /\ raw + 2 * Cardinality(Recorders) <= 2 * MaxEvents + 1
  /\ writer = Nobody => raw + 2 * Cardinality(Recorders) <= 2 * MaxEvents
AidsHaveRoom == versions + Cardinality(Identifiers) <= MaxAids

BInv ==
  /\ IInv /\ LogHasRoom /\ AidsHaveRoom
  /\ given \in [Process -> {0} \cup Given] /\ faults \in 0..MaxFaults

LEMMA Counts ==
  /\ IsFiniteSet(Recorders) /\ Cardinality(Recorders) \in Nat
  /\ IsFiniteSet(Identifiers) /\ Cardinality(Identifiers) \in Nat
  /\ IsFiniteSet(Recorders') /\ Cardinality(Recorders') \in Nat
  /\ IsFiniteSet(Identifiers') /\ Cardinality(Identifiers') \in Nat
<1>1. /\ Recorders \in SUBSET Process /\ Identifiers \in SUBSET Process
      /\ Recorders' \in SUBSET Process /\ Identifiers' \in SUBSET Process
  BY DEF Recorders, Identifiers
<1>2. /\ IsFiniteSet(Recorders) /\ IsFiniteSet(Identifiers)
      /\ IsFiniteSet(Recorders') /\ IsFiniteSet(Identifiers')
  BY <1>1, ProcessAssumption, FS_Subset
<1>3. QED
  BY <1>2, FS_CardinalityType

\* The arithmetic of a step that begins nothing: n of c, of which d are left, and a
\* number w of what they write that grows by at most as much as they are fewer.
LEMMA RoomStays ==
  ASSUME NEW w \in Nat, NEW v \in Nat, NEW c \in Nat, NEW d \in Nat, NEW n \in Nat,
         w + c <= n, d <= c, v = w \/ (v = w + 1 /\ d + 1 <= c)
  PROVE  v + d <= n
OBVIOUS

LEMMA AidsKept ==
  ASSUME BInv, Identifiers' \subseteq Identifiers, versions' \in Nat,
         versions' = versions
           \/ (versions' = versions + 1
                 /\ \E p \in Process : p \in Identifiers /\ p \notin Identifiers')
  PROVE  AidsHaveRoom'
<1>1. PICK c \in Nat, d \in Nat : c = Cardinality(Identifiers) /\ d = Cardinality(Identifiers')
  BY Counts
<1>2. versions \in Nat /\ versions + c <= MaxAids /\ MaxAids \in Nat
  BY <1>1, Numeric, BoundsAssumption DEF BInv, IInv, AidsHaveRoom
<1>3. d <= c
  BY <1>1, Counts, FS_Subset
<1>4. ASSUME NEW p \in Process, p \in Identifiers, p \notin Identifiers' PROVE d + 1 <= c
  <2>1. Identifiers' \in SUBSET (Identifiers \ {p})
    BY <1>4
  <2>2. /\ IsFiniteSet(Identifiers \ {p})
        /\ Cardinality(Identifiers \ {p}) = c - 1
    BY <1>1, <1>4, Counts, FS_RemoveElement
  <2>3. d <= c - 1
    BY <1>1, <2>1, <2>2, FS_Subset
  <2>4. QED
    BY <2>3
<1>5. versions' = versions \/ (versions' = versions + 1 /\ d + 1 <= c)
  BY <1>4
<1>6. versions' + d <= MaxAids
  BY <1>2, <1>3, <1>5, RoomStays
<1>7. QED
  BY <1>1, <1>6 DEF AidsHaveRoom

\* A step that writes nothing and begins no command.
LEMMA StillRoom ==
  ASSUME BInv, IInv', Recorders' \subseteq Recorders, Identifiers' \subseteq Identifiers,
         UNCHANGED <<raw, writer, versions, faults>>, given' \in [Process -> {0} \cup Given]
  PROVE  BInv'
<1>1. PICK c \in Nat, d \in Nat : c = Cardinality(Recorders) /\ d = Cardinality(Recorders')
  BY Counts
<1>2. raw \in Nat /\ MaxEvents \in Nat
  BY Numeric, BoundsAssumption DEF BInv, IInv
<1>3. d <= c
  BY <1>1, Counts, FS_Subset
<1>4. raw + 2 * c <= 2 * MaxEvents + 1 /\ (writer = Nobody => raw + 2 * c <= 2 * MaxEvents)
  BY <1>1 DEF BInv, LogHasRoom
<1>5. raw + 2 * d <= 2 * MaxEvents + 1 /\ (writer = Nobody => raw + 2 * d <= 2 * MaxEvents)
  BY <1>2, <1>3, <1>4
<1>6. LogHasRoom'
  BY <1>1, <1>5 DEF LogHasRoom
<1>7. AidsHaveRoom'
  BY AidsKept, Numeric DEF BInv, IInv
<1>8. QED
  BY <1>6, <1>7 DEF BInv

LEMMA EndCounts ==
  ASSUME BInv, NEW p \in Process, End(p)
  PROVE  /\ Recorders' = Recorders \ {p} /\ Identifiers' = Identifiers \ {p}
         /\ given' \in [Process -> {0} \cup Given]
<1>1. \A q \in Process \ {p} : pc'[q] = pc[q] /\ call'[q] = call[q]
  BY EndUntouched DEF BInv, Untouched
<1>2. call'[p] = "none"
  BY EndTyped DEF BInv
<1>3. Recorders' = Recorders \ {p}
  BY <1>1, <1>2 DEF Recorders, Appends
<1>4. Identifiers' = Identifiers \ {p}
  BY <1>1, <1>2 DEF Identifiers, Identifying, MayWriteAid
<1>5. QED
  BY <1>3, <1>4 DEF End, BInv

\* A step of a command to a point where it writes no document any more, or from one
\* where it still does.
LEMMA GoCounts ==
  ASSUME BInv, NEW p \in Process, NEW l, pc' = [pc EXCEPT ![p] = l], UNCHANGED <<call, given>>,
         l \in {"load", "read aid", "open aid", "write aid"} => Identifying(p)
  PROVE  /\ Recorders' = Recorders /\ Identifiers' \subseteq Identifiers
         /\ given' \in [Process -> {0} \cup Given]
<1>1. Recorders' = Recorders
  BY DEF Recorders, Appends
<1>2. ASSUME NEW q \in Process, Identifying(q)' PROVE Identifying(q)
  <2>1. CASE q = p
    <3>1. pc'[p] = l
      BY DEF BInv, IInv, LocalTyped
    <3>2. QED
      BY <1>2, <2>1, <3>1 DEF Identifying
  <2>2. CASE q # p
    <3>1. pc'[q] = pc[q]
      BY <2>2 DEF BInv, IInv, LocalTyped
    <3>2. QED
      BY <1>2, <3>1 DEF Identifying, MayWriteAid
  <2>3. QED
    BY <2>1, <2>2
<1>3. QED
  BY <1>1, <1>2 DEF Identifiers, BInv
\* The arithmetic of a command that begins, and of the two halves of a record.
LEMMA BeginsRecord ==
  ASSUME NEW w \in Nat, NEW c \in Nat, NEW n \in Nat, w + 2 * c + 2 <= 2 * n
  PROVE  w + 2 * (c + 1) <= 2 * n
OBVIOUS

LEMMA HalfMore ==
  ASSUME NEW w \in Nat, NEW c \in Nat, NEW n \in Nat
  PROVE  /\ w + 2 * c <= 2 * n => (w + 1) + 2 * c <= 2 * n + 1
         /\ w + 2 * c <= 2 * n + 1 => (w + 1) + 2 * (c - 1) <= 2 * n
         /\ w + 2 * c <= 2 * n + 1 => w + 2 * (c - 1) <= 2 * n
OBVIOUS

LEMMA RunCommandBound ==
  ASSUME BInv, IInv', NEW p \in Process, RunCommand(p)
  PROVE  BInv'
<1>1. PICK c \in CallsOf[p] :
        /\ Room(c) /\ call' = [call EXCEPT ![p] = c] /\ Goto(p, Begin(c))
        /\ \E n \in {0} \cup {n \in Given : c = "record"} : given' = [given EXCEPT ![p] = n]
  BY DEF RunCommand
<1>2. /\ pc[p] = "idle" /\ UNCHANGED <<files, faults>> /\ c \in Commands
      /\ call[p] = "none" /\ IInv /\ raw \in Nat /\ versions \in Nat
      /\ MaxEvents \in Nat /\ MaxAids \in Nat
  BY CallsAssumption, BoundsAssumption, Numeric DEF RunCommand, BInv, IInv, Fits, Plan
<1>3. given' \in [Process -> {0} \cup Given] /\ faults' \in 0..MaxFaults
  BY <1>1, <1>2 DEF BInv
<1>4. /\ call'[p] = c /\ \A q \in Process \ {p} : call'[q] = call[q] /\ pc'[q] = pc[q]
      /\ pc'[p] = Begin(c)
  BY <1>1, <1>2 DEF IInv, LocalTyped, Goto
<1>5. UNCHANGED <<raw, writer, versions>>
  BY <1>2 DEF files
<1>6. PICK k \in Nat, i \in Nat : k = Cardinality(Recorders) /\ i = Cardinality(Identifiers)
  BY Counts
<1>7. p \notin Recorders /\ p \notin Identifiers
  BY <1>2 DEF Recorders, Appends, Identifiers, Identifying, MayWriteAid
<1>8. CASE c \in {"record", "correction"}
  <2>1. Recorders' = Recorders \cup {p}
    BY <1>4, <1>8 DEF Recorders, Appends
  <2>2. Identifiers' = Identifiers
    BY <1>2, <1>4, <1>8 DEF Identifiers, Identifying, MayWriteAid
  <2>3. Cardinality(Recorders') = k + 1
    BY <1>6, <1>7, <2>1, Counts, FS_AddElement
  <2>4. raw + 2 * k + 2 <= 2 * MaxEvents
    <3>1. Room(c) <=> raw + 2 * Cardinality({q \in Process : Appends(q)}) + 2 <= 2 * MaxEvents
      BY <1>8 DEF Room
    <3>2. QED
      BY <1>1, <1>6, <3>1 DEF Recorders
  <2>5. raw + 2 * (k + 1) <= 2 * MaxEvents
    BY <1>2, <2>4, BeginsRecord
  <2>6. raw' + 2 * (k + 1) <= 2 * MaxEvents /\ raw' + 2 * (k + 1) <= 2 * MaxEvents + 1
    BY <1>2, <1>5, <2>5
  <2>7. LogHasRoom'
    BY <2>3, <2>6 DEF LogHasRoom
  <2>8. AidsHaveRoom'
    BY <1>5, <2>2 DEF BInv, AidsHaveRoom
  <2>9. QED
    BY <1>3, <2>7, <2>8 DEF BInv
<1>9. CASE c \in {"init", "handoff"}
  <2>1. Recorders' = Recorders
    BY <1>2, <1>4, <1>9 DEF Recorders, Appends
  <2>2. Identifiers' = Identifiers \cup {p}
    BY <1>4, <1>9 DEF Identifiers, Identifying, MayWriteAid, Begin
  <2>3. Cardinality(Identifiers') = i + 1
    BY <1>6, <1>7, <2>2, Counts, FS_AddElement
  <2>4. versions + i < MaxAids
    <3>1. DEFINE W == {q \in Process : MayWriteAid(q)}
    <3>2. Room(c) <=> versions + Cardinality(W) < MaxAids
      BY <1>9 DEF Room
    <3>3. IsFiniteSet(W) /\ Cardinality(W) \in Nat
      BY ProcessAssumption, FS_Subset, FS_CardinalityType
    <3>4. Identifiers \in SUBSET W
      BY DEF Identifiers, Identifying
    <3>5. i <= Cardinality(W)
      BY <1>6, <3>3, <3>4, FS_Subset
    <3>6. PICK w \in Nat : w = Cardinality(W)
      BY <3>3
    <3>7. versions + w < MaxAids /\ i <= w
      BY <1>1, <3>2, <3>5, <3>6
    <3>8. QED
      BY <1>2, <3>7
  <2>5. versions' + (i + 1) <= MaxAids
    BY <1>2, <1>5, <2>4
  <2>6. LogHasRoom'
    BY <1>5, <2>1 DEF BInv, LogHasRoom
  <2>7. QED
    BY <1>3, <2>3, <2>5, <2>6 DEF BInv, AidsHaveRoom
<1>10. CASE c = "verify"
  <2>1. Recorders' = Recorders /\ Identifiers' = Identifiers
    BY <1>2, <1>4, <1>10 DEF Recorders, Appends, Identifiers, Identifying, MayWriteAid
  <2>2. QED
    BY <1>3, <1>5, <2>1 DEF BInv, LogHasRoom, AidsHaveRoom
<1>11. QED
  BY <1>2, <1>8, <1>9, <1>10 DEF Commands

LEMMA BeginAppendBound ==
  ASSUME BInv, IInv', NEW p \in Process, BeginAppend(p)
  PROVE  BInv'
<1>1. /\ pc[p] = "append" /\ writer = Nobody /\ writer' = p /\ raw' = raw + 1
      /\ pc' = [pc EXCEPT ![p] = "write"] /\ UNCHANGED <<versions, call, given, faults>>
      /\ raw \in Nat /\ MaxEvents \in Nat /\ p # Nobody
  BY Numeric, BoundsAssumption, NobodyAssumption DEF BeginAppend, Goto, local, BInv, IInv
<1>2. Recorders' = Recorders /\ Identifiers' \subseteq Identifiers
      /\ given' \in [Process -> {0} \cup Given]
  BY <1>1, GoCounts
<1>3. PICK c \in Nat : c = Cardinality(Recorders)
  BY Counts
<1>4. raw + 2 * c <= 2 * MaxEvents
  BY <1>1, <1>3 DEF BInv, LogHasRoom
<1>5. raw' + 2 * c <= 2 * MaxEvents + 1
  BY <1>1, <1>4, HalfMore
<1>6. LogHasRoom'
  BY <1>1, <1>2, <1>3, <1>5 DEF LogHasRoom
<1>7. AidsHaveRoom'
  BY <1>1, <1>2, AidsKept, Numeric DEF BInv, IInv
<1>8. QED
  BY <1>1, <1>2, <1>6, <1>7 DEF BInv

\* A process that ends, and with it the record it was writing, if it was.
LEMMA WriterGone ==
  ASSUME BInv, IInv', NEW p \in Process, End(p), writer = p, writer' = Nobody,
         raw' = raw + 1 \/ raw' = raw, UNCHANGED versions, faults' \in 0..MaxFaults
  PROVE  BInv'
<1>1. raw \in Nat /\ MaxEvents \in Nat /\ versions \in Nat /\ Appends(p)
  BY Numeric, BoundsAssumption DEF BInv, IInv, Fits, Plan, Recording
<1>2. Recorders' = Recorders \ {p} /\ Identifiers' \subseteq Identifiers
      /\ given' \in [Process -> {0} \cup Given]
  BY EndCounts
<1>3. PICK c \in Nat : c = Cardinality(Recorders)
  BY Counts
<1>4. p \in Recorders
  BY <1>1 DEF Recorders
<1>5. Cardinality(Recorders') = c - 1
  BY <1>2, <1>3, <1>4, Counts, FS_RemoveElement
<1>6. raw + 2 * c <= 2 * MaxEvents + 1
  BY <1>3 DEF BInv, LogHasRoom
<1>7. raw' + 2 * (c - 1) <= 2 * MaxEvents
  BY <1>1, <1>6, HalfMore
<1>8. raw' \in Nat
  BY <1>1
<1>9. raw' + 2 * (c - 1) <= 2 * MaxEvents + 1
  <2>1. \A w \in Nat, n \in Nat : w + 2 * (c - 1) <= 2 * n => w + 2 * (c - 1) <= 2 * n + 1
    OBVIOUS
  <2>2. QED
    BY <1>1, <1>7, <1>8, <2>1
<1>10. LogHasRoom'
  BY <1>5, <1>7, <1>9 DEF LogHasRoom
<1>11. AidsHaveRoom'
  BY <1>1, <1>2, AidsKept
<1>12. QED
  BY <1>2, <1>10, <1>11 DEF BInv

LEMMA EndAppendBound ==
  ASSUME BInv, IInv', NEW p \in Process, EndAppend(p)
  PROVE  BInv'
<1>1. writer = p
  BY DEF EndAppend, BInv, IInv, Fits, Plan
<1>2. QED
  BY <1>1, WriterGone DEF EndAppend, BInv

LEMMA WriteAidFileBound ==
  ASSUME BInv, IInv', NEW p \in Process, WriteAidFile(p)
  PROVE  BInv'
<1>1. /\ pc[p] = "write aid" /\ versions' = versions + 1
      /\ UNCHANGED <<raw, writer, faults>> /\ versions \in Nat
      /\ call[p] \in {"init", "handoff"}
  BY Numeric DEF WriteAidFile, BInv, IInv, Fits, Plan
<1>2. p \in Identifiers
  BY <1>1 DEF Identifiers, Identifying, MayWriteAid
<1>3. /\ Recorders' = Recorders /\ Identifiers' \subseteq Identifiers /\ p \notin Identifiers'
      /\ given' \in [Process -> {0} \cup Given]
  <2>1. CASE call[p] = "init"
    <3>1. End(p)
      BY <2>1 DEF WriteAidFile
    <3>2. p \notin Recorders
      BY <2>1 DEF Recorders, Appends
    <3>3. QED
      BY <3>1, <3>2, EndCounts
  <2>2. CASE call[p] # "init"
    <3>1. pc' = [pc EXCEPT ![p] = "digest"] /\ UNCHANGED <<call, given>>
      BY <2>2 DEF WriteAidFile, Goto
    <3>2. pc'[p] = "digest"
      BY <3>1 DEF BInv, IInv, LocalTyped
    <3>3. p \notin Identifiers'
      BY <3>2 DEF Identifiers, Identifying
    <3>4. QED
      BY <3>1, <3>3, GoCounts
  <2>3. QED
    BY <2>1, <2>2
<1>4. AidsHaveRoom'
  <2>1. versions' \in Nat
    BY Numeric DEF BInv, IInv, FilesTyped
  <2>2. QED
    BY <1>1, <1>2, <1>3, <2>1, AidsKept
<1>5. LogHasRoom'
  BY <1>1, <1>3 DEF BInv, LogHasRoom
<1>6. QED
  BY <1>1, <1>3, <1>4, <1>5 DEF BInv

LEMMA DieBound ==
  ASSUME BInv, IInv', NEW p \in Process, Die(p)
  PROVE  BInv'
<1>1. /\ End(p) /\ UNCHANGED <<raw, versions>>
      /\ writer' = (IF writer = p THEN Nobody ELSE writer)
  BY DEF Die
<1>2. faults' \in 0..MaxFaults
  <2>1. faults \in 0..MaxFaults /\ faults < MaxFaults /\ faults' = faults + 1
    BY DEF Die, BInv
  <2>2. QED
    BY <2>1, BoundsAssumption
<1>3. CASE writer = p
  BY <1>1, <1>2, <1>3, WriterGone
<1>4. CASE writer # p
  <2>1. PICK c \in Nat, d \in Nat : c = Cardinality(Recorders) /\ d = Cardinality(Recorders')
    BY Counts
  <2>2. /\ Recorders' \subseteq Recorders /\ Identifiers' \subseteq Identifiers
        /\ given' \in [Process -> {0} \cup Given]
    BY <1>1, EndCounts
  <2>3. d <= c
    BY <2>1, <2>2, Counts, FS_Subset
  <2>4. raw \in Nat /\ MaxEvents \in Nat /\ versions \in Nat /\ writer' = writer
    BY <1>1, <1>4, Numeric, BoundsAssumption DEF BInv, IInv
  <2>5. raw + 2 * c <= 2 * MaxEvents + 1 /\ (writer = Nobody => raw + 2 * c <= 2 * MaxEvents)
    BY <2>1 DEF BInv, LogHasRoom
  <2>6. raw + 2 * d <= 2 * MaxEvents + 1 /\ (writer = Nobody => raw + 2 * d <= 2 * MaxEvents)
    BY <2>3, <2>4, <2>5
  <2>7. LogHasRoom'
    BY <1>1, <2>1, <2>4, <2>6 DEF LogHasRoom
  <2>8. AidsHaveRoom'
    BY <1>1, <2>2, <2>4, AidsKept
  <2>9. QED
    BY <1>2, <2>2, <2>7, <2>8 DEF BInv
<1>5. QED
  BY <1>3, <1>4

\* A step that ends a command, or that goes on with it, and neither writes the log nor a
\* document.
Passes(p) ==
  /\ UNCHANGED <<raw, writer, versions, faults>>
  /\ \/ End(p)
     \/ /\ UNCHANGED <<call, given>>
        /\ \E l \in Labels :
             /\ pc' = [pc EXCEPT ![p] = l]
             /\ l \in {"load", "read aid", "open aid", "write aid"} => Identifying(p)

LEMMA PassesBound ==
  ASSUME BInv, IInv', NEW p \in Process, Passes(p)
  PROVE  BInv'
<1>1. CASE End(p)
  BY <1>1, EndCounts, StillRoom DEF Passes
<1>2. CASE ~End(p)
  BY <1>2, GoCounts, StillRoom DEF Passes
<1>3. QED
  BY <1>1, <1>2

LEMMA NextBound == BInv /\ [Next]_vars => BInv'
<1>1. SUFFICES ASSUME BInv, [Next]_vars PROVE BInv'
  OBVIOUS
<1>2. IInv'
  BY <1>1, NextKeeps DEF BInv
<1>3. CASE UNCHANGED vars
  BY <1>1, <1>2, <1>3 DEF vars, files, local, BInv, LogHasRoom, AidsHaveRoom, Recorders, Appends,
     Identifiers, Identifying, MayWriteAid
<1>4. ASSUME NEW p \in Process, RunCommand(p) \/ Die(p) \/ WriteAidFile(p) PROVE BInv'
  BY <1>1, <1>2, <1>4, RunCommandBound, DieBound, WriteAidFileBound
<1>5. ASSUME NEW p \in Process, BeginAppend(p) \/ EndAppend(p) PROVE BInv'
  BY <1>1, <1>2, <1>5, BeginAppendBound, EndAppendBound
<1>6. ASSUME NEW p \in Process, Return(p) \/ CountEvents(p) \/ OpenOutput(p) \/ WriteOutput(p)
      PROVE  Passes(p)
  BY <1>6 DEF Return, CountEvents, OpenOutput, WriteOutput, Goto, Passes, files, local, Labels
<1>7. ASSUME NEW p \in Process, OpenAid(p) \/ LoadEvents(p) \/ ReadAidFile(p)
      PROVE  Passes(p)
  <2>1. pc[p] = "open aid" \/ pc[p] = "read aid" => MayWriteAid(p)
    BY <1>1 DEF BInv, IInv, Fits, Plan, MayWriteAid
  <2>2. QED
    BY <1>7, <2>1 DEF OpenAid, LoadEvents, ReadAidFile, Goto, Passes, Identifying, MayWriteAid, files,
       local, Labels
<1>8. ASSUME NEW p \in Process, ComputeTraceDigestFromFile(p) \/ ReadBundle(p) \/ VerifyAid(p)
      PROVE  Passes(p)
  BY <1>8 DEF ComputeTraceDigestFromFile, ReadBundle, VerifyAid, Judge, Goto, Passes, files, Labels
<1>9. ASSUME NEW p \in Process, VerifyDigest(p) \/ VerifyEvents(p)
      PROVE  Passes(p)
  BY <1>9 DEF VerifyDigest, VerifyEvents, Judge, Goto, Passes, files, Labels
<1>10. QED
  BY <1>1, <1>2, <1>3, <1>4, <1>5, <1>6, <1>7, <1>8, <1>9, PassesBound DEF Next

LEMMA InitBound == Init => BInv
<1>1. SUFFICES ASSUME Init PROVE BInv
  OBVIOUS
<1>2. Recorders = {} /\ Identifiers = {}
  BY <1>1 DEF Init, Recorders, Appends, Identifiers, Identifying
<1>3. Cardinality(Recorders) = 0 /\ Cardinality(Identifiers) = 0
  BY <1>2, FS_EmptySet
<1>4. raw = 0 /\ versions = 0 /\ faults = 0 /\ given = [p \in Process |-> 0]
  BY <1>1 DEF Init
<1>5. LogHasRoom /\ AidsHaveRoom /\ faults \in 0..MaxFaults
  BY <1>3, <1>4, BoundsAssumption DEF LogHasRoom, AidsHaveRoom
<1>6. QED
  BY <1>1, <1>4, <1>5, InitHolds DEF BInv

\* What fits in the file has at most so many events.
LEMMA EventsFit ==
  ASSUME NEW w \in Nat, NEW c \in Nat, NEW n \in Nat, NEW k \in Nat,
         2 * k <= w, w + 2 * c <= 2 * n + 1
  PROVE  k <= n
OBVIOUS

LEMMA BundleFits ==
  ASSUME BInv, NEW b \in BundleT, Once(b)
  PROVE  b \in BundleType
<1>1. PICK c \in Nat : c = Cardinality(Recorders)
  BY Counts
<1>2. PICK k \in Nat, m \in Nat : k = Len(log) /\ m = b.count
  BY Numeric DEF BundleT, BInv, IInv
<1>3. raw \in Nat /\ MaxEvents \in Nat /\ m <= k /\ b.corrections = Corrections(m)
  BY <1>2, Numeric, BoundsAssumption DEF BInv, IInv, Once
<1>4. 2 * k <= raw
  BY <1>2, <1>3 DEF BInv, IInv, Sized
<1>5. raw + 2 * c <= 2 * MaxEvents + 1
  BY <1>1 DEF BInv, LogHasRoom
<1>6. k <= MaxEvents
  BY <1>3, <1>4, <1>5, EventsFit
<1>7. 1..m \subseteq 1..MaxEvents
  BY <1>3, <1>6
<1>8. b.corrections \subseteq 1..MaxEvents
  BY <1>3, <1>7 DEF Corrections
<1>9. QED
  BY <1>8 DEF BundleT, BundleType

\* Every variable of the vet commands has its type, for any number of commands under way:
\* a command begins when there is room for what those before it may still write.
THEOREM TypeCorrect == Spec => []TypeOK
<1>1. BInv => TypeOK
  <2>1. SUFFICES ASSUME BInv PROVE TypeOK
    OBVIOUS
  <2>2. aid \in 0..MaxAids /\ versions \in 0..MaxAids
    <3>1. PICK c \in Nat : c = Cardinality(Identifiers)
      BY Counts
    <3>2. /\ versions + c <= MaxAids /\ versions \in Nat /\ aid \in Nat /\ MaxAids \in Nat
          /\ aid <= versions
      BY <2>1, <3>1, Numeric, BoundsAssumption DEF BInv, IInv, AidsHaveRoom, Sized
    <3>3. QED
      BY <3>2
  <2>3. handoff \in BundleType
    BY <2>1, BundleFits DEF BInv, IInv, HandoffOnce, FilesTyped
  <2>4. ASSUME NEW p \in Process PROVE bundle[p] \in BundleType
    BY <2>1, BundleFits DEF BInv, IInv, LocalTyped, Fits, Checks
  <2>5. bundle \in [Process -> BundleType]
    BY <2>1, <2>4 DEF BInv, IInv, LocalTyped
  <2>6. \A p \in Process : pc[p] = "write" <=> writer = p
    BY <2>1 DEF BInv, IInv, Fits, Plan
  <2>7. QED
    BY <2>1, <2>2, <2>3, <2>5, <2>6 DEF BInv, IInv, FilesTyped, LocalTyped, TypeOK
<1>2. QED
  BY <1>1, InitBound, NextBound, PTL DEF Spec
=============================================================================
