------------------------ MODULE SessionContextsProofs ------------------------
(***************************************************************************)
(* For any number of sessions and tokens: what a session's handler holds   *)
(* is in one place, and sessions that share an executor, and tokens, are   *)
(* private, as long as no input begins with what was cut and no reset      *)
(* empties what a clone shares.                                            *)
(***************************************************************************)
EXTENDS SessionContexts, FiniteSetTheorems, SequenceTheorems, TLAPS

-----------------------------------------------------------------------------
(* Sequences *)

LEMMA Prefix ==
  ASSUME NEW s \in Seq(Token), NEW n \in Nat, n <= Len(s)
  PROVE  /\ SubSeq(s, 1, n) \in Seq(Token) /\ Len(SubSeq(s, 1, n)) = n
         /\ \A i \in 1..n : SubSeq(s, 1, n)[i] = s[i]
<1>1. \A i \in 1..n : s[i] \in Token
  BY ElementOfSeq
<1>2. /\ SubSeq(s, 1, n) \in Seq(Token)
      /\ Len(SubSeq(s, 1, n)) = IF 1 <= n THEN n - 1 + 1 ELSE 0
      /\ \A i \in 1..n - 1 + 1 : SubSeq(s, 1, n)[i] = s[1 + i - 1]
  BY <1>1, SubSeqProperties
<1>3. QED
  BY <1>2

\* What is common to two sequences has the same prefixes.
LEMMA SamePrefix ==
  ASSUME NEW s \in Seq(Token), NEW t \in Seq(Token), NEW n \in Nat, n <= Len(s), n <= Len(t),
         \A i \in 1..n : s[i] = t[i]
  PROVE  SubSeq(s, 1, n) = SubSeq(t, 1, n)
<1>1. /\ SubSeq(s, 1, n) \in Seq(Token) /\ Len(SubSeq(s, 1, n)) = n
      /\ \A i \in 1..n : SubSeq(s, 1, n)[i] = s[i]
  BY Prefix
<1>2. /\ SubSeq(t, 1, n) \in Seq(Token) /\ Len(SubSeq(t, 1, n)) = n
      /\ \A i \in 1..n : SubSeq(t, 1, n)[i] = t[i]
  BY Prefix
<1>3. QED
  BY <1>1, <1>2, SeqEqual

LEMMA PrefixOfPrefix ==
  ASSUME NEW s \in Seq(Token), NEW m \in Nat, m <= Len(s), NEW n \in Nat, n <= m
  PROVE  SubSeq(SubSeq(s, 1, m), 1, n) = SubSeq(s, 1, n)
<1>1. /\ SubSeq(s, 1, m) \in Seq(Token) /\ Len(SubSeq(s, 1, m)) = m
      /\ \A i \in 1..m : SubSeq(s, 1, m)[i] = s[i]
  BY Prefix
<1>2. Len(s) \in Nat
  OBVIOUS
<1>3. n <= Len(s) /\ \A i \in 1..n : SubSeq(s, 1, m)[i] = s[i]
  BY <1>1, <1>2
<1>4. QED
  BY <1>1, <1>3, SamePrefix

\* Tokens behind a prefix leave shorter prefixes what they were.
LEMMA ExtendedPrefix ==
  ASSUME NEW s \in Seq(Token), NEW m \in Nat, m <= Len(s), NEW ids \in Seq(Token)
  PROVE  LET t == SubSeq(s, 1, m) \o ids
         IN  /\ t \in Seq(Token) /\ Len(t) = m + Len(ids) /\ SubSeq(t, 1, m + Len(ids)) = t
             /\ \A n \in Nat : n <= m => n <= Len(t) /\ SubSeq(t, 1, n) = SubSeq(s, 1, n)
<1> DEFINE t == SubSeq(s, 1, m) \o ids
<1>1. /\ SubSeq(s, 1, m) \in Seq(Token) /\ Len(SubSeq(s, 1, m)) = m
      /\ \A i \in 1..m : SubSeq(s, 1, m)[i] = s[i]
  BY Prefix
<1>2. /\ t \in Seq(Token) /\ Len(t) = m + Len(ids)
      /\ \A i \in 1..m + Len(ids) : t[i] = IF i <= m THEN SubSeq(s, 1, m)[i] ELSE ids[i - m]
  BY <1>1, ConcatProperties
<1>3. SubSeq(t, 1, m + Len(ids)) = t
  BY <1>2, SubSeqFull
<1>4. ASSUME NEW n \in Nat, n <= m PROVE n <= Len(t) /\ SubSeq(t, 1, n) = SubSeq(s, 1, n)
  <2>1. Len(ids) \in Nat /\ Len(s) \in Nat
    OBVIOUS
  <2>2. n <= Len(t) /\ n <= Len(s)
    BY <1>2, <1>4, <2>1
  <2>3. ASSUME NEW i \in 1..n PROVE t[i] = s[i]
    <3>1. i \in 1..m /\ i \in 1..m + Len(ids) /\ i <= m
      BY <1>4, <2>1
    <3>2. QED
      BY <1>1, <1>2, <3>1
  <2>4. QED
    BY <1>2, <2>2, <2>3, SamePrefix
<1> HIDE DEF t
<1>5. QED
  BY <1>2, <1>3, <1>4 DEF t

-----------------------------------------------------------------------------
(* The invariant *)

ExecutorType == [tokens : Seq(Token), step : Nat]

\* Where the tokens of a handler's context are, and the step in them.
Held(h) ==
  IF current_handler_ # Nobody /\ context[h] = context[current_handler_] THEN executor.tokens
  ELSE saved_tokens[context[h]]
StepOf(h) == IF h = current_handler_ THEN executor.step ELSE saved_step[h]

Good(h) == StepOf(h) <= Len(Held(h)) /\ SubSeq(Held(h), 1, StepOf(h)) = said[h]

\* The clone under way is of a session that is there, for one that is not; the step it
\* has read still leads to the tokens that its source had then.
CloneGood ==
  \A g, c \in Handler, n \in Nat \cup {Nothing} :
    cloning = <<g, c, n>> =>
      /\ g \in live /\ c \notin Handlers
      /\ n # Nothing => n <= Len(Held(g)) /\ SubSeq(Held(g), 1, n) = copied

IInv == TypeOK /\ HeldOnce /\ CloneGood /\ \A h \in live : Good(h)

\* It stays so as long as its source has the tokens it has.
LEMMA CloneStays ==
  ASSUME CloneGood, UNCHANGED <<cloning, copied>>,
         \A g, c \in Handler, n \in Nat \cup {Nothing} :
           cloning = <<g, c, n>> /\ g \in live /\ c \notin Handlers =>
             g \in live' /\ c \notin Handlers' /\ Held(g)' = Held(g)
  PROVE  CloneGood'
BY DEF CloneGood

\* There is a context nobody has.
LEMMA FreshIsFree ==
  ASSUME TypeOK
  PROVE  Fresh \in Context /\ \A h \in Handlers : context[h] # Fresh
<1>1. \E c \in Context : \A h \in Handlers : context[h] # c
  <2>1. SUFFICES ASSUME \A c \in Context : \E h \in Handlers : context[h] = c PROVE FALSE
    OBVIOUS
  <2>2. Handlers \subseteq Handler
    BY DEF Handlers, TypeOK
  <2>3. PICK f \in [Context -> Handler] : \A c \in Context : context[f[c]] = c
    <3>1. [c \in Context |-> CHOOSE h \in Handler : context[h] = c] \in [Context -> Handler]
      BY <2>1, <2>2
    <3>2. QED
      BY <2>1, <2>2, <3>1
  <2>4. Cardinality(Handler) \in Nat
    BY HandlerAssumption, FS_CardinalityType
  <2>5. IsFiniteSet(Context) /\ Cardinality(Handler) < Cardinality(Context)
    <3>1. PICK n \in Nat : n = Cardinality(Handler)
      BY <2>4
    <3>2. IsFiniteSet(1..(n + 1)) /\ Cardinality(1..(n + 1)) = n + 1
      BY FS_Interval
    <3>3. QED
      BY <3>1, <3>2 DEF Context
  <2>6. PICK c, d \in Context : c # d /\ f[c] = f[d]
    BY <2>5, HandlerAssumption, FS_PigeonHole
  <2>7. QED
    BY <2>3, <2>6
<1>2. QED
  BY <1>1 DEF Fresh

LEMMA Typed ==
  ASSUME TypeOK
  PROVE  /\ executor.tokens \in Seq(Token) /\ executor.step \in Nat
         /\ \A h \in Handler : context[h] \in Context /\ said[h] \in Seq(Token)
         /\ Handlers \subseteq Handler /\ live \subseteq Handlers
         /\ Nobody \notin Handlers /\ Nothing \notin Nat /\ Nothing \notin Seq(Token)
BY NobodyAssumption, NothingAssumption DEF TypeOK, Handlers

\* A live handler's tokens and step are where Held and StepOf say.
LEMMA HeldTyped ==
  ASSUME IInv, NEW h \in live
  PROVE  Held(h) \in Seq(Token) /\ StepOf(h) \in Nat
<1>1. h \in Handlers /\ h \in Handler
  BY Typed DEF IInv
<1>2. saved_step[h] \in Nat \cup {Nothing} /\ saved_tokens[context[h]] \in Seq(Token) \cup {Nothing}
  BY <1>1, Typed DEF IInv, TypeOK
<1>3. QED
  BY <1>1, <1>2, Typed DEF IInv, HeldOnce, Held, StepOf

-----------------------------------------------------------------------------
(* Loading a handler *)

\* Where the tokens of g's context are when h is loaded as a says.
TokensIn(h, a, g) == IF context[g] = context[h] THEN a.executor.tokens ELSE a.tokens[context[g]]

Loaded(h, a) ==
  /\ a.executor \in ExecutorType
  /\ a.step \in [Handler -> Nat \cup {Nothing}]
  /\ a.tokens \in [Context -> Seq(Token) \cup {Nothing}]
  /\ a.step[h] = Nothing /\ a.tokens[context[h]] = Nothing
  /\ \A g \in live \ {h} : a.step[g] # Nothing
  /\ \A g \in live : context[g] # context[h] => a.tokens[context[g]] # Nothing
  /\ a.executor.step <= Len(a.executor.tokens)
  /\ SubSeq(a.executor.tokens, 1, a.executor.step) = said[h]
  /\ \A g \in live \ {h} :
       /\ a.step[g] <= Len(TokensIn(h, a, g))
       /\ SubSeq(TokensIn(h, a, g), 1, a.step[g]) = said[g]
  /\ \A g \in live : TokensIn(h, a, g) = Held(g)

\* It is enough that nobody's tokens and step are changed.
LEMMA LoadedIfHeld ==
  ASSUME IInv, NEW h \in live, NEW a,
         a.executor \in ExecutorType, a.step \in [Handler -> Nat \cup {Nothing}],
         a.tokens \in [Context -> Seq(Token) \cup {Nothing}],
         a.step[h] = Nothing, a.tokens[context[h]] = Nothing,
         a.executor.tokens = Held(h), a.executor.step = StepOf(h),
         \A g \in live \ {h} : a.step[g] = StepOf(g) /\ TokensIn(h, a, g) = Held(g)
  PROVE  Loaded(h, a)
<1>1. \A g \in live : Good(g) /\ Held(g) \in Seq(Token) /\ StepOf(g) \in Nat
  BY HeldTyped DEF IInv
<1>2. Nothing \notin Nat /\ Nothing \notin Seq(Token)
  BY NothingAssumption
<1>3. \A g \in live \ {h} : a.step[g] # Nothing
  BY <1>1, <1>2
<1>4. \A g \in live : context[g] # context[h] => a.tokens[context[g]] # Nothing
  BY <1>1, <1>2 DEF TokensIn
<1>5. a.executor.step <= Len(a.executor.tokens)
      /\ SubSeq(a.executor.tokens, 1, a.executor.step) = said[h]
  BY <1>1 DEF Good
<1>6. \A g \in live \ {h} :
        /\ a.step[g] <= Len(TokensIn(h, a, g))
        /\ SubSeq(TokensIn(h, a, g), 1, a.step[g]) = said[g]
  BY <1>1 DEF Good
<1>7. \A g \in live : TokensIn(h, a, g) = Held(g)
  BY DEF TokensIn
<1>8. QED
  BY <1>3, <1>4, <1>5, <1>6, <1>7 DEF Loaded

LEMMA AcquiredLoads ==
  ASSUME IInv, NEW h \in live
  PROVE  Loaded(h, Acquired(h))
<1> DEFINE old == current_handler_
           a == Acquired(h)
<1>1. /\ h \in Handler /\ h \in Handlers /\ Nobody \notin Handlers /\ live \subseteq Handlers
      /\ Handlers \subseteq Handler /\ context \in [Handler -> Context]
      /\ executor \in ExecutorType /\ executor.tokens \in Seq(Token) /\ executor.step \in Nat
      /\ saved_step \in [Handler -> Nat \cup {Nothing}]
      /\ saved_tokens \in [Context -> Seq(Token) \cup {Nothing}]
  BY Typed DEF IInv, TypeOK, ExecutorType
<1>2. Held(h) \in Seq(Token) /\ StepOf(h) \in Nat
  BY HeldTyped
<1>3. \A g \in Handlers :
        /\ (saved_step[g] = Nothing) <=> (g = old)
        /\ (saved_tokens[context[g]] = Nothing) <=> (old # Nobody /\ context[g] = context[old])
  BY DEF IInv, HeldOnce
<1>4. CASE h = old
  <2>1. a = [executor |-> executor, step |-> saved_step, tokens |-> saved_tokens]
    BY <1>4 DEF Acquired
  <2>2. a.executor = executor /\ a.step = saved_step /\ a.tokens = saved_tokens
    BY <2>1
  <2>3. a.step[h] = Nothing /\ a.tokens[context[h]] = Nothing
    BY <1>1, <1>3, <1>4, <2>2
  <2>4. a.executor.tokens = Held(h) /\ a.executor.step = StepOf(h)
    BY <1>1, <1>4, <2>2 DEF Held, StepOf
  <2>5. \A g \in live \ {h} : a.step[g] = StepOf(g) /\ TokensIn(h, a, g) = Held(g)
    BY <1>1, <1>4, <2>2 DEF Held, StepOf, TokensIn
  <2>6. QED
    BY <1>1, <2>2, <2>3, <2>4, <2>5, LoadedIfHeld
<1>5. CASE h # old /\ old # Nobody /\ context[h] = context[old]
  <2>1. PICK left : left = [saved_step EXCEPT ![old] = executor.step]
    OBVIOUS
  <2>2. a = [executor |-> [executor EXCEPT !.step = left[h]],
             step |-> [left EXCEPT ![h] = Nothing], tokens |-> saved_tokens]
    BY <1>5, <2>1 DEF Acquired
  <2>3. /\ a.executor = [executor EXCEPT !.step = left[h]] /\ a.tokens = saved_tokens
        /\ a.step = [left EXCEPT ![h] = Nothing]
    BY <2>2
  <2>4. left \in [Handler -> Nat \cup {Nothing}] /\ left[h] = saved_step[h] /\ left[h] = StepOf(h)
    BY <1>1, <1>5, <2>1 DEF StepOf
  <2>5. a.executor \in ExecutorType /\ a.executor.tokens = executor.tokens /\ a.executor.step = left[h]
    BY <1>1, <1>2, <2>3, <2>4 DEF ExecutorType
  <2>6. a.step \in [Handler -> Nat \cup {Nothing}] /\ a.step[h] = Nothing
    BY <1>1, <2>3, <2>4
  <2>7. a.tokens[context[h]] = Nothing
    BY <1>1, <1>3, <1>5, <2>3
  <2>8. a.executor.tokens = Held(h) /\ a.executor.step = StepOf(h)
    BY <1>5, <2>4, <2>5 DEF Held
  <2>9. ASSUME NEW g \in live \ {h} PROVE a.step[g] = StepOf(g) /\ TokensIn(h, a, g) = Held(g)
    <3>1. g \in Handler
      BY <1>1
    <3>2. a.step[g] = StepOf(g)
      BY <1>1, <2>1, <2>3, <3>1 DEF StepOf
    <3>3. TokensIn(h, a, g) = Held(g)
      BY <1>5, <2>3, <2>5 DEF TokensIn, Held
    <3>4. QED
      BY <3>2, <3>3
  <2>10. a.tokens \in [Context -> Seq(Token) \cup {Nothing}]
    BY <1>1, <2>3
  <2>11. QED
    BY <2>5, <2>6, <2>7, <2>8, <2>9, <2>10, LoadedIfHeld
<1>6. CASE h # old /\ ~(old # Nobody /\ context[h] = context[old])
  <2>1. PICK left : left = (IF old = Nobody THEN saved_step ELSE [saved_step EXCEPT ![old] = executor.step])
    OBVIOUS
  <2>2. PICK put : put = (IF old = Nobody THEN saved_tokens
                          ELSE [saved_tokens EXCEPT ![context[old]] = executor.tokens])
    OBVIOUS
  <2>3. a = [executor |-> [tokens |-> put[context[h]], step |-> left[h]],
             step |-> [left EXCEPT ![h] = Nothing],
             tokens |-> [put EXCEPT ![context[h]] = Nothing]]
    BY <1>6, <2>1, <2>2 DEF Acquired
  <2>4. /\ a.executor = [tokens |-> put[context[h]], step |-> left[h]]
        /\ a.step = [left EXCEPT ![h] = Nothing] /\ a.tokens = [put EXCEPT ![context[h]] = Nothing]
    BY <2>3
  <2>5. old = Nobody \/ old \in Handler
    BY DEF IInv, TypeOK
  <2>6. left \in [Handler -> Nat \cup {Nothing}] /\ left[h] = StepOf(h)
    BY <1>1, <1>6, <2>1 DEF StepOf
  <2>7. put \in [Context -> Seq(Token) \cup {Nothing}] /\ put[context[h]] = Held(h)
    BY <1>1, <1>6, <2>2, <2>5 DEF Held
  <2>8. a.executor \in ExecutorType /\ a.executor.tokens = Held(h) /\ a.executor.step = StepOf(h)
    BY <1>2, <2>4, <2>6, <2>7 DEF ExecutorType
  <2>9. /\ a.step \in [Handler -> Nat \cup {Nothing}] /\ a.step[h] = Nothing
        /\ a.tokens \in [Context -> Seq(Token) \cup {Nothing}] /\ a.tokens[context[h]] = Nothing
    BY <1>1, <2>4, <2>6, <2>7
  <2>10. ASSUME NEW g \in live \ {h} PROVE a.step[g] = StepOf(g) /\ TokensIn(h, a, g) = Held(g)
    <3>1. g \in Handler /\ g # Nobody /\ context[g] \in Context
      BY <1>1
    <3>2. a.step[g] = StepOf(g)
      BY <1>1, <2>1, <2>4, <2>6, <3>1 DEF StepOf
    <3>3. TokensIn(h, a, g) = Held(g)
      BY <1>1, <1>6, <2>2, <2>4, <2>5, <2>7, <2>8, <3>1 DEF TokensIn, Held
    <3>4. QED
      BY <3>2, <3>3
  <2>11. QED
    BY <2>8, <2>9, <2>10, LoadedIfHeld
<1>7. QED
  BY <1>4, <1>5, <1>6

\* Once h is loaded, the executor may become anything that leaves the sessions that
\* go on sharing its tokens what they have.  While a clone is under way, no tokens
\* are cut.
LEMMA BecomeKeeps ==
  ASSUME IInv, NEW h \in live, NEW a, Loaded(h, a), NEW e \in ExecutorType,
         NEW separate \in BOOLEAN, Become(h, a, e, separate),
         live' = live, said' = [said EXCEPT ![h] = SubSeq(e.tokens, 1, e.step)],
         copied' = copied, e.step <= Len(e.tokens),
         cloning = <<>> \/ (~separate /\ e.tokens = a.executor.tokens),
         ~separate => \A g \in live \ {h} : context[g] = context[h] =>
           /\ a.step[g] <= Len(e.tokens)
           /\ SubSeq(e.tokens, 1, a.step[g]) = SubSeq(a.executor.tokens, 1, a.step[g])
  PROVE  IInv'
<1>1. /\ h \in Handler /\ Nobody \notin Handlers /\ live \subseteq Handlers
      /\ Handlers \subseteq Handler /\ context \in [Handler -> Context]
      /\ said \in [Handler -> Seq(Token)] /\ Nothing \notin Nat /\ Nothing \notin Seq(Token)
      /\ live \subseteq Handler
  BY Typed DEF IInv, TypeOK
<1>2. Fresh \in Context /\ \A g \in Handlers : context[g] # Fresh
  BY FreshIsFree DEF IInv
<1>3. e.tokens \in Seq(Token) /\ e.step \in Nat /\ SubSeq(e.tokens, 1, e.step) \in Seq(Token)
  BY Prefix DEF ExecutorType
<1>4. PICK of, toks :
        /\ of = (IF separate THEN [context EXCEPT ![h] = Fresh] ELSE context)
        /\ toks = (IF separate
                   THEN [a.tokens EXCEPT ![context[h]] = a.executor.tokens, ![Fresh] = Nothing]
                   ELSE a.tokens)
  OBVIOUS
<1>5. Hold(live, of, toks, a.step) /\ current_handler_' = h /\ executor' = e /\ cloning' = cloning
  BY <1>4 DEF Become
<1>6. /\ of \in [Handler -> Context] /\ toks \in [Context -> Seq(Token) \cup {Nothing}]
      /\ a.executor.tokens \in Seq(Token) /\ a.step \in [Handler -> Nat \cup {Nothing}]
  BY <1>1, <1>2, <1>4 DEF Loaded, ExecutorType
<1>7. 1 \in Context
  <2>1. Cardinality(Handler) \in Nat
    BY HandlerAssumption, FS_CardinalityType
  <2>2. QED
    BY <2>1 DEF Context
<1>8. /\ context' \in [Handler -> Context] /\ saved_step' \in [Handler -> Nat \cup {Nothing}]
      /\ saved_tokens' \in [Context -> Seq(Token) \cup {Nothing}]
  BY <1>5, <1>6, <1>7 DEF Hold
<1>9. \A g \in live : /\ context'[g] = of[g] /\ saved_step'[g] = a.step[g]
                      /\ saved_tokens'[of[g]] = toks[of[g]]
  BY <1>1, <1>5, <1>6 DEF Hold
<1>10. TypeOK'
  BY <1>1, <1>3, <1>5, <1>8 DEF IInv, TypeOK, ExecutorType
<1>11. Handlers' = live
  BY <1>1, <1>5 DEF Handlers
<1>12. ASSUME NEW g \in live
       PROVE  IF of[g] = of[h] THEN toks[of[g]] = Nothing
              ELSE toks[of[g]] = TokensIn(h, a, g) /\ toks[of[g]] # Nothing
  <2>1. CASE ~separate
    BY <1>1, <1>4, <1>6, <2>1 DEF Loaded, TokensIn
  <2>2. CASE separate /\ g = h
    BY <1>1, <1>2, <1>4, <1>6, <2>2 DEF Loaded
  <2>3. CASE separate /\ g # h
    <3>1. of[g] = context[g] /\ of[h] = Fresh /\ context[g] # Fresh /\ context[g] \in Context
      BY <1>1, <1>2, <1>4, <2>3
    <3>2. toks[context[g]] =
            IF context[g] = context[h] THEN a.executor.tokens ELSE a.tokens[context[g]]
      BY <1>1, <1>2, <1>4, <2>3, <3>1 DEF Loaded
    <3>3. QED
      BY <1>1, <1>6, <3>1, <3>2 DEF Loaded, TokensIn
  <2>4. QED
    BY <2>1, <2>2, <2>3
<1>13. HeldOnce'
  <2>1. ASSUME NEW g \in live PROVE (saved_step'[g] = Nothing) <=> (g = h)
    BY <1>9 DEF Loaded
  <2>2. ASSUME NEW g \in live
        PROVE  (saved_tokens'[context'[g]] = Nothing) <=> (context'[g] = context'[h])
    BY <1>9, <1>12
  <2>3. h # Nobody
    BY <1>1
  <2>4. QED
    BY <1>5, <1>11, <2>1, <2>2, <2>3 DEF HeldOnce
<1>14. CloneGood'
  <2>1. CASE cloning = <<>>
    BY <1>5, <2>1 DEF CloneGood
  <2>2. CASE ~separate /\ e.tokens = a.executor.tokens
    <3>1. ASSUME NEW g \in live PROVE Held(g)' = Held(g)
      <4>1. of = context /\ TokensIn(h, a, g) = Held(g)
        BY <1>4, <2>2 DEF Loaded
      <4>2. CASE context[g] = context[h]
        <5>1. Held(g)' = e.tokens
          BY <1>1, <1>5, <1>9, <4>1, <4>2 DEF Held
        <5>2. TokensIn(h, a, g) = a.executor.tokens
          BY <4>2 DEF TokensIn
        <5>3. QED
          BY <2>2, <4>1, <5>1, <5>2
      <4>3. CASE context[g] # context[h]
        BY <1>1, <1>5, <1>9, <1>12, <4>1, <4>3 DEF Held
      <4>4. QED
        BY <4>2, <4>3
    <3>2. live \subseteq Handlers
      BY <1>1
    <3>3. CloneGood /\ UNCHANGED <<cloning, copied>>
      BY <1>5 DEF IInv
    <3>4. QED
      BY <1>11, <3>1, <3>2, <3>3, CloneStays
  <2>3. QED
    BY <2>1, <2>2
<1>15. ASSUME NEW g \in live PROVE Good(g)'
  <2>1. CASE g = h
    <3>1. Held(g)' = e.tokens /\ StepOf(g)' = e.step /\ said'[g] = SubSeq(e.tokens, 1, e.step)
      BY <1>1, <1>5, <2>1 DEF Held, StepOf
    <3>2. QED
      BY <3>1 DEF Good
  <2>2. CASE g # h /\ of[g] = of[h]
    <3>1. ~separate /\ context[g] = context[h]
      BY <1>1, <1>2, <1>4, <2>2
    <3>2. Held(g)' = e.tokens /\ StepOf(g)' = a.step[g] /\ said'[g] = said[g]
      BY <1>1, <1>5, <1>9, <2>2 DEF Held, StepOf
    <3>3. TokensIn(h, a, g) = a.executor.tokens
      BY <3>1 DEF TokensIn
    <3>4. /\ a.step[g] <= Len(e.tokens)
          /\ SubSeq(e.tokens, 1, a.step[g]) = SubSeq(a.executor.tokens, 1, a.step[g])
      BY <2>2, <3>1
    <3>5. SubSeq(a.executor.tokens, 1, a.step[g]) = said[g]
      BY <2>2, <3>3 DEF Loaded
    <3>6. QED
      BY <3>2, <3>4, <3>5 DEF Good
  <2>3. CASE g # h /\ of[g] # of[h]
    <3>1. Held(g)' = TokensIn(h, a, g) /\ StepOf(g)' = a.step[g] /\ said'[g] = said[g]
      BY <1>1, <1>5, <1>9, <1>12, <2>3 DEF Held, StepOf
    <3>2. QED
      BY <2>3, <3>1 DEF Good, Loaded
  <2>4. QED
    BY <2>1, <2>2, <2>3
<1>16. QED
  BY <1>10, <1>13, <1>14, <1>15 DEF IInv
-----------------------------------------------------------------------------
(* Sessions that come and go *)

\* The handlers there were have what they had.
Kept ==
  /\ UNCHANGED <<current_handler_, executor>>
  /\ \A g \in Handlers \cap Handlers' :
       /\ context'[g] = context[g] /\ saved_step'[g] = saved_step[g]
       /\ saved_tokens'[context[g]] = saved_tokens[context[g]]
  /\ \A g \in live \cap live' : said'[g] = said[g]
  /\ current_handler_ # Nobody => current_handler_ \in Handlers \cap Handlers'

LEMMA KeptHolds ==
  ASSUME IInv, Kept, NEW g \in live, g \in live', g \in Handlers'
  PROVE  Good(g)' /\ Held(g)' = Held(g)
<1>1. g \in Handlers /\ Good(g)
  BY Typed DEF IInv
<1>2. Held(g)' = Held(g) /\ StepOf(g)' = StepOf(g) /\ said'[g] = said[g]
  BY <1>1 DEF Kept, Held, StepOf
<1>3. QED
  BY <1>1, <1>2 DEF Good

LEMMA LoadedIsHandler ==
  ASSUME TypeOK, current_handler_ # Nobody
  PROVE  current_handler_ \in Handlers
BY DEF TypeOK, Handlers

LEMMA CreateKeeps ==
  ASSUME IInv, NEW h \in Handler, CreateContextHandler(h)
  PROVE  IInv'
<1>1. /\ h \notin Handlers /\ (cloning # <<>> => h # cloning[2])
      /\ live' = live \cup {h} /\ said' = [said EXCEPT ![h] = <<>>]
      /\ context' = [context EXCEPT ![h] = Fresh]
      /\ saved_tokens' = [saved_tokens EXCEPT ![Fresh] = <<>>]
      /\ saved_step' = [saved_step EXCEPT ![h] = 0]
      /\ UNCHANGED <<current_handler_, executor, cloning, copied>>
  BY DEF CreateContextHandler, Private!Create
<1>2. Fresh \in Context /\ \A g \in Handlers : context[g] # Fresh
  BY FreshIsFree DEF IInv
<1>3. /\ Handlers \subseteq Handler /\ live \subseteq Handlers /\ Nobody \notin Handlers
      /\ Nothing \notin Nat /\ Nothing \notin Seq(Token) /\ TypeOK
  BY Typed DEF IInv
<1>4. Handlers' = Handlers \cup {h} /\ (current_handler_ # Nobody => current_handler_ \in Handlers)
  BY <1>1, <1>3, LoadedIsHandler DEF Handlers
<1>5. <<>> \in Seq(Token) /\ Len(<<>>) = 0 /\ SubSeq(<<>>, 1, 0) = <<>>
  <2>1. <<>> \in Seq(Token) /\ Len(<<>>) = 0
    BY EmptySeq
  <2>2. SubSeq(<<>>, 1, 0) = <<>>
    BY SubSeqEmpty
  <2>3. QED
    BY <2>1, <2>2
<1>6. PICK nil \in Seq(Token) : nil = <<>> /\ Len(nil) = 0 /\ SubSeq(nil, 1, 0) = nil
  BY <1>5
<1>7. TypeOK'
  BY <1>1, <1>2, <1>3, <1>5 DEF TypeOK
<1>8. /\ context'[h] = Fresh /\ saved_tokens'[Fresh] = nil /\ saved_step'[h] = 0 /\ said'[h] = nil
      /\ \A g \in Handlers :
           /\ context'[g] = context[g] /\ saved_step'[g] = saved_step[g]
           /\ saved_tokens'[context[g]] = saved_tokens[context[g]] /\ said'[g] = said[g]
  BY <1>1, <1>2, <1>3, <1>6 DEF TypeOK
<1>9. Kept
  BY <1>1, <1>3, <1>4, <1>8 DEF Kept
<1>10. HeldOnce'
  <2>1. \A g \in Handlers :
          /\ (saved_step[g] = Nothing) <=> (g = current_handler_)
          /\ (saved_tokens[context[g]] = Nothing) <=>
               (current_handler_ # Nobody /\ context[g] = context[current_handler_])
    BY DEF IInv, HeldOnce
  <2>2. ASSUME NEW g \in Handlers
        PROVE  /\ (saved_step'[g] = Nothing) <=> (g = current_handler_')
               /\ (saved_tokens'[context'[g]] = Nothing) <=>
                    (current_handler_' # Nobody /\ context'[g] = context'[current_handler_'])
    BY <1>1, <1>4, <1>8, <2>1
  <2>3. /\ (saved_step'[h] = Nothing) <=> (h = current_handler_')
        /\ (saved_tokens'[context'[h]] = Nothing) <=>
             (current_handler_' # Nobody /\ context'[h] = context'[current_handler_'])
    <3>1. saved_step'[h] # Nothing /\ saved_tokens'[context'[h]] # Nothing
      BY <1>3, <1>8
    <3>2. h # current_handler_'
      BY <1>1, <1>3, <1>4, NobodyAssumption
    <3>3. current_handler_' # Nobody => context'[h] # context'[current_handler_']
      BY <1>1, <1>2, <1>4, <1>8
    <3>4. QED
      BY <3>1, <3>2, <3>3
  <2>4. QED
    BY <1>4, <2>2, <2>3 DEF HeldOnce
<1>11. CloneGood'
  <2>1. ASSUME NEW g \in Handler, NEW c \in Handler, NEW n \in Nat \cup {Nothing},
               cloning = <<g, c, n>>, g \in live, c \notin Handlers
        PROVE  g \in live' /\ c \notin Handlers' /\ Held(g)' = Held(g)
    <3>1. c # h
      BY <1>1, <2>1
    <3>2. g \in live' /\ g \in Handlers'
      BY <1>1, <1>3, <1>4, <2>1
    <3>3. QED
      BY <1>4, <1>9, <2>1, <3>1, <3>2, KeptHolds
  <2>2. QED
    BY <1>1, <2>1, CloneStays DEF IInv
<1>12. ASSUME NEW g \in live' PROVE Good(g)'
  <2>1. CASE g \in live
    BY <1>1, <1>3, <1>4, <1>9, <2>1, KeptHolds
  <2>2. CASE g = h
    <3>1. Held(h)' = nil /\ StepOf(h)' = 0
      <4>1. h # current_handler_' /\ (current_handler_' # Nobody => context'[h] # context'[current_handler_'])
        BY <1>1, <1>2, <1>3, <1>4, <1>8, NobodyAssumption
      <4>2. QED
        BY <1>8, <4>1 DEF Held, StepOf
    <3>2. 0 <= Len(nil) /\ SubSeq(nil, 1, 0) = said'[h]
      BY <1>6, <1>8
    <3>3. QED
      BY <2>2, <3>1, <3>2 DEF Good
  <2>3. QED
    BY <1>1, <2>1, <2>2
<1>13. QED
  BY <1>7, <1>10, <1>11, <1>12 DEF IInv

LEMMA ClonedKeeps ==
  ASSUME IInv, NEW h \in Handler, NEW c \in Handler, NEW n \in Nat, cloning = <<h, c, n>>,
         cloning' = <<>>, Private!Clone(c), Bundled(h, c, n),
         UNCHANGED <<current_handler_, executor, saved_tokens>>
  PROVE  IInv'
<1>1. /\ live' = live \cup {c} /\ said' = [said EXCEPT ![c] = copied] /\ copied' = <<>>
      /\ context' = [context EXCEPT ![c] = context[h]]
      /\ saved_step' = [saved_step EXCEPT ![c] = n]
      /\ UNCHANGED <<current_handler_, executor, saved_tokens>>
  BY DEF Bundled, Private!Clone
<1>2. /\ Handlers \subseteq Handler /\ live \subseteq Handlers /\ Nobody \notin Handlers
      /\ Nothing \notin Nat /\ Nothing \notin Seq(Token) /\ TypeOK /\ copied \in Seq(Token)
  BY Typed DEF IInv, TypeOK
<1>3. /\ h \in live /\ h \in Handlers /\ c \notin Handlers
       /\ n <= Len(Held(h)) /\ SubSeq(Held(h), 1, n) = copied
  BY <1>2 DEF IInv, CloneGood
<1>4. Handlers' = Handlers \cup {c} /\ (current_handler_ # Nobody => current_handler_ \in Handlers)
  BY <1>1, <1>2, LoadedIsHandler DEF Handlers
<1>5. TypeOK'
  <2>1. <<>> \in Seq(Token)
    BY EmptySeq
  <2>2. QED
    BY <1>1, <1>2, <2>1 DEF TypeOK
<1>6. /\ context'[c] = context[h] /\ saved_step'[c] = n /\ said'[c] = copied
      /\ \A g \in Handlers :
           context'[g] = context[g] /\ saved_step'[g] = saved_step[g] /\ said'[g] = said[g]
  BY <1>1, <1>2, <1>3 DEF TypeOK
<1>7. Kept
  BY <1>1, <1>2, <1>4, <1>6 DEF Kept
<1>8. c # current_handler_
  BY <1>4, <1>3, NobodyAssumption
<1>9. HeldOnce'
  <2>1. \A g \in Handlers :
          /\ (saved_step[g] = Nothing) <=> (g = current_handler_)
          /\ (saved_tokens[context[g]] = Nothing) <=>
               (current_handler_ # Nobody /\ context[g] = context[current_handler_])
    BY DEF IInv, HeldOnce
  <2>2. ASSUME NEW g \in Handlers
        PROVE  /\ (saved_step'[g] = Nothing) <=> (g = current_handler_')
               /\ (saved_tokens'[context'[g]] = Nothing) <=>
                    (current_handler_' # Nobody /\ context'[g] = context'[current_handler_'])
    BY <1>1, <1>4, <1>6, <2>1
  <2>3. /\ (saved_step'[c] = Nothing) <=> (c = current_handler_')
        /\ (saved_tokens'[context'[c]] = Nothing) <=>
             (current_handler_' # Nobody /\ context'[c] = context'[current_handler_'])
    BY <1>1, <1>2, <1>4, <1>6, <1>8, <1>3, <2>1
  <2>4. QED
    BY <1>4, <2>2, <2>3 DEF HeldOnce
<1>10. CloneGood'
  BY DEF CloneGood
<1>11. ASSUME NEW g \in live' PROVE Good(g)'
  <2>1. CASE g \in live
    BY <1>1, <1>2, <1>4, <1>7, <2>1, KeptHolds
  <2>2. CASE g = c
    <3>1. Held(c)' = Held(h) /\ StepOf(c)' = n
      BY <1>1, <1>4, <1>6, <1>8 DEF Held, StepOf
    <3>2. QED
      BY <1>6, <1>3, <2>2, <3>1 DEF Good
  <2>3. QED
    BY <1>1, <2>1, <2>2
<1>12. QED
  BY <1>5, <1>9, <1>10, <1>11 DEF IInv

\* Nothing happens to the sessions while a clone begins, reads, or is given up.
LEMMA OnlyClones ==
  ASSUME IInv, CloneGood', cloning' \in {<<>>} \cup (Handler \X Handler \X (Nat \cup {Nothing})),
         copied' \in Seq(Token),
         UNCHANGED <<live, said, current_handler_, executor, context, saved_tokens, saved_step>>
  PROVE  IInv'
<1>1. TypeOK' /\ HeldOnce'
  BY DEF IInv, TypeOK, HeldOnce, Handlers
<1>2. \A g \in live' : Good(g)'
  BY DEF IInv, Good, Held, StepOf
<1>3. QED
  BY <1>1, <1>2 DEF IInv

\* What a step read from h leads to.
LEMMA CopyGood ==
  ASSUME IInv, NEW h \in live, NEW c \in Handler, c \notin Handlers, Private!Copy(h),
         cloning' = <<h, c, StepOf(h)>>,
         UNCHANGED <<current_handler_, executor, context, saved_tokens, saved_step>>
  PROVE  IInv'
<1>1. h \in Handler /\ StepOf(h) \in Nat /\ said[h] \in Seq(Token)
  BY Typed, HeldTyped DEF IInv
<1>2. copied' = said[h] /\ UNCHANGED <<live, said>>
  BY DEF Private!Copy
<1>3. Handlers' = Handlers /\ Held(h)' = Held(h) /\ Good(h)
  BY <1>2 DEF IInv, Handlers, Held
<1>4. CloneGood'
  BY <1>2, <1>3 DEF CloneGood, Good
<1>5. QED
  BY <1>1, <1>2, <1>4, OnlyClones

LEMMA CloneKeeps ==
  ASSUME IInv, NEW h \in Handler, NEW c \in Handler,
         CloneContextHandler(h, c) \/ CloneLoaded(h, c)
  PROVE  IInv'
<1>1. copied \in Seq(Token) /\ Nothing \notin Nat
  BY NothingAssumption DEF IInv, TypeOK
<1>2. CASE CloneContextHandler(h, c)
  <2>1. /\ h \in live /\ c \notin Handlers /\ cloning' = <<h, c, saved_step[h]>>
        /\ UNCHANGED <<current_handler_, executor, context, saved_tokens, saved_step>>
    BY <1>2 DEF CloneContextHandler
  <2>2. CASE saved_step[h] # Nothing
    <3>1. saved_step[h] = StepOf(h)
      BY <2>1, <2>2, Typed DEF IInv, HeldOnce, StepOf
    <3>2. Private!Copy(h)
      BY <1>2, <2>2 DEF CloneContextHandler
    <3>3. QED
      BY <2>1, <3>1, <3>2, CopyGood
  <2>3. CASE saved_step[h] = Nothing
    <3>1. cloning' = <<h, c, Nothing>> /\ UNCHANGED <<live, said, copied>>
      BY <1>2, <2>1, <2>3 DEF CloneContextHandler
    <3>2. CloneGood'
      BY <1>1, <2>1, <3>1 DEF CloneGood, Handlers
    <3>3. QED
      BY <1>1, <2>1, <3>1, <3>2, OnlyClones
  <2>4. QED
    BY <2>2, <2>3
<1>3. CASE CloneLoaded(h, c)
  <2>1. /\ cloning = <<h, c, Nothing>>
        /\ UNCHANGED <<current_handler_, executor, context, saved_tokens, saved_step>>
    BY <1>3 DEF CloneLoaded
  <2>2. h \in live /\ c \notin Handlers
    BY <2>1 DEF IInv, CloneGood
  <2>3. CASE current_handler_ = h
    <3>1. cloning' = <<h, c, StepOf(h)>> /\ Private!Copy(h)
      BY <1>3, <2>3 DEF CloneLoaded, StepOf
    <3>2. QED
      BY <2>1, <2>2, <3>1, CopyGood
  <2>4. CASE current_handler_ # h
    <3>1. cloning' = <<>> /\ UNCHANGED <<live, said, copied>>
      BY <1>3, <2>4 DEF CloneLoaded
    <3>2. CloneGood'
      BY <3>1 DEF CloneGood
    <3>3. QED
      BY <1>1, <2>1, <3>1, <3>2, OnlyClones
  <2>5. QED
    BY <2>3, <2>4
<1>4. QED
  BY <1>2, <1>3

LEMMA FinishKeeps ==
  ASSUME IInv, NEW h \in Handler, NEW c \in Handler, NEW n \in Nat, FinishClone(h, c, n)
  PROVE  IInv'
<1>1. /\ cloning = <<h, c, n>> /\ cloning' = <<>>
      /\ UNCHANGED <<current_handler_, executor, saved_tokens>>
  BY DEF FinishClone
<1>2. CASE Private!Clone(c) /\ Bundled(h, c, n)
  BY <1>1, <1>2, ClonedKeeps
<1>3. CASE Private!Abandon /\ UNCHANGED <<context, saved_step>>
  <2>1. copied' = <<>> /\ UNCHANGED <<live, said>>
    BY <1>3 DEF Private!Abandon
  <2>2. <<>> \in Seq(Token)
    BY EmptySeq
  <2>3. CloneGood'
    BY <1>1 DEF CloneGood
  <2>4. QED
    BY <1>1, <1>3, <2>1, <2>2, <2>3, OnlyClones
<1>4. QED
  BY <1>2, <1>3 DEF FinishClone

LEMMA ReleaseKeeps ==
  ASSUME IInv, NEW h \in Handler, Release(h)
  PROVE  IInv'
<1> DEFINE alive == Handlers \ ({h} \ {current_handler_})
<1>1. /\ h \in live /\ (cloning # <<>> => h # cloning[1])
      /\ live' = live \ {h} /\ said' = [said EXCEPT ![h] = <<>>]
      /\ Hold(alive, context, saved_tokens, saved_step)
      /\ UNCHANGED <<current_handler_, executor, cloning, copied>>
  BY DEF Release, Private!Release
<1>2. /\ Handlers \subseteq Handler /\ live \subseteq Handlers /\ TypeOK
      /\ (current_handler_ # Nobody => current_handler_ \in Handlers)
  BY Typed, LoadedIsHandler DEF IInv
<1>3. Handlers' = alive /\ alive \subseteq Handlers
  BY <1>1, <1>2 DEF Handlers
<1>4. 1 \in Context
  <2>1. Cardinality(Handler) \in Nat
    BY HandlerAssumption, FS_CardinalityType
  <2>2. QED
    BY <2>1 DEF Context
<1>5. TypeOK'
  <2>1. <<>> \in Seq(Token)
    BY EmptySeq
  <2>2. /\ context' \in [Handler -> Context] /\ saved_step' \in [Handler -> Nat \cup {Nothing}]
        /\ saved_tokens' \in [Context -> Seq(Token) \cup {Nothing}]
    BY <1>1, <1>2, <1>4 DEF Hold, TypeOK
  <2>3. said' \in [Handler -> Seq(Token)]
    BY <1>1, <1>2, <2>1 DEF TypeOK
  <2>4. QED
    BY <1>1, <1>2, <2>2, <2>3 DEF TypeOK
<1>6. \A g \in alive :
        /\ context'[g] = context[g] /\ saved_step'[g] = saved_step[g]
        /\ saved_tokens'[context[g]] = saved_tokens[context[g]]
  BY <1>1, <1>2, <1>3 DEF Hold, TypeOK
<1>7. current_handler_ # Nobody => current_handler_ \in alive
  BY <1>2
<1>8. Kept
  BY <1>1, <1>2, <1>3, <1>6, <1>7 DEF Kept, TypeOK
<1>9. HeldOnce'
  BY <1>1, <1>3, <1>6, <1>7 DEF IInv, HeldOnce
<1>10. CloneGood'
  <2>1. ASSUME NEW g \in Handler, NEW c \in Handler, NEW n \in Nat \cup {Nothing},
               cloning = <<g, c, n>>, g \in live, c \notin Handlers
        PROVE  g \in live' /\ c \notin Handlers' /\ Held(g)' = Held(g)
    <3>1. g # h
      BY <1>1, <2>1
    <3>2. g \in live' /\ g \in Handlers' /\ c \notin Handlers'
      BY <1>1, <1>2, <1>3, <2>1, <3>1
    <3>3. QED
      BY <1>8, <2>1, <3>2, KeptHolds
  <2>2. QED
    BY <1>1, <2>1, CloneStays DEF IInv
<1>11. ASSUME NEW g \in live' PROVE Good(g)'
  <2>1. g \in live /\ g \in Handlers'
    BY <1>1, <1>2, <1>3
  <2>2. QED
    BY <1>8, <2>1, KeptHolds
<1>12. QED
  BY <1>5, <1>9, <1>10, <1>11 DEF IInv

-----------------------------------------------------------------------------
(* Prefills, decodes and rewinds *)

\* A handler that keeps its context has the longest step of those that share it.
LEMMA NobodyIsLonger ==
  ASSUME IInv, NEW h \in live, NEW a, Loaded(h, a), ~MustSeparate(h, a, a.executor.step),
         NEW g \in live \ {h}, context[g] = context[h]
  PROVE  a.step[g] <= a.executor.step
BY DEF MustSeparate, LongestStep

\* The executor cuts what is past the step and goes on with ids.
LEMMA ExtendKeeps ==
  ASSUME IInv, NEW h \in live, NEW a, Loaded(h, a), NEW ids \in Seq(Token), cloning = <<>>,
         NEW separate \in BOOLEAN, Become(h, a, Extended(a.executor, ids), separate),
         separate = (Len(a.executor.tokens) # a.executor.step
                       /\ MustSeparate(h, a, a.executor.step)),
         Private!Extend(h, ids)
  PROVE  IInv'
<1>1. /\ a.executor.tokens \in Seq(Token) /\ a.executor.step \in Nat /\ a.executor \in ExecutorType
      /\ a.step \in [Handler -> Nat \cup {Nothing}]
      /\ a.executor.step <= Len(a.executor.tokens)
      /\ SubSeq(a.executor.tokens, 1, a.executor.step) = said[h]
  BY DEF Loaded, ExecutorType
<1>2. PICK old \in Seq(Token), m \in Nat :
        old = a.executor.tokens /\ m = a.executor.step /\ m <= Len(old) /\ SubSeq(old, 1, m) = said[h]
  BY <1>1
<1>3. PICK t : t = SubSeq(old, 1, m) \o ids
  OBVIOUS
<1>4. /\ t \in Seq(Token) /\ Len(t) = m + Len(ids) /\ SubSeq(t, 1, m + Len(ids)) = t
      /\ \A n \in Nat : n <= m => n <= Len(t) /\ SubSeq(t, 1, n) = SubSeq(old, 1, n)
  <2>1. m <= Len(old)
    BY <1>2
  <2>2. LET u == SubSeq(old, 1, m) \o ids
        IN  /\ u \in Seq(Token) /\ Len(u) = m + Len(ids) /\ SubSeq(u, 1, m + Len(ids)) = u
            /\ \A n \in Nat : n <= m => n <= Len(u) /\ SubSeq(u, 1, n) = SubSeq(old, 1, n)
    BY <2>1, ExtendedPrefix
  <2>3. QED
    BY <1>3, <2>2
<1>5. PICK e : e = Extended(a.executor, ids)
  OBVIOUS
<1>6. e = [tokens |-> t, step |-> m + Len(ids)]
  BY <1>2, <1>3, <1>5 DEF Extended
<1>7. m + Len(ids) \in Nat /\ m + Len(ids) <= Len(t)
  <2>1. Len(ids) \in Nat
    OBVIOUS
  <2>2. QED
    BY <1>4, <2>1
<1>8. e \in ExecutorType /\ e.tokens = t /\ e.step = m + Len(ids)
  BY <1>4, <1>6, <1>7 DEF ExecutorType
<1>9. live' = live /\ copied' = copied /\ said' = [said EXCEPT ![h] = SubSeq(e.tokens, 1, e.step)]
  BY <1>2, <1>3, <1>4, <1>8 DEF Private!Extend
<1>10. ASSUME ~separate, NEW g \in live \ {h}, context[g] = context[h]
       PROVE  /\ a.step[g] <= Len(t)
              /\ SubSeq(t, 1, a.step[g]) = SubSeq(old, 1, a.step[g])
  <2>1. PICK n \in Nat : n = a.step[g]
    BY <1>1, Typed DEF Loaded, IInv
  <2>2. n <= m
    <3>1. CASE Len(old) = m
      BY <1>2, <1>10, <2>1, <3>1 DEF Loaded, TokensIn
    <3>2. CASE Len(old) # m
      BY <1>2, <1>10, <2>1, <3>2, NobodyIsLonger
    <3>3. QED
      BY <3>1, <3>2
  <2>3. QED
    BY <1>4, <2>1, <2>2
<1>11. QED
  BY <1>2, <1>5, <1>7, <1>8, <1>9, <1>10, BecomeKeeps

LEMMA PrefillKeeps ==
  ASSUME IInv, Uses = {}, NEW h \in Handler, NEW k \in Inputs, NEW ids \in [1..k -> Token],
         Prefill(h, ids)
  PROVE  IInv'
<1>1. /\ h \in live /\ cloning = <<>> /\ Matching(Acquired(h).executor, ids) = 0
  BY DEF Prefill
<1>2. Loaded(h, Acquired(h))
  BY <1>1, AcquiredLoads
<1>3. PICK a : a = Acquired(h) /\ Loaded(h, a)
  BY <1>2
<1>4. ids \in Seq(Token) /\ Len(ids) # 0 /\ SubSeq(ids, 0 + 1, Len(ids)) = ids
  <2>1. k \in Nat /\ k # 0
    BY BoundsAssumption
  <2>2. ids \in Seq(Token) /\ Len(ids) = k
    BY <2>1
  <2>3. SubSeq(ids, 1, Len(ids)) = ids
    BY <2>2, SubSeqFull
  <2>4. QED
    BY <2>1, <2>2, <2>3
<1>5. ids # <<>>
  BY <1>4
<1>6. PICK step \in Nat : step = a.executor.step /\ step + 0 = step /\ step <= step
  BY <1>3 DEF Loaded, ExecutorType
<1>7. Stepped(a.executor, step) = a.executor /\ Settable(a.executor, step)
  <2>1. a.executor \in [tokens : Seq(Token), step : Nat]
    BY <1>3 DEF Loaded, ExecutorType
  <2>2. Stepped(a.executor, step) = a.executor
    BY <1>6, <2>1 DEF Stepped
  <2>3. QED
    BY <1>6, <2>2 DEF Settable
<1>8. PICK separate \in BOOLEAN :
        separate = (Len(a.executor.tokens) # a.executor.step /\ MustSeparate(h, a, a.executor.step))
  OBVIOUS
<1>9. Become(h, a, Extended(a.executor, ids), separate) /\ Private!Extend(h, ids)
  <2>1. CASE Len(a.executor.tokens) = step
    BY <1>1, <1>3, <1>4, <1>5, <1>6, <1>7, <1>8, <2>1 DEF Prefill
  <2>2. CASE Len(a.executor.tokens) # step
    BY <1>1, <1>3, <1>4, <1>5, <1>6, <1>7, <1>8, <2>2 DEF Prefill
  <2>3. QED
    BY <2>1, <2>2
<1>10. QED
  BY <1>1, <1>3, <1>4, <1>8, <1>9, ExtendKeeps

LEMMA PrefillAfterResetKeeps ==
  ASSUME IInv, Uses = {}, NEW h \in Handler, NEW k \in Inputs, NEW ids \in [1..k -> Token],
         PrefillAfterReset(h, ids)
  PROVE  IInv'
<1>1. h \in live /\ cloning = <<>> /\ \A g \in live \ {h} : context[g] # context[h]
  BY DEF PrefillAfterReset
<1>2. ids \in Seq(Token) /\ SubSeq(ids, 1, Len(ids)) = ids /\ Len(ids) \in Nat
  <2>1. ids \in Seq(Token)
    BY BoundsAssumption
  <2>2. QED
    BY <2>1, SubSeqFull
<1>3. PICK a : a = Acquired(h) /\ Loaded(h, a)
  BY <1>1, AcquiredLoads
<1>4. PICK e : e = [tokens |-> ids, step |-> Len(ids)]
  OBVIOUS
<1>5. e \in ExecutorType /\ e.tokens = ids /\ e.step = Len(ids)
  BY <1>2, <1>4 DEF ExecutorType
<1>6. Become(h, a, e, FALSE) /\ said' = [said EXCEPT ![h] = ids]
      /\ UNCHANGED <<live, copied>>
  BY <1>3, <1>4 DEF PrefillAfterReset, Private!StartAgain
<1>7. said' = [said EXCEPT ![h] = SubSeq(e.tokens, 1, e.step)] /\ e.step <= Len(e.tokens)
  <2>1. Len(ids) <= Len(ids)
    BY <1>2
  <2>2. QED
    BY <1>2, <1>5, <1>6, <2>1
<1>8. QED
  BY <1>1, <1>3, <1>5, <1>6, <1>7, BecomeKeeps

LEMMA DecodeKeeps ==
  ASSUME IInv, NEW h \in Handler, NEW id \in Token, Decode(h, id)
  PROVE  IInv'
<1>1. h \in live /\ cloning = <<>>
  BY DEF Decode
<1>2. PICK a : a = Acquired(h) /\ Loaded(h, a)
  BY <1>1, AcquiredLoads
<1>3. PICK separate \in BOOLEAN :
        separate = (Len(a.executor.tokens) # a.executor.step /\ MustSeparate(h, a, a.executor.step))
  OBVIOUS
<1>4. Become(h, a, Extended(a.executor, <<id>>), separate) /\ Private!Extend(h, <<id>>)
  BY <1>2, <1>3 DEF Decode
<1>5. <<id>> \in Seq(Token)
  OBVIOUS
<1>6. QED
  BY <1>1, <1>2, <1>3, <1>4, <1>5, ExtendKeeps

LEMMA SetCurrentStepKeeps ==
  ASSUME IInv, NEW h \in Handler, NEW n \in Nat, SetCurrentStep(h, n)
  PROVE  IInv'
<1>1. h \in live
  BY DEF SetCurrentStep
<1>2. PICK a : a = Acquired(h) /\ Loaded(h, a)
  BY <1>1, AcquiredLoads
<1>3. PICK old \in Seq(Token), m \in Nat :
        old = a.executor.tokens /\ m = a.executor.step /\ m <= Len(old) /\ SubSeq(old, 1, m) = said[h]
  BY <1>2 DEF Loaded, ExecutorType
<1>4. PICK e : e = IF n <= m THEN Stepped(a.executor, n) ELSE a.executor
  OBVIOUS
<1>5. PICK step \in Nat : step = IF n <= m THEN n ELSE m
  OBVIOUS
<1>6. /\ Become(h, a, e, FALSE) /\ UNCHANGED <<live, copied>>
      /\ said' = [said EXCEPT ![h] = SubSeq(said[h], 1, step)]
  <2>1. CASE n <= m
    BY <1>2, <1>3, <1>4, <1>5, <2>1, Typed DEF SetCurrentStep, Private!Rewind, IInv, TypeOK
  <2>2. CASE ~(n <= m)
    <3>1. Become(h, a, a.executor, FALSE) /\ UNCHANGED <<live, said, copied>>
      BY <1>2, <1>3, <2>2 DEF SetCurrentStep
    <3>2. SubSeq(said[h], 1, m) = said[h]
      BY <1>3, PrefixOfPrefix
    <3>3. said = [said EXCEPT ![h] = said[h]]
      BY DEF IInv, TypeOK
    <3>4. QED
      BY <1>4, <1>5, <2>2, <3>1, <3>2, <3>3
  <2>3. QED
    BY <2>1, <2>2
<1>7. e \in ExecutorType /\ e.tokens = old /\ e.step = step
  BY <1>2, <1>3, <1>4, <1>5 DEF Loaded, ExecutorType, Stepped
<1>8. step <= m /\ step <= Len(old) /\ Len(old) \in Nat
  <2>1. step <= m /\ m <= Len(old) /\ Len(old) \in Nat
    BY <1>3, <1>5
  <2>2. QED
    BY <2>1
<1>9. SubSeq(said[h], 1, step) = SubSeq(old, 1, step)
  BY <1>3, <1>8, PrefixOfPrefix
<1>10. ASSUME NEW g \in live \ {h}, context[g] = context[h]
       PROVE  a.step[g] <= Len(old) /\ SubSeq(old, 1, a.step[g]) = SubSeq(a.executor.tokens, 1, a.step[g])
  BY <1>2, <1>3, <1>10 DEF Loaded, TokensIn
<1>11. QED
  BY <1>1, <1>2, <1>3, <1>6, <1>7, <1>8, <1>9, <1>10, BecomeKeeps

-----------------------------------------------------------------------------
(* The theorems *)

LEMMA InitHolds == Init => IInv
<1>1. SUFFICES ASSUME Init PROVE IInv
  OBVIOUS
<1>2. /\ live = {} /\ said = [h \in Handler |-> <<>>] /\ current_handler_ = Nobody
      /\ executor = [tokens |-> <<>>, step |-> 0] /\ context = [h \in Handler |-> 1]
      /\ saved_tokens = [c \in Context |-> Nothing] /\ saved_step = [h \in Handler |-> Nothing]
      /\ cloning = <<>> /\ copied = <<>>
  BY <1>1 DEF Init, Private!Init
<1>3. 1 \in Context
  <2>1. Cardinality(Handler) \in Nat
    BY HandlerAssumption, FS_CardinalityType
  <2>2. QED
    BY <2>1 DEF Context
<1>4. <<>> \in Seq(Token)
  BY EmptySeq
<1>5. TypeOK
  BY <1>2, <1>3, <1>4 DEF TypeOK
<1>6. Handlers = {}
  BY <1>2, NobodyAssumption DEF Handlers
<1>7. HeldOnce /\ CloneGood
  BY <1>2, <1>6 DEF HeldOnce, CloneGood
<1>8. QED
  BY <1>2, <1>5, <1>7 DEF IInv

LEMMA NextKeeps ==
  ASSUME Uses = {}
  PROVE  IInv /\ [Next]_vars => IInv'
<1>1. SUFFICES ASSUME IInv, [Next]_vars PROVE IInv'
  OBVIOUS
<1>2. CASE UNCHANGED vars
  BY <1>1, <1>2 DEF vars, IInv, TypeOK, HeldOnce, CloneGood, Handlers, Good, Held, StepOf
<1>3. ASSUME NEW h \in Handler, CreateContextHandler(h) \/ Release(h) PROVE IInv'
  BY <1>1, <1>3, CreateKeeps, ReleaseKeeps
<1>4. ASSUME NEW h \in Handler, NEW k \in Inputs, NEW ids \in [1..k -> Token],
             Prefill(h, ids) \/ PrefillAfterReset(h, ids)
      PROVE  IInv'
  BY <1>1, <1>4, PrefillKeeps, PrefillAfterResetKeeps
<1>5. ASSUME NEW h \in Handler, NEW id \in Token, Decode(h, id) PROVE IInv'
  BY <1>1, <1>5, DecodeKeeps
<1>6. ASSUME NEW h \in Handler, NEW n \in 0..MaxTokens, SetCurrentStep(h, n) PROVE IInv'
  <2>1. n \in Nat
    BY BoundsAssumption
  <2>2. QED
    BY <1>1, <1>6, <2>1, SetCurrentStepKeeps
<1>7. ASSUME NEW h \in Handler, NEW c \in Handler,
             CloneContextHandler(h, c) \/ CloneLoaded(h, c)
      PROVE  IInv'
  BY <1>1, <1>7, CloneKeeps
<1>8. ASSUME NEW h \in Handler, NEW c \in Handler, NEW n \in 0..MaxTokens, FinishClone(h, c, n)
      PROVE  IInv'
  <2>1. n \in Nat
    BY BoundsAssumption
  <2>2. QED
    BY <1>1, <1>8, <2>1, FinishKeeps
<1>9. QED
  BY <1>1, <1>2, <1>3, <1>4, <1>5, <1>6, <1>7, <1>8 DEF Next

\* The invariant: types, one place for what each handler holds, and of each session
\* that its step is in its tokens and that they are what it said and heard.
LEMMA InvariantAlways ==
  ASSUME Uses = {}
  PROVE  Spec => []IInv
<1>1. Init => IInv
  BY InitHolds
<1>2. IInv /\ [Next]_vars => IInv'
  BY NextKeeps
<1>3. QED
  BY <1>1, <1>2, PTL DEF Spec

\* Every variable of the contexts has its type, and no context is given out twice.
THEOREM TypeCorrect ==
  ASSUME Uses = {}
  PROVE  Spec => []TypeOK
<1>1. IInv => TypeOK
  BY DEF IInv
<1>2. Spec => []IInv
  BY InvariantAlways
<1>3. QED
  BY <1>1, <1>2, PTL

\* However many handlers are swapped, cloned, separated and released, what one holds is
\* in exactly one place (resource_manager.cc:652-755).
THEOREM AlwaysHeldOnce ==
  ASSUME Uses = {}
  PROVE  Spec => []HeldOnce
<1>1. IInv => HeldOnce
  BY DEF IInv
<1>2. Spec => []IInv
  BY InvariantAlways
<1>3. QED
  BY <1>1, <1>2, PTL

\* Sessions that share an executor and, as clones, their tokens cannot tell: each has what
\* it said and heard itself, up to where it was rewound, as long as no input begins with
\* what was cut, and no reset empties shared tokens.
THEOREM AlwaysPrivate ==
  ASSUME Uses = {}
  PROVE  Spec => []SessionsArePrivate
<1>1. ASSUME IInv, NEW h \in live PROVE TokensOf(h) = said[h]
  BY <1>1 DEF IInv, Good, Held, StepOf, TokensOf
<1>2. IInv => SessionsArePrivate
  BY <1>1 DEF SessionsArePrivate
<1>3. Spec => []IInv
  BY InvariantAlways
<1>4. QED
  BY <1>2, <1>3, PTL
=============================================================================
