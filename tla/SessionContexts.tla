--------------------------- MODULE SessionContexts ---------------------------
(***************************************************************************)
(* ResourceManager (runtime/framework/resource_management/                 *)
(* resource_manager.cc): the contexts of sessions, which share one         *)
(* executor.  A clone shares the tokens of its source, each with a step of *)
(* its own, until one of them has to cut what the other still needs.       *)
(* context and the saved ones hold is from how the code uses them: the     *)
(* context handlers are not under src/.                                    *)
(***************************************************************************)
EXTENDS Naturals, Sequences, FiniteSets

CONSTANTS
  Handler,     \* context handlers, one for a session
  Token,
  MaxTokens,   \* bound: tokens of a session
  Inputs,      \* lengths of a prefill's input
  Uses,        \* which of "match" and "reset" the sessions do, see Prefill
  Nobody, Nothing

ASSUME HandlerAssumption == IsFiniteSet(Handler)
ASSUME BoundsAssumption == MaxTokens \in Nat /\ Inputs \subseteq Nat \ {0}
ASSUME UsesAssumption == Uses \subseteq {"match", "reset"}
ASSUME NobodyAssumption == Nobody \notin Handler
ASSUME NothingAssumption == Nothing \notin Seq(Token) \cup Nat

VARIABLES
  live,              \* handlers that sessions have
  current_handler_,  \* whose context the executor has loaded
  executor,          \* llm_context_: processed tokens, the pending one included, and current step
  context,           \* the SharedProcessedContext of a handler
  saved_tokens,      \* what a SharedProcessedContext holds, unless it is loaded
  saved_step,        \* the RuntimeState a handler holds, unless it is loaded
  cloning,           \* the clone under way: of whom, for whom, the step read so far
  said,              \* history: the tokens each session has said and heard
  copied             \* history: what the clone's source had when its step was read

vars == <<live, current_handler_, executor, context, saved_tokens, saved_step, cloning,
          said, copied>>

\* What each session may believe it has.
Private == INSTANCE PrivateTokens WITH tokens <- said

\* One for each handler, and one that is free.
Context == 1..(Cardinality(Handler) + 1)

Init ==
  /\ Private!Init /\ current_handler_ = Nobody
  /\ executor = [tokens |-> <<>>, step |-> 0]
  /\ context = [h \in Handler |-> 1]
  /\ saved_tokens = [c \in Context |-> Nothing] /\ saved_step = [h \in Handler |-> Nothing]
  /\ cloning = <<>>

\* The executor keeps the handler it has loaded alive.
Handlers == live \cup ({current_handler_} \cap Handler)
Fresh == CHOOSE c \in Context : \A h \in Handlers : context[h] # c

\* What is left of contexts and steps when only the handlers in alive are: what
\* nobody shares is freed.
Hold(alive, of, tokens, steps) ==
  /\ context' = [h \in Handler |-> IF h \in alive THEN of[h] ELSE 1]
  /\ saved_step' = [h \in Handler |-> IF h \in alive THEN steps[h] ELSE Nothing]
  /\ saved_tokens' =
       [c \in Context |-> IF \E h \in alive : of[h] = c THEN tokens[c] ELSE Nothing]

-----------------------------------------------------------------------------
(* LlmLiteRtCompiledModelExecutor *)

\* RollBackProcessedTokens, then the new tokens.  The step that the parameters
\* of a prefill give is not looked at.  This is the static executor: the dynamic one
\* keeps a first token that comes alone as pending (1829-1834) and does not count it yet.
Extended(e, ids) ==
  [tokens |-> SubSeq(e.tokens, 1, e.step) \o ids, step |-> e.step + Len(ids)]

Settable(e, n) == n <= e.step

SteppedBefore(e, n) == [e EXCEPT !.step = n - 1]               \* mutant
Stepped(e, n) == [e EXCEPT !.step = n]

-----------------------------------------------------------------------------
CreateContextHandler(h) ==
  /\ h \notin Handlers /\ (cloning # <<>> => h # cloning[2])
  /\ Private!Create(h)
  /\ context' = [context EXCEPT ![h] = Fresh]
  /\ saved_tokens' = [saved_tokens EXCEPT ![Fresh] = <<>>]
  /\ saved_step' = [saved_step EXCEPT ![h] = 0]
  /\ UNCHANGED <<current_handler_, executor, cloning>>

\* AcquireExecutorWithContextHandler: what the executor, the contexts and the
\* handlers hold once h is loaded.
Acquired(h) ==
  LET old == current_handler_
      left == IF old = Nobody THEN saved_step ELSE [saved_step EXCEPT ![old] = executor.step]
      put == IF old = Nobody THEN saved_tokens
             ELSE [saved_tokens EXCEPT ![context[old]] = executor.tokens]
  IN  IF h = old
      THEN [executor |-> executor, step |-> saved_step, tokens |-> saved_tokens]
      ELSE IF old # Nobody /\ context[h] = context[old]
      THEN [executor |-> [executor EXCEPT !.step = left[h]],
            step |-> [left EXCEPT ![h] = Nothing], tokens |-> saved_tokens]
      ELSE [executor |-> [tokens |-> put[context[h]], step |-> left[h]],
            step |-> [left EXCEPT ![h] = Nothing],
            tokens |-> [put EXCEPT ![context[h]] = Nothing]]

\* LongestHandlerTimeStep of the context that h, loaded, shares is n.
LongestStep(h, e, steps, n) ==
  LET All == {e.step} \cup {steps[g] : g \in {g \in live \ {h} : context[g] = context[h]}}
  IN  n \in All /\ \A m \in All : m <= n

NeverSeparate(h, a, step) == FALSE                             \* mutant

MustSeparate(h, a, step) == ~LongestStep(h, a.executor, a.step, step)

\* With h loaded as a says, the executor becomes e; with separate, the tokens stay
\* with the other handlers and h has a context to itself.
Become(h, a, e, separate) ==
  /\ current_handler_' = h /\ executor' = e
  /\ IF separate
     THEN Hold(live, [context EXCEPT ![h] = Fresh],
               [a.tokens EXCEPT ![context[h]] = a.executor.tokens, ![Fresh] = Nothing], a.step)
     ELSE Hold(live, context, a.tokens, a.step)
  /\ UNCHANGED cloning

\* RemoveMatchingTokens: how many of ids are processed already.
Matching(e, ids) ==
  LET rest == SubSeq(e.tokens, e.step + 1, Len(e.tokens))
      Same(n) == n <= Len(rest) /\ n <= Len(ids) /\ SubSeq(ids, 1, n) = SubSeq(rest, 1, n)
  IN  CHOOSE n \in 0..Len(ids) : Same(n) /\ ~Same(n + 1)

\* LockedLlmExecutor::Prefill.  Without "match", the input never begins as the
\* tokens past the step do.  It is a task, as a decode and a clone are, and one
\* thread runs the tasks.
Prefill(h, ids) ==
  LET a == Acquired(h)
      e == a.executor
      n == Matching(e, ids)
      rest == SubSeq(ids, n + 1, Len(ids))
      step == e.step + n
      separate == MustSeparate(h, a, step)
      cut == ~(Len(e.tokens) \in {e.step, step} /\ rest # <<>>)
  IN  /\ h \in live /\ cloning = <<>> /\ e.step + Len(ids) <= MaxTokens
      /\ "match" \in Uses \/ n = 0
      /\ IF cut /\ ~Settable(e, step)
         THEN Become(h, a, e, rest # <<>> /\ separate) /\ UNCHANGED <<live, said, copied>>
         ELSE /\ Become(h, a, IF cut THEN Extended(Stepped(e, step), rest) ELSE Extended(e, rest),
                        cut /\ rest # <<>> /\ separate)
              /\ Private!Extend(h, ids)

\* With force_kv_reset_before_prefill the executor is reset before.  Without
\* "reset", no other handler shares the tokens.
PrefillAfterReset(h, ids) ==
  LET a == Acquired(h) IN
  /\ h \in live /\ cloning = <<>> /\ Len(ids) <= MaxTokens
  /\ "reset" \in Uses \/ \A g \in live \ {h} : context[g] # context[h]
  /\ Become(h, a, [tokens |-> ids, step |-> Len(ids)], FALSE)
  /\ Private!StartAgain(h, ids)

\* Decode, for one token: what is past the step is cut first.
Decode(h, id) ==
  LET a == Acquired(h)
      e == a.executor
  IN  /\ h \in live /\ cloning = <<>> /\ e.step \in 1..(MaxTokens - 1)
      /\ Become(h, a, Extended(e, <<id>>),
                Len(e.tokens) # e.step /\ MustSeparate(h, a, e.step))
      /\ Private!Extend(h, <<id>>)

\* ThreadedExecutionManager::SetCurrentStep, and GetCurrentStep if n is the step:
\* called by the sessions' threads, whatever the thread of the tasks does.
SetCurrentStep(h, n) ==
  LET a == Acquired(h) IN
  /\ h \in live
  /\ IF n <= a.executor.step
     THEN Become(h, a, Stepped(a.executor, n), FALSE) /\ Private!Rewind(h, n)
     ELSE Become(h, a, a.executor, FALSE) /\ UNCHANGED <<live, said, copied>>

\* The session goes, once its own tasks have ended; the handler too, unless it is
\* loaded.
Release(h) ==
  /\ h \in live /\ (cloning # <<>> => h # cloning[1])
  /\ Private!Release(h)
  /\ Hold(Handlers \ ({h} \ {current_handler_}), context, saved_tokens, saved_step)
  /\ UNCHANGED <<current_handler_, executor, cloning>>

-----------------------------------------------------------------------------
(* A clone, of h for c, has the executor's lock at most while it reads the *)
(* step; sessions come, go and are rewound while it is under way.          *)

\* A handler that has a state is read without the lock.
CloneContextHandler(h, c) ==
  /\ h \in live /\ c \notin Handlers /\ cloning = <<>>
  /\ cloning' = <<h, c, saved_step[h]>>
  /\ IF saved_step[h] # Nothing THEN Private!Copy(h) ELSE UNCHANGED <<live, said, copied>>
  /\ UNCHANGED <<current_handler_, executor, context, saved_tokens, saved_step>>

\* With the lock: the clone fails if another handler has been loaded meanwhile.
CloneLoaded(h, c) ==
  /\ cloning = <<h, c, Nothing>>
  /\ IF current_handler_ = h
     THEN cloning' = <<h, c, executor.step>> /\ Private!Copy(h)
     ELSE cloning' = <<>> /\ UNCHANGED <<live, said, copied>>
  /\ UNCHANGED <<current_handler_, executor, context, saved_tokens, saved_step>>

BundledByMove(h, c, step) ==                                   \* mutant
  /\ context' = [context EXCEPT ![c] = context[h]]
  /\ saved_step' = [saved_step EXCEPT ![c] = step, ![h] = Nothing]

Bundled(h, c, step) ==
  /\ context' = [context EXCEPT ![c] = context[h]]
  /\ saved_step' = [saved_step EXCEPT ![c] = step]

\* The shared context is read with no lock.  The clone comes too late if its session
\* has been released, or the state was taken from the handler before it was read.
FinishClone(h, c, step) ==
  /\ cloning = <<h, c, step>> /\ cloning' = <<>>
  /\ \/ Private!Clone(c) /\ Bundled(h, c, step)
     \/ Private!Abandon /\ UNCHANGED <<context, saved_step>>
  /\ UNCHANGED <<current_handler_, executor, saved_tokens>>

-----------------------------------------------------------------------------
Next ==
  \E h \in Handler :
    \/ CreateContextHandler(h) \/ Release(h)
    \/ \E k \in Inputs : \E ids \in [1..k -> Token] : Prefill(h, ids) \/ PrefillAfterReset(h, ids)
    \/ \E id \in Token : Decode(h, id)
    \/ \E n \in 0..MaxTokens : SetCurrentStep(h, n)
    \/ \E c \in Handler : CloneContextHandler(h, c) \/ CloneLoaded(h, c)
    \/ \E c \in Handler : \E step \in 0..MaxTokens : FinishClone(h, c, step)

Spec == Init /\ [][Next]_vars

-----------------------------------------------------------------------------
\* What a session has said and heard, as its handler gives it back.
TokensOf(h) ==
  LET loaded == current_handler_ # Nobody /\ context[h] = context[current_handler_]
      all == IF loaded THEN executor.tokens ELSE saved_tokens[context[h]]
      step == IF h = current_handler_ THEN executor.step ELSE saved_step[h]
  IN  IF h \in live THEN SubSeq(all, 1, step) ELSE <<>>

\* Every variable has its type.
TypeOK ==
  /\ live \subseteq Handler /\ current_handler_ \in Handler \cup {Nobody}
  /\ executor \in [tokens : Seq(Token), step : Nat]
  /\ context \in [Handler -> Context]
  /\ saved_tokens \in [Context -> Seq(Token) \cup {Nothing}]
  /\ saved_step \in [Handler -> Nat \cup {Nothing}]
  /\ said \in [Handler -> Seq(Token)] /\ copied \in Seq(Token)
  /\ cloning \in {<<>>} \cup (Handler \X Handler \X (Nat \cup {Nothing}))

\* What a handler holds is in exactly one place, the executor or the handler and
\* its context, however handlers are swapped, cloned and separated.
HeldOnce ==
  \A h \in Handlers :
    /\ (saved_step[h] = Nothing) <=> (h = current_handler_)
    /\ (saved_tokens[context[h]] = Nothing) <=>
         (current_handler_ # Nobody /\ context[h] = context[current_handler_])

\* Sessions that share tokens and an executor cannot tell: each has the tokens that
\* it said and heard itself, up to where it was rewound.
SessionsArePrivate == \A h \in live : TokensOf(h) = said[h]
=============================================================================
