---------------------------- MODULE PrivateTokens ----------------------------
(***************************************************************************)
(* What the sessions of one engine may believe: each has tokens of its     *)
(* own, whatever the others do with the one executor there is.             *)
(***************************************************************************)
EXTENDS Naturals, Sequences

CONSTANTS Handler, Token, MaxTokens

VARIABLES
  live, tokens,
  copied   \* what the clone that is under way has taken

vars == <<live, tokens, copied>>

Init == live = {} /\ tokens = [h \in Handler |-> <<>>] /\ copied = <<>>

Create(h) ==
  /\ h \notin live /\ live' = live \cup {h} /\ UNCHANGED copied
  /\ tokens' = [tokens EXCEPT ![h] = <<>>]

\* A clone has what its source had at one moment, and may come later.
Copy(h) == h \in live /\ copied' = tokens[h] /\ UNCHANGED <<live, tokens>>

Clone(c) ==
  /\ c \notin live /\ live' = live \cup {c} /\ copied' = <<>>
  /\ tokens' = [tokens EXCEPT ![c] = copied]

Abandon == copied' = <<>> /\ UNCHANGED <<live, tokens>>

\* By a prefill or a decode.
Extend(h, ids) ==
  /\ h \in live /\ UNCHANGED <<live, copied>>
  /\ tokens' = [tokens EXCEPT ![h] = @ \o ids]

Rewind(h, n) ==
  /\ h \in live /\ n <= Len(tokens[h]) /\ UNCHANGED <<live, copied>>
  /\ tokens' = [tokens EXCEPT ![h] = SubSeq(@, 1, n)]

StartAgain(h, ids) ==
  /\ h \in live /\ UNCHANGED <<live, copied>>
  /\ tokens' = [tokens EXCEPT ![h] = ids]

Release(h) ==
  /\ h \in live /\ live' = live \ {h} /\ UNCHANGED copied
  /\ tokens' = [tokens EXCEPT ![h] = <<>>]
=============================================================================
