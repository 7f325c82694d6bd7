----------------------------- MODULE AtomicFile -----------------------------
(***************************************************************************)
(* What durable_writer.h promises of one file: a write puts the whole new  *)
(* content in place of the old at one instant, a creation does so only if  *)
(* there is no file, and what a call has answered OK for is on the medium. *)
(* A power loss may take away the newest versions, of which no call has    *)
(* answered OK.                                                            *)
(***************************************************************************)
EXTENDS Naturals, Sequences

CONSTANTS
  Writer,      \* callers, of any process
  CallsOf      \* CallsOf[w]: the calls w may make

VARIABLES
  versions,    \* the contents the file has had, the last being the present one
  durable,     \* how many of them are on the medium
  request,     \* request[w]: the call w waits for, or what came of it, or Idle
  answer       \* answer[w]: what w's last call returned

vars == <<versions, durable, request, answer>>

Idle == [op |-> "idle"]
Published(n) == [op |-> "published", version |-> n]

Init ==
  /\ versions = <<>> /\ durable = 0
  /\ request = [w \in Writer |-> Idle]
  /\ answer = [w \in Writer |-> "none"]

Call(w) ==
  /\ request[w] = Idle
  /\ \E c \in CallsOf[w] : request' = [request EXCEPT ![w] = c]
  /\ UNCHANGED <<versions, durable, answer>>

\* The new content takes the place of the old.
Publish(w) ==
  /\ \/ request[w].op = "replace"
     \/ request[w].op = "create" /\ versions = <<>>
  /\ versions' = Append(versions, request[w].value)
  /\ request' = [request EXCEPT ![w] = Published(Len(versions'))]
  /\ UNCHANGED <<durable, answer>>

\* A creation that finds a file refuses.
Refuse(w) ==
  /\ request[w].op = "create" /\ versions # <<>>
  /\ request' = [request EXCEPT ![w] = [op |-> "refused"]]
  /\ UNCHANGED <<versions, durable, answer>>

\* The medium catches up, at any time.
Persist ==
  /\ durable' \in durable..Len(versions)
  /\ UNCHANGED <<versions, request, answer>>

Answer(w, a) ==
  /\ request' = [request EXCEPT ![w] = Idle]
  /\ answer' = [answer EXCEPT ![w] = a]
  /\ UNCHANGED <<versions, durable>>

Return(w) ==
  \/ /\ request[w].op = "published" /\ request[w].version <= durable
     /\ Answer(w, "ok")
  \/ /\ request[w].op = "refused"
     /\ Answer(w, "exists")

\* An error says nothing: the new version may be there or not.
Fail(w) == request[w] # Idle /\ Answer(w, "error")

PowerLoss ==
  /\ \E n \in durable..Len(versions) :
       versions' = SubSeq(versions, 1, n) /\ durable' = n
  /\ request' = [w \in Writer |-> Idle]
  /\ answer' = [w \in Writer |-> IF request[w] = Idle THEN answer[w] ELSE "error"]

Next ==
  \/ \E w \in Writer :
       Call(w) \/ Publish(w) \/ Refuse(w) \/ Return(w) \/ Fail(w)
  \/ Persist
  \/ PowerLoss

Spec == Init /\ [][Next]_vars
=============================================================================
