---------------------------- MODULE BrigadeInbox ----------------------------
(***************************************************************************)
(* What a task's mailbox promises whoever sends to it                      *)
(* (lisp/cmacs/cmacs-brigade-mailbox.el): a message waits in a queue until *)
(* it is handed to the agent, from the head, or taken back by somebody.    *)
(***************************************************************************)
EXTENDS Naturals, Sequences

CONSTANT Tasks

VARIABLES
  mail,       \* task -> messages waiting, oldest first
  delivered,  \* task -> messages handed to the agent, in order
  dropped,    \* messages taken back
  sent        \* how many messages have been sent; message i is the i-th

vars == <<mail, delivered, dropped, sent>>

Elements(q) == {q[i] : i \in DOMAIN q}

\* q is p with some elements taken out.
Thinned(q, p) ==
  \E f \in [DOMAIN q -> DOMAIN p] :
    /\ \A i, j \in DOMAIN q : i < j => f[i] < f[j]
    /\ \A i \in DOMAIN q : q[i] = p[f[i]]

Init ==
  /\ mail = [t \in Tasks |-> <<>>]
  /\ delivered = [t \in Tasks |-> <<>>]
  /\ dropped = {}
  /\ sent = 0

Send(t) ==
  /\ sent' = sent + 1
  /\ mail' = [mail EXCEPT ![t] = Append(@, sent + 1)]
  /\ UNCHANGED <<delivered, dropped>>

Deliver(t) ==
  /\ mail[t] # <<>>
  /\ mail' = [mail EXCEPT ![t] = Tail(@)]
  /\ delivered' = [delivered EXCEPT ![t] = Append(@, Head(mail[t]))]
  /\ UNCHANGED <<dropped, sent>>

Drop(t, q) ==
  /\ Thinned(q, mail[t])
  /\ mail' = [mail EXCEPT ![t] = q]
  /\ dropped' = dropped \cup (Elements(mail[t]) \ Elements(q))
  /\ UNCHANGED <<delivered, sent>>

Next ==
  \E t \in Tasks :
    \/ Send(t)
    \/ Deliver(t)
    \/ Drop(t, mail'[t])

Spec == Init /\ [][Next]_vars
=============================================================================
