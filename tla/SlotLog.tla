------------------------------ MODULE SlotLog -------------------------------
(***************************************************************************)
(* What numbered slots promise to the two ends of a stream of documents:   *)
(* one log, written at its end and never changed, of which the reader      *)
(* takes every entry once, in order, and of which the sender says that     *)
(* something was sent only when it is there.                               *)
(***************************************************************************)
EXTENDS Sequences, Naturals

CONSTANTS Doc, Readable, Nothing

VARIABLES
  log,     \* the documents, slot 0 first
  sent,    \* document -> a slot it is in, or Nothing
  read,    \* how many slots the reader has passed
  inbox    \* the slots taken in, each with its document

Init ==
  /\ log = <<>>
  /\ sent = [d \in Doc |-> Nothing]
  /\ read = 0
  /\ inbox = {}

Write(d) == log' = Append(log, d) /\ UNCHANGED <<sent, read, inbox>>

Confirm(d) ==
  /\ \E i \in 1..Len(log) : log[i] = d /\ sent' = [sent EXCEPT ![d] = i - 1]
  /\ UNCHANGED <<log, read, inbox>>

Read ==
  /\ read < Len(log)
  /\ read' = read + 1
  /\ inbox' = inbox \cup {e \in {<<read, log[read + 1]>>} : e[2] \in Readable}
  /\ UNCHANGED <<log, sent>>

Next == Read \/ \E d \in Doc : Write(d) \/ Confirm(d)

Spec == Init /\ [][Next]_<<log, sent, read, inbox>>
=============================================================================
