------------------------------- MODULE Intake -------------------------------
(***************************************************************************)
(* What the loop of the channel surface promises about the events its      *)
(* listeners send it: they are forwarded in the order they came in, each   *)
(* once, some of them merged with their immediate successors; and if any   *)
(* are lost, they are the oldest ones.                                     *)
(*                                                                         *)
(* ChannelSurface implements this module (ChannelSurface!IntakeSpec).      *)
(***************************************************************************)
EXTENDS Naturals, Sequences, SequencesExt

CONSTANTS Message,    \* everything that may be sent
          Batch       \* the sequences that may be forwarded as one event

VARIABLES todo,       \* sent, neither forwarded nor lost yet
          forwarded,  \* the batches forwarded so far, in order
          gone        \* messages lost

intakeVars == <<todo, forwarded, gone>>

IInit ==
    /\ todo = <<>>
    /\ forwarded = <<>>
    /\ gone = {}

Sent == {m \in Message : \E i \in DOMAIN forwarded : m \in ToSet(forwarded[i])}

Known == ToSet(todo) \cup Sent \cup gone

Arrive(m) ==
    /\ m \notin Known
    /\ todo' = Append(todo, m)
    /\ UNCHANGED <<forwarded, gone>>

Forward(n) ==
    /\ SubSeq(todo, 1, n) \in Batch
    /\ forwarded' = Append(forwarded, SubSeq(todo, 1, n))
    /\ todo' = SubSeq(todo, n + 1, Len(todo))
    /\ UNCHANGED gone

\* A prefix is lost: what was being collected, or all of it.
Lose(n) ==
    /\ gone' = gone \cup ToSet(SubSeq(todo, 1, n))
    /\ todo' = SubSeq(todo, n + 1, Len(todo))
    /\ UNCHANGED forwarded

INext ==
    \/ \E m \in Message : Arrive(m)
    \/ \E n \in 1 .. Len(todo) : Forward(n) \/ Lose(n)

ISpec == IInit /\ [][INext]_intakeVars
=============================================================================
