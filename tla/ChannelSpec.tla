----------------------------- MODULE ChannelSpec -----------------------------
(***************************************************************************)
(* What an mpsc channel promises, whatever it does inside: values stand in *)
(* one line and leave it only from its head.  A prefix of the line has     *)
(* been accepted; an accepted value is delivered or stays in the line,     *)
(* even when the channel closes.  A value that still waits for acceptance  *)
(* may be withdrawn, and closing withdraws all of those.  Values are       *)
(* accepted in the order in which they joined the line.                    *)
(***************************************************************************)
EXTENDS Naturals, Sequences, SequencesExt

CONSTANT Values

VARIABLES
  line,       \* the values in the channel, oldest first
  accepted,   \* length of the accepted prefix of the line
  delivered,  \* the values handed to the consumer, in order
  open        \* FALSE once the channel has closed

vars == <<line, accepted, delivered, open>>

Init ==
  /\ line = <<>>
  /\ accepted = 0
  /\ delivered = <<>>
  /\ open = TRUE

Fresh(v) == v \notin Range(line) \cup Range(delivered)

\* A value joins the line and, when nobody waits before it, may be accepted.
Join(v) ==
  /\ open /\ Fresh(v)
  /\ line' = Append(line, v)
  /\ \/ accepted' = accepted
     \/ accepted = Len(line) /\ accepted' = accepted + 1
  /\ UNCHANGED <<delivered, open>>

\* A value that finds the line empty goes straight to a waiting consumer.
Handover(v) ==
  /\ open /\ Fresh(v)
  /\ line = <<>>
  /\ delivered' = Append(delivered, v)
  /\ UNCHANGED <<line, accepted, open>>

\* The head of the line is delivered; the next waiting value may be accepted.
Deliver ==
  /\ line # <<>>
  /\ delivered' = Append(delivered, Head(line))
  /\ line' = Tail(line)
  /\ \/ accepted > 0 /\ accepted' = accepted - 1
     \/ accepted < Len(line) /\ accepted' = accepted
  /\ UNCHANGED open

Withdraw ==
  /\ \E i \in (accepted + 1)..Len(line) : line' = RemoveAt(line, i)
  /\ UNCHANGED <<accepted, delivered, open>>

Close ==
  /\ open
  /\ open' = FALSE
  /\ line' = SubSeq(line, 1, accepted)
  /\ UNCHANGED <<accepted, delivered>>

Next ==
  \/ \E v \in Values : Join(v) \/ Handover(v)
  \/ Deliver \/ Withdraw \/ Close

Spec == Init /\ [][Next]_vars
=============================================================================
