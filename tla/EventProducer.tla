--------------------------- MODULE EventProducer ---------------------------
(***************************************************************************)
(* An AvroProducer (package event) and the Kafka producer behind its       *)
(* output channel.  A handler hands an event over by a blocking send on    *)
(* the channel; the Kafka client, which is not part of the repository,     *)
(* takes events from it in order and either gets them onto the topic or    *)
(* reports an error, which the service only logs.                          *)
(***************************************************************************)
EXTENDS Naturals, Sequences

CONSTANTS
  Event,     \* the events this producer may carry
  ChanCap    \* number of events the channel and the client hold undelivered

VARIABLES
  out,       \* the output channel
  topic      \* the events delivered to the topic

Init == out = <<>> /\ topic = {}

\* marshalAndSendEvent, when marshalling succeeds: the send blocks while the
\* channel is full.
Send(e) ==
  /\ Len(out) < ChanCap
  /\ out' = Append(out, e)
  /\ UNCHANGED topic

\* The Kafka client delivers the oldest event.
Deliver ==
  /\ out # <<>>
  /\ out' = Tail(out)
  /\ topic' = topic \cup {Head(out)}

\* The Kafka client fails to deliver it: LogErrors logs the error and the event
\* is gone.
Drop ==
  /\ out # <<>>
  /\ out' = Tail(out)
  /\ UNCHANGED topic

\* The events a handler has successfully handed over and that are not lost.
Accepted == topic \cup {out[i] : i \in DOMAIN out}

TypeOK ==
  /\ out \in Seq(Event)
  /\ Len(out) <= ChanCap
  /\ topic \subseteq Event
=============================================================================
