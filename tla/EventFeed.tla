----------------------------- MODULE EventFeed ------------------------------
(***************************************************************************)
(* What GET /v1/events promises to a client that tails it: there is one    *)
(* log, it only grows at its end, and what the client has read is always   *)
(* a prefix of it.                                                         *)
(***************************************************************************)
EXTENDS Sequences, Naturals

CONSTANTS Event, Client

VARIABLES log,    \* the events of the business, in feed order
          got     \* got[c]: the events client c has read

feed == <<log, got>>

Entries(s) == {s[n] : n \in DOMAIN s}

Publish(v) == /\ v \notin Entries(log)
              /\ log' = Append(log, v)
              /\ UNCHANGED got

Read(c) == \E n \in DOMAIN log :
              /\ got[c] \subseteq Entries(SubSeq(log, 1, n))
              /\ got' = [got EXCEPT ![c] = Entries(SubSeq(log, 1, n))]
              /\ UNCHANGED log

FeedInit == log = <<>> /\ got = [c \in Client |-> {}]

FeedNext == (\E v \in Event : Publish(v)) \/ (\E c \in Client : Read(c))

FeedSpec == FeedInit /\ [][FeedNext]_feed

=============================================================================
