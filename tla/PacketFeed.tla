----------------------------- MODULE PacketFeed -----------------------------
(***************************************************************************)
(* What a monitor promises the analyzers, whatever it reads from: a run    *)
(* owes them a list of packets, and hands these out one by one, in order,  *)
(* each once.  Only a monitor that samples leaves some out, and only a     *)
(* monitor whose process exits stops early.  A live monitor comes to owe   *)
(* more while it runs.                                                     *)
(***************************************************************************)
EXTENDS Naturals, Sequences, SequencesExt

VARIABLES
    phase,      \* "idle", "running" or "exited"
    sampling,   \* the run may leave packets out
    owed,       \* the packets the run owes, all different
    handed      \* those it has handed out

feed == <<phase, sampling, owed, handed>>

FeedInit == phase = "idle" /\ ~sampling /\ owed = <<>> /\ handed = <<>>

StartRun ==
    /\ phase = "idle" /\ phase' = "running"
    /\ sampling' \in BOOLEAN
    /\ IsInjective(owed')
    /\ handed' = <<>>

\* How far into what is owed the run has come
Reached == IF handed = <<>> THEN 0
           ELSE CHOOSE k \in DOMAIN owed : owed[k] = Last(handed)

OweMore ==
    /\ phase = "running"
    /\ IsStrictPrefix(owed, owed') /\ IsInjective(owed')
    /\ UNCHANGED <<phase, sampling, handed>>

HandOut ==
    /\ phase = "running"
    /\ \E k \in DOMAIN owed :
          /\ IF sampling THEN k > Reached ELSE k = Len(handed) + 1
          /\ handed' = Append(handed, owed[k])
    /\ UNCHANGED <<phase, sampling, owed>>

FinishRun ==
    /\ phase = "running" /\ phase' = "idle"
    /\ sampling \/ handed = owed
    /\ sampling' = FALSE /\ owed' = <<>> /\ handed' = <<>>

Exit ==
    /\ phase = "running" /\ phase' = "exited"
    /\ sampling' = FALSE /\ owed' = <<>> /\ handed' = <<>>

FeedNext == StartRun \/ OweMore \/ HandOut \/ FinishRun \/ Exit

FeedSpec == FeedInit /\ [][FeedNext]_feed
=============================================================================
