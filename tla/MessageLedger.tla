---------------------------- MODULE MessageLedger ----------------------------
(***************************************************************************)
(* What the messaging layer promises of a message, without queues, timers  *)
(* and acknowledgements: how many copies the broker still answers for, how *)
(* many runs go on for a copy it has taken back, and what came of the      *)
(* others.  A copy that is answered for ends by its effect, as a row of    *)
(* dlq_messages, or lost in one of the ways the layer has for it; more     *)
(* copies come only with redeliveries and republications.                  *)
(***************************************************************************)
EXTENDS Naturals

CONSTANTS Messages,
          Lossy      \* the broker or the table may refuse a copy, or forget it

VARIABLES published,
          owed,      \* copies the broker answers for
          stray,     \* runs whose copy the broker has taken back
          effects,   \* handler successes
          stored,    \* rows of dlq_messages
          lost,      \* copies given up
          again      \* redeliveries and republications

outcomes == <<effects, stored, lost>>
ledger == <<published, owed, stray, outcomes, again>>

None == [m \in Messages |-> 0]
More(count, m) == [count EXCEPT ![m] = @ + 1]
Less(count, m) == [count EXCEPT ![m] = @ - 1]

Init ==
    /\ published = {}
    /\ owed = None /\ stray = None
    /\ effects = None /\ stored = None /\ lost = None
    /\ again = None

Publish(m) ==
    /\ m \notin published
    /\ published' = published \cup {m}
    /\ owed' = More(owed, m)
    /\ UNCHANGED <<stray, outcomes, again>>

\* A copy is used up, or a run of one that was taken back goes to its end.
Spend(m) ==
    \/ owed[m] > 0 /\ owed' = Less(owed, m) /\ UNCHANGED stray
    \/ stray[m] > 0 /\ stray' = Less(stray, m) /\ UNCHANGED owed

Handle(m) ==
    /\ Spend(m)
    /\ effects' = More(effects, m)
    /\ UNCHANGED <<published, stored, lost, again>>

Store(m) ==
    /\ Spend(m)
    /\ stored' = More(stored, m)
    /\ UNCHANGED <<published, effects, lost, again>>

\* A copy that can be neither forwarded nor stored.
Lose(m) ==
    /\ Lossy
    /\ owed[m] > 0 /\ owed' = Less(owed, m)
    /\ lost' = More(lost, m)
    /\ UNCHANGED <<published, stray, effects, stored, again>>

\* A run of a copy that was taken back fails: with a new copy, or without.
Revive(m) ==
    /\ stray[m] > 0 /\ stray' = Less(stray, m)
    /\ owed' = More(owed, m)
    /\ UNCHANGED <<published, outcomes, again>>

Abandon(m) ==
    /\ stray[m] > 0 /\ stray' = Less(stray, m)
    /\ UNCHANGED <<published, owed, outcomes, again>>

\* An administrator puts a stored message back.
Republish(m) ==
    /\ stored[m] > 0
    /\ owed' = More(owed, m) /\ again' = More(again, m)
    /\ UNCHANGED <<published, stray, outcomes>>

\* The process ends with its runs; every copy that returns is a redelivery.
Crash ==
    /\ stray' = None
    /\ \A m \in Messages :
         owed[m] <= owed'[m] /\ owed'[m] + again[m] <= owed[m] + again'[m]
    /\ UNCHANGED <<published, outcomes>>

\* The broker takes its copies back, and may forget some, while the runs go on.
Disconnect ==
    /\ \A m \in Messages :
         /\ stray[m] <= stray'[m] /\ lost[m] <= lost'[m]
         /\ owed[m] + lost[m] <= owed'[m] + lost'[m]
         /\ owed'[m] + lost'[m] + stray'[m] + again[m]
              <= owed[m] + lost[m] + stray[m] + again'[m]
    /\ Lossy \/ UNCHANGED lost
    /\ UNCHANGED <<published, effects, stored>>

Next ==
    \/ \E m \in Messages :
         \/ Publish(m) \/ Handle(m) \/ Store(m) \/ Lose(m)
         \/ Revive(m) \/ Abandon(m) \/ Republish(m)
    \/ Crash
    \/ Disconnect

Spec == Init /\ [][Next]_ledger
=============================================================================
