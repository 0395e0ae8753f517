---------------------------- MODULE CommandSlot ----------------------------
(***************************************************************************)
(* What the Gateway promises for commands that arrive over MQTT: one slot. *)
(* A command that cannot be sent at once occupies it, and no other command *)
(* is accepted until it has been sent, or dropped after a first failed     *)
(* attempt and MaxRetries failed retries, or lost with the process.        *)
(***************************************************************************)
EXTENDS Naturals

CONSTANTS
    Commands,
    MaxRetries, \* a natural number
    None        \* no command

VARIABLES slot,   \* the command that waits
          tries,  \* how often sending it has failed
          fate    \* how the last command left the Gateway

vars == <<slot, tries, fate>>

Fates == {"none", "sent", "dropped", "lost"}

Init ==
    /\ slot = None
    /\ tries = 0
    /\ fate = "none"

SendAtOnce ==
    /\ slot = None
    /\ fate' = "sent"
    /\ UNCHANGED <<slot, tries>>

\* Kept because the mesh is not ready, or because the first attempt failed.
Defer(c) ==
    /\ slot = None
    /\ slot' = c
    /\ tries' \in {0, 1}
    /\ UNCHANGED fate

FailAgain ==
    /\ slot # None
    /\ tries < MaxRetries
    /\ tries' = tries + 1
    /\ UNCHANGED <<slot, fate>>

Leave(how) ==
    /\ slot # None
    /\ slot' = None
    /\ tries' = 0
    /\ fate' = how

Send == Leave("sent")
Drop == tries = MaxRetries /\ Leave("dropped")
Lose == Leave("lost")

\* A command that kills the process before it is accepted, or while it is sent
\* at once, is lost as well.
LoseAtOnce ==
    /\ slot = None
    /\ fate' = "lost"
    /\ UNCHANGED <<slot, tries>>

Next ==
    \/ SendAtOnce
    \/ \E c \in Commands : Defer(c)
    \/ FailAgain
    \/ Send
    \/ Drop
    \/ Lose
    \/ LoseAtOnce

Spec == Init /\ [][Next]_vars
=============================================================================
