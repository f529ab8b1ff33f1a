---------------------------- MODULE LinkChannel ----------------------------
(***************************************************************************)
(* What the network path promises about the link between the adapter that  *)
(* notes its changes and the actor that believes them: a channel that      *)
(* keeps the order.  When more changes are on their way than it has room   *)
(* for it may lose one, and then says so, but it never reorders, repeats   *)
(* or invents one.                                                         *)
(***************************************************************************)
EXTENDS Integers, SequencesExt

CONSTANT Room          \* the changes that can wait without a loss

LinkStates == {"WIFI_UP", "WIFI_DOWN"}

VARIABLES noted,       \* the link state last noted
          flight,      \* the changes on their way, the oldest first
          believed,    \* the link state last heard of
          lost         \* whether a change was lost since the last start
vars == <<noted, flight, believed, lost>>

Init == noted = "WIFI_DOWN" /\ flight = <<>> /\ believed = "WIFI_DOWN" /\ lost = FALSE

\* Only a state other than the one last noted is a change.
Change ==
    /\ noted' \in LinkStates \ {noted}
    /\ flight' = Append(flight, noted')
    /\ UNCHANGED <<believed, lost>>

Hear ==
    /\ flight # <<>>
    /\ believed' = Head(flight) /\ flight' = Tail(flight)
    /\ UNCHANGED <<noted, lost>>

Lose ==
    /\ Len(flight) > Room
    /\ \E i \in DOMAIN flight : flight' = RemoveAt(flight, i)
    /\ lost' = TRUE
    /\ UNCHANGED <<noted, believed>>

\* Both ends start anew, but only because a change was lost.
Restart ==
    /\ lost
    /\ noted' = "WIFI_DOWN" /\ flight' = <<>> /\ believed' = "WIFI_DOWN" /\ lost' = FALSE

Next == Change \/ Hear \/ Lose \/ Restart

Spec == Init /\ [][Next]_vars

-----------------------------------------------------------------------------
(***************************************************************************)
(* Until a change is lost, the link states from what is believed, through  *)
(* the changes on their way, to what was noted alternate: the believer is  *)
(* behind but never on another track.                                      *)
(***************************************************************************)
InStep ==
    LET track == <<believed>> \o flight
    IN  ~lost => /\ track[Len(track)] = noted
                 /\ \A i \in 1..(Len(track) - 1) : track[i] # track[i + 1]
=============================================================================
