------------------------------ MODULE ClientLink -------------------------------
(***************************************************************************)
(* The connection of packages/client as the objects on top of it see it:   *)
(* it is connected or not, and frames are on their way in order.  A socket *)
(* that is lost takes with it what was on its way; the next one is another *)
(* connection to the server.  MtwConnection has how this comes about.      *)
(***************************************************************************)
EXTENDS Naturals, SequencesExt

CONSTANTS MaxEras,     \* bound: connections, one after the other
          MaxUnderWay  \* bound: frames on their way to the client

ASSUME LinkAssumption == MaxEras \in Nat \ {0} /\ MaxUnderWay \in Nat

VARIABLES
    linkUp,    \* connection.connected
    era,       \* which connection it is
    uplink,    \* frames on their way to the server ...
    downlink   \* ... and to the client

linkVars == <<linkUp, era, uplink, downlink>>

LinkTypeOK ==
    /\ linkUp \in BOOLEAN /\ era \in 1..MaxEras
    /\ ~linkUp => uplink = <<>> /\ downlink = <<>>

LinkInit == linkUp = TRUE /\ era = 1 /\ uplink = <<>> /\ downlink = <<>>

Bring(frame) ==
    /\ linkUp /\ Len(downlink) < MaxUnderWay
    /\ downlink' = Append(downlink, frame)

LinkLost ==
    /\ linkUp /\ linkUp' = FALSE
    /\ uplink' = <<>> /\ downlink' = <<>>
    /\ UNCHANGED era

LinkRestored ==
    /\ ~linkUp /\ era < MaxEras
    /\ linkUp' = TRUE /\ era' = era + 1
    /\ UNCHANGED <<uplink, downlink>>

===============================================================================
