------------------------- MODULE MC_DocumentBroker -------------------------
(* Model values for checking DocumentBroker with TLC.                      *)
EXTENDS DocumentBroker

\* Two sessions: 1 may edit and is not the owner, 2 may edit and is.
MCSessions == {1, 2}
MCWriters == {1, 2}
MCOwners == {2}

\* Bound on the frames on the two kit sockets together: a slow kit lets the
\* autosave tick queue one more save after every timeout.
MaxInFlight == 3
ChannelBound == Len(toKit) + Len(fromKit) <= MaxInFlight
=============================================================================
