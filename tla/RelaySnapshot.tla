--------------------------- MODULE RelaySnapshot ---------------------------
(***************************************************************************)
(* A reader of relay.stats() beside the relay: RelayStats::snapshot loads  *)
(* the counters one after the other while run loops and tasks move them.   *)
(* Loads are sequentially consistent here; the Relaxed ordering the code   *)
(* asks for allows more, not less.                                         *)
(***************************************************************************)
EXTENDS Relay, Sequences

VARIABLE loaded    \* the values loaded so far, in the order of the fields

snapshotVars == <<vars, loaded>>

\* accepted, rejected, active, completed, failed
Fields == statVars

SnapshotInit == Init /\ loaded = <<>>

Load == /\ Len(loaded) < Len(Fields)
        /\ loaded' = Append(loaded, Fields[Len(loaded) + 1])
        /\ UNCHANGED vars

\* The caller looks at a finished snapshot and takes the next one.
Reload == /\ Len(loaded) = Len(Fields)
          /\ loaded' = <<>>
          /\ UNCHANGED vars

SnapshotNext == \/ Next /\ UNCHANGED loaded
                \/ Load
                \/ Reload

SnapshotSpec == SnapshotInit /\ [][SnapshotNext]_snapshotVars

-----------------------------------------------------------------------------
\* The test forwarding_relay_round_trips_data_tracks_stats_and_cancels polls
\* until a snapshot shows the one connection completed and asserts on that
\* same snapshot that none is active: with one connection, completed = 1
\* means active = 0.
CompletedNotActive ==
    Len(loaded) = Len(Fields) /\ loaded[4] = Cardinality(Conns)
        => loaded[3] = 0

=============================================================================
