---------------------------- MODULE RelayProofs ----------------------------
(***************************************************************************)
(* RelayInv is inductive, and with it the counters of the relay balance,   *)
(* permits are conserved, at most one connection is accepted late, and a   *)
(* relay that is run once keeps its limit, for any finite set of           *)
(* connections and any limit.                                              *)
(***************************************************************************)
EXTENDS Relay, FiniteSetTheorems, TLAPS

One(condition) == IF condition THEN 1 ELSE 0

FailedConns == {c \in In({"recorded", "done"}) : result[c] \in Failing}

-----------------------------------------------------------------------------
(* Counting.  A step moves one connection; a count changes by what that    *)
(* connection brings and takes.                                            *)

\* Two sets that differ in c at most.
LEMMA CountOne ==
    ASSUME NEW A, NEW B, NEW c, IsFiniteSet(A), A \ {c} = B \ {c}
    PROVE  /\ Cardinality(A) \in Nat
           /\ IsFiniteSet(B)
           /\ Cardinality(B) = Cardinality(A) + One(c \in B) - One(c \in A)
<1>1. Cardinality(A) \in Nat
  BY FS_CardinalityType
<1>2. /\ IsFiniteSet(A \ {c})
      /\ Cardinality(A \ {c}) = IF c \in A THEN Cardinality(A) - 1 ELSE Cardinality(A)
  BY FS_RemoveElement
<1>3. CASE c \in B
  <2>1. B = (A \ {c}) \cup {c}
    BY <1>3
  <2>2. IsFiniteSet(B) /\ Cardinality(B) = Cardinality(A \ {c}) + 1
    BY <1>2, <2>1, FS_AddElement
  <2> QED BY <1>1, <1>2, <1>3, <2>2 DEF One
<1>4. CASE c \notin B
  <2>1. B = A \ {c}
    BY <1>4
  <2> QED BY <1>1, <1>2, <1>4, <2>1 DEF One
<1> QED BY <1>3, <1>4

\* The sets that are counted are finite.
LEMMA InFinite ==
    ASSUME NEW S
    PROVE  IsFiniteSet(In(S)) /\ Cardinality(In(S)) \in Nat
<1>1. In(S) \in SUBSET Conns
  BY DEF In
<1> QED BY <1>1, RelayAssumption, FS_Subset, FS_CardinalityType

\* The permit holders of a run are finitely many.
LEMMA HeldFinite ==
    ASSUME NEW r
    PROVE  IsFiniteSet(Held(r)) /\ Cardinality(Held(r)) \in Nat
<1>1. Held(r) \in SUBSET Conns
  BY DEF Held
<1> QED BY <1>1, RelayAssumption, FS_Subset, FS_CardinalityType

\* The connections recorded as failed are finitely many.
LEMMA FailedFinite == IsFiniteSet(FailedConns) /\ Cardinality(FailedConns) \in Nat
<1>1. FailedConns \in SUBSET Conns
  BY DEF FailedConns, In
<1> QED BY <1>1, RelayAssumption, FS_Subset, FS_CardinalityType

\* Connection c moves to p; results and owners of the others stay.
Moves(c, p) ==
    /\ cpc' = [cpc EXCEPT ![c] = p]
    /\ \A b \in Conns \ {c} : result'[b] = result[b] /\ owner'[b] = owner[b]

\* The count of the connections at a set of places.
LEMMA InMoves ==
    ASSUME TypeOK, NEW c \in Conns, NEW p, Moves(c, p), NEW S
    PROVE  /\ Cardinality(In(S)) \in Nat
           /\ Cardinality(In(S)') = Cardinality(In(S)) + One(p \in S) - One(cpc[c] \in S)
<1>1. In(S) \ {c} = In(S)' \ {c}
  BY DEF In, Moves, TypeOK
<1>2. (c \in In(S) <=> cpc[c] \in S) /\ (c \in In(S)' <=> p \in S)
  BY DEF In, Moves, TypeOK
<1>3. Cardinality(In(S)') = Cardinality(In(S)) + One(c \in In(S)') - One(c \in In(S))
  BY <1>1, InFinite, CountOne
<1> QED BY <1>2, <1>3, InFinite DEF One

\* The count of the permit holders of a run.
LEMMA HeldMoves ==
    ASSUME TypeOK, NEW c \in Conns, NEW p, Moves(c, p), NEW r \in Runs
    PROVE  /\ Cardinality(Held(r)) \in Nat
           /\ Cardinality(Held(r)') = Cardinality(Held(r))
                + One(owner'[c] = r /\ p \in Holding)
                - One(owner[c] = r /\ cpc[c] \in Holding)
<1>1. Held(r) \ {c} = Held(r)' \ {c}
  BY DEF Held, Moves, TypeOK
<1>2. /\ (c \in Held(r) <=> owner[c] = r /\ cpc[c] \in Holding)
      /\ (c \in Held(r)' <=> owner'[c] = r /\ p \in Holding)
  BY DEF Held, Moves, TypeOK
<1>3. Cardinality(Held(r)')
        = Cardinality(Held(r)) + One(c \in Held(r)') - One(c \in Held(r))
  BY <1>1, HeldFinite, CountOne
<1> QED BY <1>2, <1>3, HeldFinite DEF One

\* The count of the connections recorded as failed.
LEMMA FailedMoves ==
    ASSUME TypeOK, NEW c \in Conns, NEW p, Moves(c, p)
    PROVE  /\ Cardinality(FailedConns) \in Nat
           /\ Cardinality(FailedConns') = Cardinality(FailedConns)
                + One(p \in {"recorded", "done"} /\ result'[c] \in Failing)
                - One(cpc[c] \in {"recorded", "done"} /\ result[c] \in Failing)
<1>1. FailedConns \ {c} = FailedConns' \ {c}
  BY DEF FailedConns, In, Moves, TypeOK
<1>2. /\ (c \in FailedConns <=>
            cpc[c] \in {"recorded", "done"} /\ result[c] \in Failing)
      /\ (c \in FailedConns' <=>
            p \in {"recorded", "done"} /\ result'[c] \in Failing)
  BY DEF FailedConns, In, Moves, TypeOK
<1>3. Cardinality(FailedConns')
        = Cardinality(FailedConns) + One(c \in FailedConns') - One(c \in FailedConns)
  BY <1>1, FailedFinite, CountOne
<1> QED BY <1>2, <1>3, FailedFinite DEF One

-----------------------------------------------------------------------------
(* The invariant in parts. *)

Owned == /\ \A c \in Conns : owner[c] = NoRun <=> cpc[c] \in Waiting
         /\ \A c \in Conns : owner[c] # NoRun => rpc[owner[c]] # "idle"
         /\ \A c \in Conns : cpc[c] = "failing" => result[c] \in Failing

LateOnce == \A r \in Runs : late[r] # 0 =>
                late[r] = 1 /\ cancelled[r] /\ rpc[r] # "accept"

Counted == /\ active = Cardinality(In(Working))
           /\ completed = Cardinality(In(Recorded))
           /\ failed = Cardinality(FailedConns)
           /\ StatsBalanced

\* RelayInv is the conjunction of its parts.
LEMMA Parts ==
    RelayInv <=> TypeOK /\ Owned /\ LateOnce /\ Counted /\ PermitsConserved
BY DEF RelayInv, Owned, LateOnce, Counted, FailedConns

\* What the counters have to do when connection c moves to p.
CountersFollow(c, p) ==
    /\ active' = active + One(p \in Working) - One(cpc[c] \in Working)
    /\ completed' = completed + One(p \in Recorded) - One(cpc[c] \in Recorded)
    /\ failed' = failed
         + One(p \in {"recorded", "done"} /\ result'[c] \in Failing)
         - One(cpc[c] \in {"recorded", "done"} /\ result[c] \in Failing)
    /\ accepted' - rejected' - completed' = accepted - rejected - completed
         + One(p \in Unrecorded) - One(cpc[c] \in Unrecorded)

PermitsFollow(c, p) ==
    \A r \in Runs :
        permits'[r] = permits[r]
          + One(owner[c] = r /\ cpc[c] \in Holding)
          - One(owner'[c] = r /\ p \in Holding)

\* A step that moves one connection keeps the invariant if the counters and
\* the semaphore follow.
LEMMA MoveInv ==
    ASSUME RelayInv, TypeOK', LateOnce', NEW c \in Conns, NEW p, Moves(c, p),
           \A r \in Runs : rpc'[r] = "idle" <=> rpc[r] = "idle",
           owner'[c] = NoRun <=> p \in Waiting,
           owner'[c] # NoRun => rpc'[owner'[c]] # "idle",
           p = "failing" => result'[c] \in Failing,
           CountersFollow(c, p), PermitsFollow(c, p)
    PROVE  RelayInv'
<1>1. TypeOK /\ Owned /\ Counted /\ PermitsConserved
  BY Parts
<1>2. \A b \in Conns \ {c} : /\ cpc'[b] = cpc[b] /\ owner'[b] = owner[b]
                             /\ result'[b] = result[b]
  BY <1>1 DEF Moves, TypeOK
<1>3. cpc'[c] = p
  BY <1>1 DEF Moves, TypeOK
<1>4. Owned'
  <2> SUFFICES ASSUME NEW b \in Conns
               PROVE  /\ owner'[b] = NoRun <=> cpc'[b] \in Waiting
                      /\ owner'[b] # NoRun => rpc'[owner'[b]] # "idle"
                      /\ cpc'[b] = "failing" => result'[b] \in Failing
    BY DEF Owned
  <2>1. CASE b = c
    BY <1>3, <2>1
  <2>2. CASE b # c
    BY <1>1, <1>2, <2>2 DEF Owned, TypeOK
  <2> QED BY <2>1, <2>2
<1>5. Counted'
  <2>1. /\ active' = Cardinality(In(Working)')
        /\ completed' = Cardinality(In(Recorded)')
        /\ failed' = Cardinality(FailedConns')
    BY <1>1, InMoves, FailedMoves DEF Counted, CountersFollow
  <2>2. StatsBalanced'
    <3>1. accepted - rejected - completed = Cardinality(In(Unrecorded))
      BY <1>1, InFinite DEF Counted, StatsBalanced, TypeOK
    <3>2. /\ Cardinality(In(Unrecorded)) \in Nat
          /\ Cardinality(In(Unrecorded)') = Cardinality(In(Unrecorded))
               + One(p \in Unrecorded) - One(cpc[c] \in Unrecorded)
      BY <1>1, InMoves
    <3>3. accepted' - rejected' - completed' = Cardinality(In(Unrecorded)')
      BY <3>1, <3>2 DEF CountersFollow
    <3>4. Cardinality(In(Unrecorded)') \in Int
      BY <3>2 DEF One
    <3> QED BY <3>3, <3>4 DEF StatsBalanced, TypeOK
  <2> QED BY <2>1, <2>2 DEF Counted
<1>6. PermitsConserved'
  <2> SUFFICES ASSUME NEW r \in Runs, rpc'[r] # "idle"
               PROVE  permits'[r] + Cardinality(Held(r)') = MaxConnections
    BY DEF PermitsConserved
  <2>1. permits[r] + Cardinality(Held(r)) = MaxConnections
    BY <1>1 DEF PermitsConserved
  <2>2. /\ Cardinality(Held(r)) \in Nat
        /\ Cardinality(Held(r)') = Cardinality(Held(r))
             + One(owner'[c] = r /\ p \in Holding)
             - One(owner[c] = r /\ cpc[c] \in Holding)
    BY <1>1, HeldMoves
  <2>3. permits[r] \in Nat
    BY <1>1 DEF TypeOK
  <2> QED BY <2>1, <2>2, <2>3 DEF PermitsFollow, One
<1> QED
  BY <1>4, <1>5, <1>6 DEF RelayInv, Owned, LateOnce, Counted, FailedConns

\* A connection that was accepted belongs to a run that has started.
LEMMA OwnerRuns ==
    ASSUME RelayInv, NEW c \in Conns, cpc[c] \notin Waiting
    PROVE  owner[c] \in Runs /\ owner[c] # NoRun /\ rpc[owner[c]] # "idle"
BY DEF RelayInv, TypeOK

\* A step of a task within the block that holds the active guard.
LEMMA WorkInv ==
    ASSUME RelayInv, NEW c \in Conns, cpc[c] \in Working,
           NEW p \in Working, NEW res \in Results,
           cpc' = [cpc EXCEPT ![c] = p], result' = [result EXCEPT ![c] = res],
           UNCHANGED <<runVars, permits, owner, statVars>>
    PROVE  RelayInv'
<1>1. TypeOK /\ LateOnce
  BY Parts
<1>2. UNCHANGED <<cancelled, expired, rpc, outcome, late, permits, owner,
                  accepted, rejected, active, completed, failed>>
  BY DEF runVars, statVars
<1>3. /\ cpc[c] \in Holding /\ p \in Holding
      /\ cpc[c] \in Unrecorded /\ p \in Unrecorded
      /\ cpc[c] \notin Recorded /\ p \notin Recorded
      /\ cpc[c] \notin {"recorded", "done"} /\ p \notin {"recorded", "done"}
      /\ cpc[c] \notin Waiting /\ p \notin Waiting /\ p # "failing" /\ p \in ConnPC
  BY DEF Working, Holding, Unrecorded, Recorded, Waiting, ConnPC
<1>4. owner[c] \in Runs /\ owner[c] # NoRun /\ rpc[owner[c]] # "idle"
  BY <1>3, OwnerRuns
<1>5. TypeOK' /\ LateOnce'
  BY <1>1, <1>2, <1>3 DEF TypeOK, LateOnce
<1>6. Moves(c, p)
  BY <1>1, <1>2 DEF Moves, TypeOK
<1>7. CountersFollow(c, p)
  BY <1>1, <1>2, <1>3 DEF CountersFollow, One, TypeOK
<1>8. PermitsFollow(c, p)
  BY <1>1, <1>2, <1>3 DEF PermitsFollow, One, TypeOK
<1> QED BY <1>2, <1>3, <1>4, <1>5, <1>6, <1>7, <1>8, MoveInv

\* The steps of a task between start_connection and the end of the guard.
WorkStep(c) == \/ OpenCheck(c) \/ OpenCancelled(c) \/ OpenTimeout(c)
               \/ OpenFails(c) \/ Opened(c) \/ RelayCheck(c) \/ CopyEnds(c)
               \/ BeginShutdown(c) \/ ShutdownDone(c) \/ RelayCancelled(c)
               \/ RelayTimeout(c)

\* Opening, relaying and shutting down keep the invariant.
LEMMA WorkStepInv ==
    ASSUME RelayInv, NEW c \in Conns, WorkStep(c)
    PROVE  RelayInv'
<1>1. cpc[c] \in Working
  BY DEF WorkStep, OpenCheck, OpenCancelled, OpenTimeout, OpenFails, Opened,
     RelayCheck, CopyEnds, BeginShutdown, ShutdownDone, RelayCancelled,
     RelayTimeout, Working
<1>2. result \in [Conns -> Results]
  BY DEF RelayInv, TypeOK
<1>3. ASSUME NEW res \in Results, Finish(c, res) PROVE RelayInv'
  <2>1. "finishing" \in Working
    BY DEF Working
  <2> QED BY <1>1, <1>3, <2>1, WorkInv DEF Finish
<1>4. ASSUME NEW to \in Working, Goto(c, to) PROVE RelayInv'
  <2>1. result' = [result EXCEPT ![c] = result[c]] /\ result[c] \in Results
    BY <1>2, <1>4 DEF Goto
  <2> QED BY <1>1, <1>4, <2>1, WorkInv DEF Goto
<1>5. {"ok", "cancelled", "timeout", "channel"} \subseteq Results
      /\ {"opening", "opened", "relaying", "shutting"} \subseteq Working
  BY DEF Results, Working
<1> QED
  BY <1>3, <1>4, <1>5 DEF WorkStep, OpenCheck, OpenCancelled, OpenTimeout,
     OpenFails, Opened, RelayCheck, CopyEnds, BeginShutdown, ShutdownDone,
     RelayCancelled, RelayTimeout

\* record_accepted, start_connection, the active guard and record_completed:
\* steps that change a counter, and neither loop nor semaphore.
LEMMA CountStepInv ==
    ASSUME RelayInv, NEW c \in Conns,
           \/ Connect(c) \/ RecordAccepted(c) \/ StartConnection(c)
           \/ GuardDrop(c) \/ RecordCompleted(c) \/ RecordFailed(c)
    PROVE  RelayInv'
<1>1. TypeOK /\ LateOnce /\ Owned /\ Counted
  BY Parts
<1>2. UNCHANGED <<cancelled, expired, rpc, outcome, late, permits, owner, result>>
  BY DEF Connect, RecordAccepted, StartConnection, GuardDrop, RecordCompleted,
     RecordFailed, runVars
<1>3. LateOnce'
  BY <1>1, <1>2 DEF LateOnce
<1>4. cpc[c] \notin Waiting => owner[c] # NoRun /\ rpc[owner[c]] # "idle"
  BY OwnerRuns
<1>5. cpc[c] \in Waiting => owner[c] = NoRun
  BY <1>1 DEF Owned
<1>6. ASSUME NEW p \in ConnPC, cpc' = [cpc EXCEPT ![c] = p],
             active' \in Nat, completed' \in Nat, failed' \in Nat,
             accepted' \in Nat, rejected' \in Nat,
             p \in Waiting <=> cpc[c] \in Waiting,
             p \in Holding <=> cpc[c] \in Holding,
             p = "failing" => result[c] \in Failing,
             CountersFollow(c, p)
      PROVE  RelayInv'
  <2>1. TypeOK'
    BY <1>1, <1>2, <1>6 DEF TypeOK
  <2>2. Moves(c, p)
    BY <1>1, <1>2, <1>6 DEF Moves, TypeOK
  <2>3. PermitsFollow(c, p)
    BY <1>1, <1>2, <1>6 DEF PermitsFollow, One, TypeOK
  <2> QED
    BY <1>2, <1>3, <1>4, <1>5, <1>6, <2>1, <2>2, <2>3, MoveInv
<1> USE DEF ConnPC, Waiting, Dispatching, Holding, Working, Ending, Recorded,
            Unrecorded
<1>7. CASE Connect(c)
  BY <1>1, <1>2, <1>6, <1>7 DEF Connect, statVars, CountersFollow, One, TypeOK
<1>8. CASE RecordAccepted(c)
  BY <1>1, <1>2, <1>6, <1>8 DEF RecordAccepted, CountersFollow, One, TypeOK
<1>9. CASE StartConnection(c)
  BY <1>1, <1>2, <1>6, <1>9 DEF StartConnection, CountersFollow, One, TypeOK
<1>10. CASE GuardDrop(c)
  <2>1. active # 0
    <3>1. c \in In(Working)
      BY <1>10 DEF GuardDrop, In
    <3> QED BY <1>1, <3>1, InFinite, FS_EmptySet DEF Counted
  <2> QED
    BY <1>1, <1>2, <1>6, <1>10, <2>1 DEF GuardDrop, CountersFollow, One, TypeOK
<1>11. CASE RecordCompleted(c)
  <2>1. CASE result[c] \in Failing
    <3>1. cpc' = [cpc EXCEPT ![c] = "failing"]
      BY <1>11, <2>1 DEF RecordCompleted
    <3>2. CountersFollow(c, "failing")
      BY <1>1, <1>2, <1>11, <2>1 DEF RecordCompleted, CountersFollow, One, TypeOK
    <3> QED
      BY <1>1, <1>6, <1>11, <2>1, <3>1, <3>2 DEF RecordCompleted, TypeOK
  <2>2. CASE result[c] \notin Failing
    <3>1. cpc' = [cpc EXCEPT ![c] = "recorded"]
      BY <1>11, <2>2 DEF RecordCompleted
    <3>2. CountersFollow(c, "recorded")
      BY <1>1, <1>2, <1>11, <2>2 DEF RecordCompleted, CountersFollow, One, TypeOK
    <3>3. /\ cpc[c] = "uncounted" /\ active' \in Nat /\ completed' \in Nat
          /\ failed' \in Nat /\ accepted' \in Nat /\ rejected' \in Nat
      BY <1>1, <1>11 DEF RecordCompleted, TypeOK
    <3> QED BY <1>6, <3>1, <3>2, <3>3
  <2> QED BY <2>1, <2>2
<1>12. CASE RecordFailed(c)
  BY <1>1, <1>2, <1>6, <1>12 DEF RecordFailed, CountersFollow, One, TypeOK, Owned
<1> QED BY <1>7, <1>8, <1>9, <1>10, <1>11, <1>12

\* accept(): a late one leaves the loop outside its select!.
LEMMA AcceptInv ==
    ASSUME RelayInv, NEW r \in Runs, NEW c \in Conns, Accept(r, c)
    PROVE  RelayInv'
<1>1. TypeOK /\ LateOnce /\ Owned
  BY Parts
<1>2. UNCHANGED <<cancelled, expired, outcome, permits, result, accepted,
                  rejected, active, completed, failed>>
  BY DEF Accept, statVars
<1>3. cpc[c] = "backlog" /\ rpc[r] = "accept" /\ late[r] = 0
  BY <1>1 DEF Accept, LateOnce
<1>4. owner[c] = NoRun /\ owner'[c] = r /\ r # NoRun /\ rpc'[r] = "dispatch"
  BY <1>1, <1>3, RelayAssumption DEF Accept, Owned, TypeOK, Waiting
<1>5. TypeOK'
  BY <1>1, <1>2 DEF Accept, TypeOK, RunPC, ConnPC, Dispatching
<1>6. LateOnce'
  <2> SUFFICES ASSUME NEW q \in Runs, late'[q] # 0
               PROVE  late'[q] = 1 /\ cancelled[q] /\ rpc'[q] # "accept"
    BY <1>2 DEF LateOnce
  <2>1. CASE q = r
    BY <1>1, <1>3, <2>1 DEF Accept, TypeOK
  <2>2. CASE q # r
    BY <1>1, <2>2 DEF Accept, TypeOK, LateOnce
  <2> QED BY <2>1, <2>2
<1>7. Moves(c, "taken")
  BY <1>1, <1>2 DEF Accept, Moves, TypeOK
<1>8. "taken" \notin Waiting /\ "taken" \notin Holding /\ "backlog" \notin Holding
      /\ {"taken", "backlog"} \cap (Working \cup Recorded \cup Unrecorded) = {}
  BY DEF Waiting, Holding, Working, Ending, Recorded, Unrecorded
<1>9. CountersFollow(c, "taken")
  BY <1>1, <1>2, <1>3, <1>8 DEF CountersFollow, One, TypeOK
<1>10. PermitsFollow(c, "taken")
  BY <1>1, <1>2, <1>3, <1>8 DEF PermitsFollow, One, TypeOK
<1>11. \A q \in Runs : rpc'[q] = "idle" <=> rpc[q] = "idle"
  BY <1>1, <1>3 DEF Accept, TypeOK
<1> QED
  BY <1>4, <1>5, <1>6, <1>7, <1>8, <1>9, <1>10, <1>11, MoveInv

\* The other steps that move a connection and the loop or the semaphore.
LEMMA PermitStepInv ==
    ASSUME RelayInv, NEW c \in Conns,
           Admit(c) \/ RecordRejected(c) \/ ReleasePermit(c)
    PROVE  RelayInv'
<1> DEFINE r == owner[c]
<1>1. TypeOK /\ LateOnce
  BY Parts
<1>2. UNCHANGED <<cancelled, expired, outcome, late, owner, result, accepted,
                  active, completed, failed>>
  BY DEF Admit, RecordRejected, ReleasePermit, runVars, statVars
<1>3. r \in Runs /\ r # NoRun /\ rpc[r] # "idle"
  BY OwnerRuns DEF Admit, RecordRejected, ReleasePermit, Waiting
<1>4. rpc' = rpc \/ rpc' = [rpc EXCEPT ![r] = "check"]
  BY DEF Admit, RecordRejected, ReleasePermit, runVars
<1>5. \A q \in Runs : /\ rpc'[q] = "idle" <=> rpc[q] = "idle"
                      /\ rpc'[q] = "accept" => rpc[q] = "accept"
  BY <1>1, <1>3, <1>4 DEF TypeOK
<1>6. LateOnce' /\ rpc' \in [Runs -> RunPC]
  BY <1>1, <1>2, <1>4, <1>5 DEF LateOnce, TypeOK, RunPC
<1>7. ASSUME NEW p \in ConnPC, cpc' = [cpc EXCEPT ![c] = p],
             permits' \in [Runs -> Nat], rejected' \in Nat,
             p \notin Waiting, p # "failing",
             CountersFollow(c, p), PermitsFollow(c, p)
      PROVE  RelayInv'
  <2>1. TypeOK'
    BY <1>1, <1>2, <1>6, <1>7 DEF TypeOK
  <2>2. Moves(c, p)
    BY <1>1, <1>2, <1>7 DEF Moves, TypeOK
  <2> QED
    BY <1>2, <1>3, <1>5, <1>6, <1>7, <2>1, <2>2, MoveInv
<1> USE DEF ConnPC, Waiting, Dispatching, Holding, Working, Ending, Recorded,
            Unrecorded
<1>8. CASE Admit(c) /\ (c \in Denied \/ permits[r] = 0)
  <2>1. /\ cpc[c] = "counted" /\ cpc' = [cpc EXCEPT ![c] = "refused"]
        /\ UNCHANGED <<permits, rejected>>
    BY <1>8 DEF Admit, statVars
  <2>2. CountersFollow(c, "refused") /\ PermitsFollow(c, "refused")
    BY <1>1, <1>2, <2>1 DEF CountersFollow, PermitsFollow, One, TypeOK
  <2> QED BY <1>1, <1>7, <2>1, <2>2 DEF TypeOK
<1>9. CASE Admit(c) /\ ~ (c \in Denied \/ permits[r] = 0)
  <2>1. /\ cpc[c] = "counted" /\ cpc' = [cpc EXCEPT ![c] = "spawned"]
        /\ permits' = [permits EXCEPT ![r] = permits[r] - 1]
        /\ UNCHANGED rejected
    BY <1>9 DEF Admit, statVars
  <2>2. permits[r] \in Nat \ {0}
    BY <1>1, <1>3, <1>9 DEF TypeOK
  <2>3. permits' \in [Runs -> Nat]
    BY <1>1, <1>3, <2>1, <2>2 DEF TypeOK
  <2>4. CountersFollow(c, "spawned")
    BY <1>1, <1>2, <2>1 DEF CountersFollow, One, TypeOK
  <2>5. PermitsFollow(c, "spawned")
    BY <1>1, <1>2, <1>3, <2>1, <2>2 DEF PermitsFollow, One, TypeOK
  <2> QED BY <1>1, <1>7, <2>1, <2>3, <2>4, <2>5 DEF TypeOK
<1>10. CASE RecordRejected(c)
  <2>1. /\ cpc[c] = "refused" /\ cpc' = [cpc EXCEPT ![c] = "closed"]
        /\ rejected' = rejected + 1 /\ UNCHANGED permits
    BY <1>10 DEF RecordRejected
  <2>2. CountersFollow(c, "closed") /\ PermitsFollow(c, "closed")
    BY <1>1, <1>2, <2>1 DEF CountersFollow, PermitsFollow, One, TypeOK
  <2> QED BY <1>1, <1>7, <2>1, <2>2 DEF TypeOK
<1>11. CASE ReleasePermit(c)
  <2>1. /\ cpc[c] = "recorded" /\ cpc' = [cpc EXCEPT ![c] = "done"]
        /\ permits' = [permits EXCEPT ![r] = permits[r] + 1]
        /\ UNCHANGED rejected
    BY <1>11 DEF ReleasePermit, statVars
  <2>2. permits' \in [Runs -> Nat]
    BY <1>1, <1>3, <2>1 DEF TypeOK
  <2>3. CountersFollow(c, "done")
    BY <1>1, <1>2, <2>1 DEF CountersFollow, One, TypeOK
  <2>4. PermitsFollow(c, "done")
    BY <1>1, <1>2, <1>3, <2>1 DEF PermitsFollow, One, TypeOK
  <2> QED BY <1>1, <1>7, <2>1, <2>2, <2>3, <2>4 DEF TypeOK
<1> QED BY <1>8, <1>9, <1>10, <1>11

\* Steps that move no connection: the counts stay.
LEMMA StillInv ==
    ASSUME RelayInv, TypeOK', LateOnce',
           UNCHANGED <<cpc, owner, result, accepted, rejected, active,
                       completed, failed>>,
           \A r \in Runs : rpc'[r] = "idle" => rpc[r] = "idle",
           \A r \in Runs : rpc'[r] # "idle" =>
               permits'[r] + Cardinality(Held(r)) = MaxConnections
    PROVE  RelayInv'
<1>1. Owned /\ Counted /\ TypeOK
  BY Parts
<1>2. Owned'
  BY <1>1 DEF Owned, TypeOK
<1>3. Counted'
  BY <1>1 DEF Counted, StatsBalanced, FailedConns, In
<1>4. PermitsConserved'
  BY DEF PermitsConserved, Held
<1> QED
  BY <1>2, <1>3, <1>4 DEF RelayInv, Owned, LateOnce, Counted, FailedConns

\* A fresh semaphore is full, and no task holds one of its permits yet.
LEMMA RunStartInv ==
    ASSUME RelayInv, NEW r \in Runs, RunStart(r)
    PROVE  RelayInv'
<1>1. TypeOK /\ LateOnce /\ Owned /\ PermitsConserved
  BY Parts
<1>2. TypeOK' /\ LateOnce'
  BY <1>1, RelayAssumption DEF RunStart, connVars, statVars, TypeOK, LateOnce, RunPC
<1>3. Held(r) = {}
  BY <1>1, RelayAssumption DEF RunStart, Owned, Held
<1>4. ASSUME NEW q \in Runs, rpc'[q] # "idle"
      PROVE  permits'[q] + Cardinality(Held(q)) = MaxConnections
  <2>1. CASE q = r
    <3>1. Cardinality(Held(q)) = 0
      BY <1>3, <2>1, FS_EmptySet
    <3>2. permits'[q] = MaxConnections
      BY <1>1, <2>1 DEF RunStart, TypeOK
    <3> QED BY <3>1, <3>2, RelayAssumption
  <2>2. CASE q # r
    BY <1>1, <1>4, <2>2 DEF RunStart, TypeOK, PermitsConserved
  <2> QED BY <2>1, <2>2
<1>5. \A q \in Runs : rpc'[q] = "idle" => rpc[q] = "idle"
  BY <1>1 DEF RunStart, TypeOK
<1> QED BY <1>2, <1>4, <1>5, StillInv DEF RunStart, connVars, statVars

\* The loop looks at the token before accept(): with a late accept behind it,
\* it returns.
LEMMA LoopInv ==
    ASSUME RelayInv, NEW r \in Runs,
           Cancel(r) \/ Expire(r) \/ RunStep(r) \/ AcceptFails(r)
    PROVE  RelayInv'
<1>1. TypeOK /\ LateOnce /\ PermitsConserved
  BY Parts
<1>2. UNCHANGED <<permits, cpc, owner, result, accepted, rejected, active,
                  completed, failed, late>>
  BY DEF Cancel, Expire, RunStep, RunCheck, AcceptCancelled, AcceptTimeout,
     AcceptFails, Returned, connVars, statVars
<1>3. ASSUME TypeOK', LateOnce',
             \A q \in Runs : rpc'[q] = "idle" <=> rpc[q] = "idle"
      PROVE  RelayInv'
  BY <1>1, <1>2, <1>3, StillInv DEF PermitsConserved
<1>4. CASE Cancel(r)
  BY <1>1, <1>2, <1>3, <1>4 DEF Cancel, TypeOK, LateOnce
<1>5. CASE Expire(r)
  BY <1>1, <1>2, <1>3, <1>5 DEF Expire, TypeOK, LateOnce
<1>6. ASSUME NEW error \in Outcomes, Returned(r, error), rpc[r] # "idle"
      PROVE  RelayInv'
  BY <1>1, <1>2, <1>3, <1>6 DEF Returned, TypeOK, LateOnce, RunPC
<1>7. CASE RunCheck(r) /\ ~cancelled[r]
  <2>1. /\ ~cancelled[r] /\ rpc[r] = "check"
        /\ rpc' = [rpc EXCEPT ![r] = "accept"] \/ Returned(r, "cancelled")
        /\ UNCHANGED <<cancelled, expired>>
    BY <1>7 DEF RunCheck, Returned
  <2>2. rpc' = [rpc EXCEPT ![r] = "accept"] /\ UNCHANGED outcome
    BY <1>7 DEF RunCheck
  <2>3. TypeOK'
    BY <1>1, <1>2, <2>1, <2>2 DEF TypeOK, RunPC
  <2>4. LateOnce'
    BY <1>1, <1>2, <2>1, <2>2 DEF TypeOK, LateOnce
  <2> QED BY <1>1, <1>3, <2>1, <2>2, <2>3, <2>4 DEF TypeOK
<1>8. {"cancelled", "timeout", "connection"} \subseteq Outcomes
  BY DEF Outcomes
<1> QED
  BY <1>4, <1>5, <1>6, <1>7, <1>8 DEF RunStep, RunCheck, AcceptCancelled,
     AcceptTimeout, AcceptFails

-----------------------------------------------------------------------------
\* Before any run all counts are zero.
LEMMA InitRelayInv == Init => RelayInv
<1> SUFFICES ASSUME Init PROVE RelayInv
  OBVIOUS
<1>1. TypeOK
  BY DEF Init, TypeOK, RunPC, Outcomes, ConnPC, Waiting, Results
<1>2. Owned
  BY DEF Init, Owned, Waiting
<1>3. LateOnce
  BY DEF Init, LateOnce
<1>4. In(Working) = {} /\ In(Recorded) = {} /\ In(Unrecorded) = {} /\ FailedConns = {}
  BY DEF Init, In, FailedConns, Working, Recorded, Unrecorded
<1>5. Counted
  BY <1>4, FS_EmptySet DEF Init, Counted, StatsBalanced
<1>6. PermitsConserved
  BY DEF Init, PermitsConserved
<1> QED BY <1>1, <1>2, <1>3, <1>5, <1>6, Parts

\* The invariant is kept by every step.
THEOREM NextRelayInv == RelayInv /\ [Next]_vars => RelayInv'
<1> SUFFICES ASSUME RelayInv, [Next]_vars PROVE RelayInv'
  OBVIOUS
<1>1. CASE Environment
  BY <1>1, CountStepInv, LoopInv DEF Environment
<1>2. ASSUME NEW r \in Runs,
             \/ RunStart(r) \/ RunStep(r) \/ AcceptFails(r)
             \/ \E c \in Conns : Accept(r, c)
      PROVE  RelayInv'
  BY <1>2, RunStartInv, LoopInv, AcceptInv
<1>3. ASSUME NEW c \in Conns, DispatchStep(c) PROVE RelayInv'
  BY <1>3, CountStepInv, PermitStepInv DEF DispatchStep
<1>4. ASSUME NEW c \in Conns, TaskStep(c) PROVE RelayInv'
  BY <1>4, CountStepInv, PermitStepInv, WorkStepInv DEF TaskStep, WorkStep
<1>5. ASSUME NEW c \in Conns, PeerStep(c) PROVE RelayInv'
  BY <1>5, WorkStepInv DEF PeerStep, WorkStep
<1>6. CASE UNCHANGED vars
  <2>1. TypeOK /\ LateOnce /\ PermitsConserved
    BY Parts
  <2>2. TypeOK' /\ LateOnce'
    BY <1>6, <2>1 DEF vars, runVars, connVars, statVars, TypeOK, LateOnce
  <2> QED
    BY <1>6, <2>1, <2>2, StillInv DEF vars, runVars, connVars, statVars,
       PermitsConserved
<1> QED BY <1>1, <1>2, <1>3, <1>4, <1>5, <1>6 DEF Next

\* The invariant holds in every reachable state, for any constants.
THEOREM RelayInvariant == SafetySpec => []RelayInv
BY InitRelayInv, NextRelayInv, PTL DEF SafetySpec

\* No permit is lost and none is given out twice, in any number of runs.
THEOREM PermitsAreConserved == SafetySpec => []PermitsConserved
<1>1. RelayInv => PermitsConserved BY DEF RelayInv
<1> QED BY <1>1, RelayInvariant, PTL

\* Every accepted connection is accounted for.
THEOREM StatsAreBalanced == SafetySpec => []StatsBalanced
<1>1. RelayInv => StatsBalanced BY DEF RelayInv
<1> QED BY <1>1, RelayInvariant, PTL

\* Each run accepts at most one connection after its cancellation.
THEOREM AtMostOneLateAccept == SafetySpec => []OneLateAccept
<1>1. RelayInv => OneLateAccept BY DEF RelayInv, TypeOK, OneLateAccept
<1> QED BY <1>1, RelayInvariant, PTL

\* A relay that is run once keeps its limit.  One that is run twice need not:
\* each call of run() has a semaphore of its own.
THEOREM OneRunWithinLimit ==
    ASSUME NEW r, Runs = {r}
    PROVE  SafetySpec => []ActiveWithinLimit
<1>1. RelayInv => ActiveWithinLimit
  <2> SUFFICES ASSUME RelayInv PROVE active <= MaxConnections
    BY DEF ActiveWithinLimit
  <2>1. TypeOK /\ Owned /\ Counted /\ PermitsConserved
    BY Parts
  <2>2. Working \cap Waiting = {} /\ Working \subseteq Holding
    BY DEF Working, Waiting, Holding
  <2>3. In(Working) \subseteq Held(r)
    BY <2>1, <2>2 DEF In, Held, Owned, TypeOK
  <2>4. active <= Cardinality(Held(r))
    BY <2>1, <2>3, HeldFinite, FS_Subset DEF Counted
  <2>5. CASE rpc[r] = "idle"
    <3>1. Held(r) = {}
      BY <2>1, <2>5, RelayAssumption DEF Owned, Held
    <3> QED BY <2>1, <2>4, <3>1, FS_EmptySet, RelayAssumption DEF TypeOK
  <2>6. CASE rpc[r] # "idle"
    <3>1. permits[r] + Cardinality(Held(r)) = MaxConnections /\ permits[r] \in Nat
      BY <2>1, <2>6 DEF PermitsConserved, TypeOK
    <3> QED BY <2>1, <2>4, <3>1, HeldFinite, RelayAssumption DEF TypeOK
  <2> QED BY <2>5, <2>6
<1> QED BY <1>1, RelayInvariant, PTL
=============================================================================
