---------------------------- MODULE Socks5Proofs ----------------------------
(***************************************************************************)
(* Socks5Inv is inductive, and the proxy implements the dialogue that      *)
(* AbstractSocks5 promises, for any number of runs and clients, any limit, *)
(* any scripts, with and without login.                                    *)
(***************************************************************************)
EXTENDS Socks5, FiniteSetTheorems, TLAPS

-----------------------------------------------------------------------------
(* The invariant, client by client. *)

\* What holds of one client.
ClientInv(c) ==
    /\ Placed(c) /\ Spoken(c) /\ Joined(c)
    /\ tunnel[c] # "none" => Authentic(c)
    /\ cpc[c] \in {"finishing", "done"} /\ A!Admitted(c) => why[c] # "none"

\* Socks5Inv is the conjunction of its parts.
LEMMA Parts == Socks5Inv <=> /\ TypeOK /\ SlotsConserved
                             /\ \A c \in Conns : ClientInv(c)
BY DEF Socks5Inv, ClientInv, TunnelAuthenticated, FailureAnswered, Authentic

\* A step that is none of client c's.
Same(c) == /\ cpc'[c] = cpc[c] /\ owner'[c] = owner[c] /\ code'[c] = code[c]
           /\ says'[c] = says[c] /\ told'[c] = told[c]
           /\ tunnel'[c] = tunnel[c] /\ why'[c] = why[c]

Others(c) == \A b \in Conns \ {c} : Same(b)

\* Runs that have started stay started.
Started == \A r \in Runs : rpc[r] # "idle" => rpc'[r] # "idle"

\* What holds of a client depends on nothing of the others.
LEMMA SameInv ==
    ASSUME TypeOK, NEW c \in Conns, ClientInv(c), Same(c), Started
    PROVE  ClientInv(c)'
<1>1. Placed(c)'
  <2>1. owner[c] \in Runs \cup {NoRun}
    BY DEF TypeOK
  <2> QED BY <2>1 DEF ClientInv, Placed, Same, Started
<1>2. (A!Admitted(c)' <=> A!Admitted(c)) /\ (Authentic(c)' <=> Authentic(c))
  BY DEF Same, A!Admitted, Authentic
<1>3. Spoken(c)'
  BY <1>2 DEF ClientInv, Spoken, Same, A!Fitting, A!Complete
<1>4. Joined(c)'
  BY DEF ClientInv, Joined, Same, A!Reachable, A!Complete
<1> QED BY <1>1, <1>2, <1>3, <1>4 DEF ClientInv, Same

\* A step of one client keeps the invariant if it does so for that client.
LEMMA StepInv ==
    ASSUME Socks5Inv, TypeOK', NEW c \in Conns, Others(c), Started,
           ClientInv(c)', SlotsConserved'
    PROVE  Socks5Inv'
<1>1. TypeOK /\ \A b \in Conns : ClientInv(b)
  BY Parts
<1>2. ASSUME NEW b \in Conns PROVE ClientInv(b)'
  <2>1. CASE b = c
    BY <2>1
  <2>2. CASE b # c
    BY <1>1, <2>2, SameInv DEF Others
  <2> QED BY <2>1, <2>2
<1>3. /\ TypeOK' /\ SlotsConserved' /\ \A b \in Conns : ClientInv(b)'
  BY <1>2
<1> QED BY <1>3
        DEF Socks5Inv, ClientInv, TunnelAuthenticated, FailureAnswered, Authentic

-----------------------------------------------------------------------------
(* Slots. *)

\* The slots that are held are finitely many.
LEMMA HeldFinite ==
    ASSUME NEW r
    PROVE  IsFiniteSet(Held(r)) /\ Cardinality(Held(r)) \in Nat
<1>1. Held(r) \in SUBSET Conns
  BY DEF Held
<1> QED BY <1>1, Socks5Assumption, FS_Subset, FS_CardinalityType

\* A task that goes on keeps its slot.
LEMMA SlotsKept ==
    ASSUME SlotsConserved, NEW c \in Conns, Others(c), owner' = owner,
           cpc[c] \in Holding <=> cpc'[c] \in Holding,
           UNCHANGED <<permits, rpc>>
    PROVE  SlotsConserved'
<1>1. \A r : Held(r)' = Held(r)
  BY DEF Held, Others, Same
<1> QED BY <1>1 DEF SlotsConserved

-----------------------------------------------------------------------------
(* Steps of a task. *)

Reasons == {"none", "cancelled", "late", "broken"}
Places == Holding \ {"finishing"}

\* A task step that keeps the slot and what holds of its client.
LEMMA TaskInv ==
    ASSUME Socks5Inv, TypeOK', NEW c \in Conns, Others(c), Untouched,
           cpc[c] \in Holding, cpc'[c] \in Holding, ClientInv(c)'
    PROVE  Socks5Inv'
<1>1. UNCHANGED <<rpc, owner, permits>>
  BY DEF Untouched, runVars, taskVars
<1>2. SlotsConserved'
  BY <1>1, Parts, SlotsKept
<1> QED BY <1>1, <1>2, StepInv DEF Started

\* A task belongs to a run that has started, and its client has spoken.
LEMMA OwnerRuns ==
    ASSUME Socks5Inv, NEW c \in Conns, cpc[c] \notin {"outside", "backlog"}
    PROVE  /\ owner[c] \in Runs /\ owner[c] # NoRun /\ rpc[owner[c]] # "idle"
           /\ says[c] \in Scripts /\ says[c] # Silent
BY Parts DEF ClientInv, Placed, TypeOK

\* The messages and the code of the others stay.
Writes(c) == /\ told' \in [Conns -> Seq(Messages)]
             /\ code' \in [Conns -> A!Failures \cup {"none"}]
             /\ \A b \in Conns \ {c} : told'[b] = told[b] /\ code'[b] = code[b]

\* Nothing is written.
LEMMA WritesNothing ==
    ASSUME TypeOK, NEW c \in Conns, UNCHANGED <<told, code>>
    PROVE  Writes(c)
BY DEF Writes, TypeOK

\* One message is written.
LEMMA WritesOne ==
    ASSUME TypeOK, NEW c \in Conns, NEW m \in Messages, Tell(c, m), UNCHANGED code
    PROVE  Writes(c) /\ told'[c] = Append(told[c], m)
BY DEF Writes, TypeOK, Tell

\* The task leaves handle_connection().  It may do so without a reason only
\* if its client does not wait for a reply.
LEMMA FinishInv ==
    ASSUME Socks5Inv, NEW c \in Conns, cpc[c] \in Places,
           NEW reason \in Reasons, Finish(c, reason), Writes(c), Untouched,
           reason = "none" => ~A!Admitted(c)'
    PROVE  Socks5Inv'
<1>0. TypeOK /\ ClientInv(c)
  BY Parts
<1>1. UNCHANGED <<cancelled, expired, rpc, permits, owner, says, late>>
  BY DEF Untouched, runVars, taskVars
<1>2. /\ cpc' \in [Conns -> ConnPC] /\ cpc'[c] = "finishing"
      /\ \A b \in Conns \ {c} : cpc'[b] = cpc[b]
  BY <1>0 DEF Finish, TypeOK, ConnPC, Holding
<1>3. /\ tunnel' \in [Conns -> {"none", "open", "closed"}] /\ tunnel'[c] # "open"
      /\ tunnel'[c] # "none" => tunnel[c] # "none"
      /\ \A b \in Conns \ {c} : tunnel'[b] = tunnel[b]
  BY <1>0 DEF Finish, TypeOK
<1>4. /\ why' \in [Conns -> Reasons] /\ why'[c] = reason
      /\ \A b \in Conns \ {c} : why'[b] = why[b]
  BY <1>0 DEF Finish, TypeOK, Reasons
<1>5. TypeOK' /\ Others(c)
  BY <1>0, <1>1, <1>2, <1>3, <1>4 DEF TypeOK, Writes, Others, Same, Reasons
<1>6. Placed(c)'
  BY <1>0, <1>1, <1>2 DEF ClientInv, Placed, Places, Holding, Handshaking,
     Reading, Writing, Relaying
<1>7. Spoken(c)' /\ Joined(c)'
  BY <1>2, <1>3 DEF Spoken, Joined, Before, Asking, Relaying, Tunnelled
<1>8. tunnel'[c] # "none" => Authentic(c)'
  BY <1>0, <1>1, <1>3 DEF ClientInv, Authentic
<1>9. ClientInv(c)'
  BY <1>2, <1>4, <1>6, <1>7, <1>8 DEF ClientInv
<1>10. cpc[c] \in Holding /\ cpc'[c] \in Holding
  BY <1>2 DEF Places, Holding
<1> QED BY <1>5, <1>9, <1>10, TaskInv

\* The task goes on to its next await, or finds the token set.
LEMMA EnterInv ==
    ASSUME Socks5Inv, NEW c \in Conns, cpc[c] \in Places,
           NEW next \in Places, Enter(c, next), Writes(c), Untouched,
           cpc'[c] = next /\ tunnel'[c] = tunnel[c] => Spoken(c)' /\ Joined(c)'
    PROVE  Socks5Inv'
<1>0. TypeOK /\ ClientInv(c)
  BY Parts
<1>1. CASE cancelled[owner[c]]
  BY <1>1, FinishInv DEF Enter, Reasons
<1>2. CASE ~cancelled[owner[c]]
  <2>1. UNCHANGED <<cancelled, expired, rpc, permits, owner, says, late>>
    BY DEF Untouched, runVars, taskVars
  <2>2. /\ cpc' = [cpc EXCEPT ![c] = next] /\ UNCHANGED <<tunnel, why>>
    BY <1>2 DEF Enter
  <2>3. /\ cpc' \in [Conns -> ConnPC] /\ cpc'[c] = next
        /\ \A b \in Conns \ {c} : cpc'[b] = cpc[b]
    BY <1>0, <2>2 DEF TypeOK, ConnPC, Places
  <2>4. TypeOK' /\ Others(c)
    BY <1>0, <2>1, <2>2, <2>3 DEF TypeOK, Writes, Others, Same
  <2>5. Spoken(c)' /\ Joined(c)'
    BY <2>2, <2>3
  <2>6. Placed(c)'
    BY <1>0, <2>1, <2>3 DEF ClientInv, Placed, Places, Holding, Handshaking,
       Reading, Writing, Relaying
  <2>7. tunnel'[c] # "none" => Authentic(c)'
    BY <1>0, <2>1, <2>2 DEF ClientInv, Authentic
  <2>8. cpc'[c] \notin {"finishing", "done"}
    BY <2>3 DEF Places, Holding, Handshaking, Reading, Writing, Relaying
  <2>9. ClientInv(c)'
    BY <2>5, <2>6, <2>7, <2>8 DEF ClientInv
  <2>10. cpc[c] \in Holding /\ cpc'[c] \in Holding
    BY <2>3 DEF Places
  <2> QED BY <2>4, <2>9, <2>10, TaskInv
<1> QED BY <1>1, <1>2

\* write_reply() of a failure that fits the request.
LEMMA FailInv ==
    ASSUME Socks5Inv, NEW c \in Conns, cpc[c] \in {"request", "opening"},
           NEW failure \in A!Failures, A!Fitting(failure, says[c].request),
           Fail(c, failure), UNCHANGED told, Untouched
    PROVE  Socks5Inv'
<1>0. TypeOK /\ ClientInv(c) /\ says' = says
  BY Parts DEF Untouched, taskVars
<1>1. Writes(c) /\ code'[c] = failure
  BY <1>0 DEF Fail, Writes, TypeOK
<1>2. cpc[c] \in Places /\ "reply" \in Places
  BY DEF Places, Holding, Handshaking, Reading, Writing
<1>3. failure # "none"
  BY DEF A!Failures
<1>4. ASSUME cpc'[c] = "reply", tunnel'[c] = tunnel[c]
      PROVE  Spoken(c)' /\ Joined(c)'
  <2>1. A!Admitted(c)' /\ Authentic(c)'
    BY <1>0 DEF ClientInv, Spoken, Asking, A!Admitted, Authentic
  <2>2. tunnel[c] = "none"
    BY <1>0 DEF ClientInv, Joined, Tunnelled, Relaying
  <2>3. Spoken(c)'
    BY <1>0, <1>1, <1>3, <1>4, <2>1
       DEF Spoken, Before, Asking, Relaying, A!Fitting, A!Complete
  <2> QED BY <1>4, <2>2, <2>3 DEF Joined, Tunnelled, Relaying
<1> QED BY <1>1, <1>2, <1>4, EnterInv DEF Fail

-----------------------------------------------------------------------------
(* authenticate() *)

\* The sets of places, for the provers to look into.
LEMMA Located ==
    /\ Reading \cup Writing \cup {"opening", "opened"} \cup Relaying = Places
    /\ "finishing" \notin Reading \cup Writing \cup {"opening", "opened"} \cup Relaying
BY DEF Places, Holding, Handshaking, Reading, Writing, Relaying

\* A client of another version has been told nothing.
LEMMA ReadMethodsInv ==
    ASSUME Socks5Inv, NEW c \in Conns, ReadMethods(c)
    PROVE  Socks5Inv'
<1>0. TypeOK /\ ClientInv(c) /\ cpc[c] = "greeting" /\ Untouched
  BY Parts DEF ReadMethods
<1>1. /\ Writes(c) /\ cpc[c] \in Places /\ "select" \in Places
      /\ UNCHANGED <<told, code>>
  BY <1>0, Located, WritesNothing DEF ReadMethods, Reading, Writing
<1>2. told[c] = <<>> /\ tunnel[c] = "none"
  BY <1>0 DEF ClientInv, Spoken, Joined, Before, Tunnelled, Relaying
<1>3. CASE Finish(c, "none")
  BY <1>0, <1>1, <1>2, <1>3, FinishInv DEF Reasons, A!Admitted
<1>4. CASE Enter(c, "select")
  <2>1. cpc'[c] = "select" /\ tunnel'[c] = tunnel[c] => Spoken(c)' /\ Joined(c)'
    BY <1>1, <1>2 DEF Spoken, Joined, Before, Asking, Tunnelled, Relaying
  <2> QED BY <1>0, <1>1, <1>4, <2>1, EnterInv
<1> QED BY <1>3, <1>4 DEF ReadMethods

\* The method is selected among those the client offers, or none is.
LEMMA WriteMethodInv ==
    ASSUME Socks5Inv, NEW c \in Conns, WriteMethod(c)
    PROVE  Socks5Inv'
<1>0. /\ TypeOK /\ ClientInv(c) /\ cpc[c] = "select" /\ Untouched
      /\ says' = says /\ UNCHANGED code
  BY Parts DEF WriteMethod, Untouched, taskVars
<1>1. cpc[c] \in Places /\ "login" \in Places /\ "request" \in Places
  BY <1>0, Located DEF Reading, Writing
<1>2. told[c] = <<>> /\ tunnel[c] = "none"
  BY <1>0 DEF ClientInv, Spoken, Joined, Before, Tunnelled, Relaying
<1>3. CASE A!Method \notin says[c].methods
  <2>1. Tell(c, "noAcceptable") /\ Finish(c, "none")
    BY <1>3 DEF WriteMethod
  <2>2. Writes(c) /\ told'[c] = <<"noAcceptable">>
    BY <1>0, <1>2, <2>1, WritesOne DEF Messages
  <2>3. ~A!Admitted(c)'
    BY <2>2 DEF A!Admitted
  <2> QED BY <1>0, <1>1, <2>1, <2>2, <2>3, FinishInv DEF Reasons
<1>4. CASE A!Method \in says[c].methods
  <2>1. /\ Tell(c, A!Method)
        /\ Enter(c, IF RequireLogin THEN "login" ELSE "request")
    BY <1>4 DEF WriteMethod
  <2>2. Writes(c) /\ told'[c] = <<A!Method>>
    BY <1>0, <1>2, <2>1, WritesOne DEF Messages, A!Method
  <2>3. CASE RequireLogin
    <3>1. cpc'[c] = "login" /\ tunnel'[c] = tunnel[c] => Spoken(c)' /\ Joined(c)'
      BY <1>0, <1>2, <1>4, <2>2, <2>3
         DEF Spoken, Joined, Before, Asking, Tunnelled, Relaying, A!Method
    <3>2. Enter(c, "login")
      BY <2>1, <2>3
    <3> QED BY <1>0, <1>1, <2>2, <3>1, <3>2, EnterInv
  <2>4. CASE ~RequireLogin
    <3>1. cpc'[c] = "request" /\ tunnel'[c] = tunnel[c] => Spoken(c)' /\ Joined(c)'
      BY <1>0, <1>2, <2>2, <2>4
         DEF Spoken, Joined, Before, Asking, Tunnelled, Relaying, A!Method,
             A!Admitted, Authentic
    <3>2. Enter(c, "request")
      BY <2>1, <2>4
    <3> QED BY <1>0, <1>1, <2>2, <3>1, <3>2, EnterInv
  <2> QED BY <2>3, <2>4
<1> QED BY <1>3, <1>4

\* Credentials of another version end the dialogue.
LEMMA ReadCredentialsInv ==
    ASSUME Socks5Inv, NEW c \in Conns, ReadCredentials(c)
    PROVE  Socks5Inv'
<1>0. /\ TypeOK /\ ClientInv(c) /\ cpc[c] = "login" /\ Untouched
      /\ says' = says /\ UNCHANGED <<told, code>>
  BY Parts DEF ReadCredentials, Untouched, taskVars
<1>1. Writes(c) /\ cpc[c] \in Places /\ "judge" \in Places
  BY <1>0, Located, WritesNothing DEF Reading, Writing
<1>2. /\ RequireLogin /\ told[c] = <<"userPassword">> /\ tunnel[c] = "none"
      /\ "userPassword" \in says[c].methods
  BY <1>0 DEF ClientInv, Spoken, Joined, Tunnelled, Relaying
<1>3. CASE Finish(c, "none")
  BY <1>0, <1>1, <1>2, <1>3, FinishInv DEF Reasons, A!Admitted
<1>4. CASE Enter(c, "judge")
  <2>1. cpc'[c] = "judge" /\ tunnel'[c] = tunnel[c] => Spoken(c)' /\ Joined(c)'
    BY <1>0, <1>2 DEF Spoken, Joined, Before, Asking, Tunnelled, Relaying
  <2> QED BY <1>0, <1>1, <1>4, <2>1, EnterInv
<1> QED BY <1>3, <1>4 DEF ReadCredentials

\* The right credentials admit the client.
LEMMA WriteStatusInv ==
    ASSUME Socks5Inv, NEW c \in Conns, WriteStatus(c)
    PROVE  Socks5Inv'
<1>0. /\ TypeOK /\ ClientInv(c) /\ cpc[c] = "judge" /\ Untouched
      /\ says' = says /\ UNCHANGED code
  BY Parts DEF WriteStatus, Untouched, taskVars
<1>1. cpc[c] \in Places /\ "request" \in Places
  BY <1>0, Located DEF Reading, Writing
<1>2. /\ RequireLogin /\ told[c] = <<"userPassword">> /\ tunnel[c] = "none"
      /\ "userPassword" \in says[c].methods
  BY <1>0 DEF ClientInv, Spoken, Joined, Tunnelled, Relaying
<1>3. CASE ~LoginAccepted(says[c].login)
  <2>1. Tell(c, "rejected") /\ Finish(c, "none")
    BY <1>3 DEF WriteStatus
  <2>2. Writes(c) /\ told'[c] = <<"userPassword", "rejected">>
    BY <1>0, <1>2, <2>1, WritesOne DEF Messages
  <2>3. ~A!Admitted(c)'
    BY <1>2, <2>2 DEF A!Admitted
  <2> QED BY <1>0, <1>1, <2>1, <2>2, <2>3, FinishInv DEF Reasons
<1>4. CASE LoginAccepted(says[c].login)
  <2>1. Tell(c, "accepted") /\ Enter(c, "request")
    BY <1>4 DEF WriteStatus
  <2>2. Writes(c) /\ told'[c] = <<"userPassword", "accepted">>
    BY <1>0, <1>2, <2>1, WritesOne DEF Messages
  <2>3. cpc'[c] = "request" /\ tunnel'[c] = tunnel[c] => Spoken(c)' /\ Joined(c)'
    BY <1>0, <1>2, <1>4, <2>2
       DEF Spoken, Joined, Before, Asking, Tunnelled, Relaying, A!Admitted,
           Authentic, LoginAccepted
  <2> QED BY <1>0, <1>1, <2>1, <2>2, <2>3, EnterInv
<1> QED BY <1>3, <1>4

-----------------------------------------------------------------------------
(* handle_connection() after authenticate(). *)

\* A request is refused with a code that fits it, or names a target that can
\* be reached.
LEMMA RequestJudged ==
    ASSUME Socks5Inv, NEW c \in Conns, ReadRequest(c)
    PROVE  \/ \E failure \in A!Failures : /\ A!Fitting(failure, says[c].request)
                                          /\ Fail(c, failure)
           \/ /\ A!Reachable(says[c].request)
              /\ Enter(c, "opening") /\ UNCHANGED code
<1> DEFINE q == says[c].request
<1>0. cpc[c] = "request"
  BY DEF ReadRequest
<1>1. q.address \in AddressKinds
  BY <1>0, OwnerRuns, Socks5Assumption
<1> HIDE DEF q
<1>2. CASE RequestError(q) # "none"
  <2>1. Fail(c, RequestError(q))
    BY <1>2 DEF ReadRequest, q
  <2>2. RequestError(q) \in A!Failures /\ A!Fitting(RequestError(q), q)
    BY <1>2 DEF RequestError, A!Failures, A!Fitting
  <2> QED BY <2>1, <2>2 DEF q
<1>3. CASE RequestError(q) = "none"
  <2>1. A!Complete(q)
    BY <1>1, <1>3 DEF RequestError, A!Complete, AddressKinds
  <2>2. CASE q.command # "connect"
    <3>1. Fail(c, "CommandNotSupported")
      BY <1>3, <2>2 DEF ReadRequest, q
    <3>2. A!Fitting("CommandNotSupported", q)
      BY <2>1, <2>2 DEF A!Fitting
    <3> QED BY <3>1, <3>2 DEF A!Failures, q
  <2>3. CASE q.command = "connect" /\ q.address = "blank"
    <3>1. Fail(c, "GeneralFailure")
      BY <1>3, <2>3 DEF ReadRequest, q
    <3>2. A!Fitting("GeneralFailure", q)
      BY DEF A!Fitting
    <3> QED BY <3>1, <3>2 DEF A!Failures, q
  <2>4. CASE q.command = "connect" /\ q.address # "blank"
    <3>1. Enter(c, "opening") /\ UNCHANGED code
      BY <1>3, <2>4 DEF ReadRequest, q
    <3>2. A!Reachable(q)
      BY <2>1, <2>4 DEF A!Reachable
    <3> QED BY <3>1, <3>2 DEF q
  <2> QED BY <2>2, <2>3, <2>4
<1> QED BY <1>2, <1>3

\* The request is read and judged.
LEMMA ReadRequestInv ==
    ASSUME Socks5Inv, NEW c \in Conns, ReadRequest(c)
    PROVE  Socks5Inv'
<1>0. /\ TypeOK /\ ClientInv(c) /\ cpc[c] = "request" /\ Untouched
      /\ says' = says /\ UNCHANGED told
  BY Parts DEF ReadRequest, Untouched, taskVars
<1>1. CASE \E failure \in A!Failures : /\ A!Fitting(failure, says[c].request)
                                       /\ Fail(c, failure)
  BY <1>0, <1>1, FailInv
<1>2. CASE A!Reachable(says[c].request) /\ Enter(c, "opening") /\ UNCHANGED code
  <2>1. Writes(c) /\ cpc[c] \in Places /\ "opening" \in Places
    BY <1>0, <1>2, Located, WritesNothing DEF Reading, Writing
  <2>2. cpc'[c] = "opening" /\ tunnel'[c] = tunnel[c] => Spoken(c)' /\ Joined(c)'
    <3>1. A!Admitted(c)' /\ Authentic(c)' /\ tunnel[c] = "none"
      BY <1>0 DEF ClientInv, Spoken, Joined, Asking, A!Admitted, Authentic,
         Tunnelled, Relaying
    <3>2. cpc'[c] = "opening" => Spoken(c)'
      BY <3>1 DEF Spoken, Before, Asking, Relaying
    <3>3. cpc'[c] = "opening" /\ tunnel'[c] = tunnel[c] => Joined(c)'
      BY <1>0, <1>2, <3>1 DEF Joined, Tunnelled, Relaying, A!Reachable, A!Complete
    <3> QED BY <3>2, <3>3
  <2> QED BY <1>0, <1>2, <2>1, <2>2, EnterInv
<1> QED BY <1>1, <1>2, RequestJudged

\* A read that ends early: a request is answered, what comes before is not.
LEMMA ReadEndsInv ==
    ASSUME Socks5Inv, NEW c \in Conns, ReadFails(c) \/ ReadTimeout(c)
    PROVE  Socks5Inv'
<1>0. TypeOK /\ cpc[c] \in Reading /\ Untouched /\ UNCHANGED told
  BY Parts DEF ReadFails, ReadTimeout
<1>1. CASE cpc[c] = "request"
  <2>1. Fail(c, "GeneralFailure")
    BY <1>1 DEF ReadFails, ReadTimeout
  <2>2. "GeneralFailure" \in A!Failures /\ A!Fitting("GeneralFailure", says[c].request)
    BY DEF A!Failures, A!Fitting
  <2> QED BY <1>0, <1>1, <2>1, <2>2, FailInv
<1>2. CASE cpc[c] # "request"
  <2>1. \E reason \in Reasons : reason # "none" /\ Finish(c, reason)
    BY <1>2 DEF ReadFails, ReadTimeout, Reasons
  <2>2. Writes(c) /\ cpc[c] \in Places
    BY <1>0, <1>2, Located, WritesNothing DEF ReadFails, ReadTimeout
  <2> QED BY <1>0, <2>1, <2>2, FinishInv
<1> QED BY <1>1, <1>2

\* The SSH session does not open the channel.
LEMMA OpenEndsInv ==
    ASSUME Socks5Inv, NEW c \in Conns, OpenFails(c) \/ OpenTimeout(c)
    PROVE  Socks5Inv'
<1>1. /\ cpc[c] = "opening" /\ Untouched /\ UNCHANGED told
      /\ Fail(c, "GeneralFailure")
  BY DEF OpenFails, OpenTimeout
<1>2. "GeneralFailure" \in A!Failures /\ A!Fitting("GeneralFailure", says[c].request)
  BY DEF A!Failures, A!Fitting
<1> QED BY <1>1, <1>2, FailInv

\* A step of a task that goes on to p with a channel that is open.
LEMMA GoesOn ==
    ASSUME Socks5Inv, NEW c \in Conns, cpc[c] \in Places,
           NEW p \in Tunnelled, cpc' = [cpc EXCEPT ![c] = p],
           tunnel' \in [Conns -> {"none", "open", "closed"}], tunnel'[c] = "open",
           \A b \in Conns \ {c} : tunnel'[b] = tunnel[b],
           UNCHANGED why, Writes(c), Untouched,
           Authentic(c), A!Reachable(says[c].request),
           p \in Asking <=> A!Admitted(c)'
    PROVE  Socks5Inv'
<1>0. /\ TypeOK /\ ClientInv(c)
      /\ UNCHANGED <<cancelled, expired, rpc, permits, owner, says, late>>
  BY Parts DEF Untouched, runVars, taskVars
<1>1. p \in Places /\ p \in ConnPC
  BY Located DEF Tunnelled, Writing, Places, ConnPC
<1>2. /\ cpc' \in [Conns -> ConnPC] /\ cpc'[c] = p
      /\ \A b \in Conns \ {c} : cpc'[b] = cpc[b]
  BY <1>0, <1>1 DEF TypeOK
<1>3. TypeOK' /\ Others(c)
  BY <1>0, <1>2 DEF TypeOK, Writes, Others, Same
<1>4. Authentic(c)' /\ A!Reachable(says[c].request)'
  BY <1>0 DEF Authentic, A!Reachable, A!Complete
<1>5. Spoken(c)'
  BY <1>2, <1>4 DEF Spoken, Before, Asking, Relaying, Tunnelled
<1>6. Joined(c)'
  BY <1>2, <1>4 DEF Joined, Tunnelled, Relaying
<1>7. Placed(c)'
  BY <1>0, <1>1, <1>2 DEF ClientInv, Placed, Places, Holding, Handshaking,
     Reading, Writing, Relaying
<1>8. cpc'[c] \notin {"finishing", "done"}
  BY <1>2 DEF Tunnelled, Relaying
<1>9. ClientInv(c)'
  BY <1>4, <1>5, <1>6, <1>7, <1>8 DEF ClientInv
<1> QED BY <1>1, <1>2, <1>3, <1>9, TaskInv DEF Places

\* What is known of a client with a channel.
LEMMA ChannelKnown ==
    ASSUME Socks5Inv, NEW c \in Conns, cpc[c] \in {"opening"} \cup Tunnelled
    PROVE  /\ Authentic(c) /\ A!Reachable(says[c].request)
           /\ cpc[c] \in Places
           /\ cpc[c] \in Tunnelled => tunnel[c] = "open"
           /\ cpc[c] \in Asking \cup {"opening"} => A!Admitted(c)
           /\ cpc[c] \in Relaying => ~A!Admitted(c)
<1>1. ClientInv(c)
  BY Parts
<1>2. cpc[c] \in Places
  BY Located DEF Tunnelled, Writing
<1> QED BY <1>1, <1>2 DEF ClientInv, Spoken, Joined, Asking, Tunnelled

\* The channel is open.
LEMMA OpenedInv ==
    ASSUME Socks5Inv, NEW c \in Conns, Opened(c)
    PROVE  Socks5Inv'
<1>0. TypeOK /\ cpc[c] = "opening" /\ Untouched /\ UNCHANGED <<told, code, why>>
  BY Parts DEF Opened
<1>1. /\ tunnel' \in [Conns -> {"none", "open", "closed"}] /\ tunnel'[c] = "open"
      /\ \A b \in Conns \ {c} : tunnel'[b] = tunnel[b]
      /\ cpc' = [cpc EXCEPT ![c] = "opened"]
  BY <1>0 DEF Opened, TypeOK
<1>2. A!Admitted(c)'
  BY <1>0, ChannelKnown DEF A!Admitted
<1>3. Writes(c) /\ "opened" \in Tunnelled /\ "opened" \in Asking
  BY <1>0, WritesNothing DEF Tunnelled, Asking
<1> QED BY <1>0, <1>1, <1>2, <1>3, ChannelKnown, GoesOn

\* The success reply and the relay each begin with a look at the token.
LEMMA NextCheckInv ==
    ASSUME Socks5Inv, NEW c \in Conns, NextCheck(c)
    PROVE  Socks5Inv'
<1>0. /\ TypeOK /\ ClientInv(c) /\ cpc[c] \in {"opened", "granted"}
      /\ Untouched /\ UNCHANGED <<told, code>>
  BY Parts DEF NextCheck
<1>1. Writes(c) /\ cpc[c] \in Tunnelled
  BY <1>0, WritesNothing DEF Tunnelled, Relaying
<1>2. PICK p \in {"grant", "relaying"} :
        Enter(c, p) /\ (p = "grant" <=> cpc[c] = "opened")
  BY <1>0 DEF NextCheck
<1>3. CASE cancelled[owner[c]]
  BY <1>0, <1>1, <1>2, <1>3, ChannelKnown, FinishInv DEF Enter, Reasons
<1>4. CASE ~cancelled[owner[c]]
  <2>1. cpc' = [cpc EXCEPT ![c] = p] /\ UNCHANGED <<tunnel, why>>
    BY <1>2, <1>4 DEF Enter
  <2>2. p \in Tunnelled /\ (p \in Asking <=> cpc[c] = "opened")
    BY <1>2 DEF Tunnelled, Relaying, Asking
  <2>3. p \in Asking <=> A!Admitted(c)'
    BY <1>0, <1>1, <2>2, ChannelKnown DEF A!Admitted, Asking, Relaying
  <2>4. tunnel' \in [Conns -> {"none", "open", "closed"}]
    BY <1>0, <2>1 DEF TypeOK
  <2> QED BY <1>0, <1>1, <2>1, <2>2, <2>3, <2>4, ChannelKnown, GoesOn
<1> QED BY <1>3, <1>4

\* The failure is replied and the connection closed.
LEMMA WriteFailureInv ==
    ASSUME Socks5Inv, NEW c \in Conns, WriteFailure(c)
    PROVE  Socks5Inv'
<1>0. /\ TypeOK /\ ClientInv(c) /\ cpc[c] = "reply" /\ Untouched /\ UNCHANGED code
      /\ Tell(c, code[c]) /\ Finish(c, "none")
  BY Parts DEF WriteFailure
<1>1. code[c] \in Messages
  BY <1>0 DEF ClientInv, Spoken, TypeOK, Messages, A!Replies
<1>2. Writes(c) /\ told'[c] = Append(told[c], code[c])
  BY <1>0, <1>1, WritesOne
<1>3. A!Admitted(c)
  BY <1>0 DEF ClientInv, Spoken, Asking
<1>4. ~A!Admitted(c)'
  BY <1>2, <1>3 DEF A!Admitted
<1>5. cpc[c] \in Places
  BY <1>0, Located DEF Writing
<1> QED BY <1>0, <1>2, <1>4, <1>5, FinishInv DEF Reasons

\* The success is replied.
LEMMA WriteSucceededInv ==
    ASSUME Socks5Inv, NEW c \in Conns, WriteSucceeded(c)
    PROVE  Socks5Inv'
<1>0. /\ TypeOK /\ cpc[c] = "grant" /\ Untouched /\ UNCHANGED <<code, tunnel, why>>
      /\ Tell(c, "Succeeded") /\ cpc' = [cpc EXCEPT ![c] = "granted"]
  BY Parts DEF WriteSucceeded
<1>1. /\ cpc[c] \in Tunnelled /\ cpc[c] \in Asking
      /\ "granted" \in Tunnelled /\ "granted" \notin Asking
  BY <1>0 DEF Tunnelled, Asking, Relaying
<1>2. Writes(c) /\ told'[c] = Append(told[c], "Succeeded")
  BY <1>0, WritesOne DEF Messages, A!Replies
<1>3. ~A!Admitted(c)'
  BY <1>1, <1>2, ChannelKnown DEF A!Admitted
<1>4. tunnel' \in [Conns -> {"none", "open", "closed"}]
  BY <1>0 DEF TypeOK
<1> QED BY <1>0, <1>1, <1>2, <1>3, <1>4, ChannelKnown, GoesOn

\* Broken connections, deadlines and the token end a task with a reason.
LEMMA CutShortInv ==
    ASSUME Socks5Inv, NEW c \in Conns,
           \/ WriteFails(c) \/ WriteTimeout(c) \/ HandshakeCancelled(c)
           \/ ShutdownDone(c) \/ RelayCancelled(c) \/ RelayTimeout(c)
    PROVE  Socks5Inv'
<1> DEFINE Cut == \E reason \in Reasons : reason # "none" /\ Finish(c, reason)
<1>0. TypeOK
  BY Parts
<1>1. CASE WriteFails(c) \/ WriteTimeout(c) \/ HandshakeCancelled(c)
  <2>1. Cut /\ Untouched /\ UNCHANGED <<told, code>>
    BY <1>1 DEF WriteFails, WriteTimeout, HandshakeCancelled, Reasons
  <2>2. cpc[c] \in Places
    BY <1>1, Located DEF WriteFails, WriteTimeout, HandshakeCancelled
  <2> QED BY <1>0, <2>1, <2>2, WritesNothing, FinishInv
<1>2. CASE ShutdownDone(c) \/ RelayCancelled(c) \/ RelayTimeout(c)
  <2>1. Cut /\ Untouched /\ UNCHANGED <<told, code>>
    BY <1>2 DEF ShutdownDone, RelayCancelled, RelayTimeout, Reasons
  <2>2. cpc[c] \in Places
    BY <1>2, Located DEF ShutdownDone, RelayCancelled, RelayTimeout, Relaying
  <2> QED BY <1>0, <2>1, <2>2, WritesNothing, FinishInv
<1> QED BY <1>1, <1>2

\* A copy ends by itself, or begins to shut down.
LEMMA RelayStepInv ==
    ASSUME Socks5Inv, NEW c \in Conns, CopyEnds(c) \/ BeginShutdown(c)
    PROVE  Socks5Inv'
<1>0. TypeOK /\ cpc[c] = "relaying" /\ Untouched /\ UNCHANGED <<told, code>>
  BY Parts DEF CopyEnds, BeginShutdown
<1>1. Writes(c) /\ cpc[c] \in Relaying /\ cpc[c] \in Tunnelled
  BY <1>0, WritesNothing DEF Relaying, Tunnelled
<1>2. ~A!Admitted(c)'
  BY <1>0, <1>1, ChannelKnown DEF A!Admitted
<1>3. CASE CopyEnds(c)
  BY <1>0, <1>1, <1>2, <1>3, ChannelKnown, FinishInv DEF CopyEnds, Reasons
<1>4. CASE BeginShutdown(c)
  <2>1. cpc' = [cpc EXCEPT ![c] = "shutting"] /\ UNCHANGED <<tunnel, why>>
    BY <1>4 DEF BeginShutdown
  <2>2. "shutting" \in Tunnelled /\ "shutting" \notin Asking
    BY DEF Tunnelled, Relaying, Asking
  <2>3. tunnel' \in [Conns -> {"none", "open", "closed"}]
    BY <1>0, <2>1 DEF TypeOK
  <2> QED BY <1>0, <1>1, <1>2, <2>1, <2>2, <2>3, ChannelKnown, GoesOn
<1> QED BY <1>3, <1>4

-----------------------------------------------------------------------------
(* Clients, callers, the clock and the loop of run_with_context(). *)

\* Two sets that differ in c at most.
LEMMA CountOne ==
    ASSUME NEW S, NEW T, NEW c, IsFiniteSet(S), S \ {c} = T \ {c}
    PROVE  /\ c \in S <=> c \in T => Cardinality(T) = Cardinality(S)
           /\ c \notin S /\ c \in T => Cardinality(T) = Cardinality(S) + 1
           /\ c \in S /\ c \notin T => Cardinality(T) = Cardinality(S) - 1
<1>1. CASE c \in S <=> c \in T
  <2>1. S = T
    BY <1>1
  <2> QED BY <1>1, <2>1
<1>2. CASE c \notin S /\ c \in T
  <2>1. T = S \cup {c}
    BY <1>2
  <2> QED BY <1>2, <2>1, FS_AddElement
<1>3. CASE c \in S /\ c \notin T
  <2>1. T = S \ {c}
    BY <1>3
  <2> QED BY <1>3, <2>1, FS_RemoveElement
<1> QED BY <1>1, <1>2, <1>3

\* A step that no client notices and that gives no slot.
LEMMA UnnoticedInv ==
    ASSUME Socks5Inv, TypeOK', Started, \A r \in Runs : rpc'[r] = "idle" <=> rpc[r] = "idle",
           UNCHANGED <<permits, cpc, owner, code, says, told, tunnel, why>>
    PROVE  Socks5Inv'
<1>1. TypeOK /\ SlotsConserved /\ \A c \in Conns : ClientInv(c)
  BY Parts
<1>2. \A r : Held(r)' = Held(r)
  BY DEF Held
<1>3. SlotsConserved'
  BY <1>1, <1>2 DEF SlotsConserved
<1>4. \A c \in Conns : ClientInv(c)'
  BY <1>1, SameInv DEF Same
<1> QED BY <1>3, <1>4
        DEF Socks5Inv, ClientInv, TunnelAuthenticated, FailureAnswered, Authentic

\* Tokens, clocks and loops that return.
LEMMA EnvironmentInv ==
    ASSUME Socks5Inv, NEW r \in Runs,
           \/ Cancel(r) \/ Expire(r) \/ RunStep(r) \/ AcceptFails(r)
    PROVE  Socks5Inv'
<1>0. TypeOK
  BY Parts
<1>1. CASE Cancel(r)
  BY <1>0, <1>1, UnnoticedInv DEF Cancel, TypeOK, taskVars, Started
<1>2. CASE Expire(r)
  BY <1>0, <1>2, UnnoticedInv DEF Expire, TypeOK, taskVars, Started
<1>3. CASE RunStep(r) \/ AcceptFails(r)
  <2>1. rpc[r] = "accept" /\ Returned(r)
    BY <1>3 DEF RunStep, AcceptFails, AcceptCancelled, AcceptTimeout
  <2> QED BY <1>0, <2>1, UnnoticedInv DEF Returned, TypeOK, taskVars, Started
<1> QED BY <1>1, <1>2, <1>3

\* The deadline of a handshake passes.
LEMMA HandshakeExpiresInv ==
    ASSUME Socks5Inv, NEW c \in Conns, HandshakeExpires(c)
    PROVE  Socks5Inv'
BY Parts, UnnoticedInv DEF HandshakeExpires, TypeOK, taskVars, runVars, Started

\* A client connects.
LEMMA ConnectInv ==
    ASSUME Socks5Inv, NEW c \in Conns, NEW s \in Scripts, Connect(c, s)
    PROVE  Socks5Inv'
<1>0. /\ TypeOK /\ SlotsConserved /\ ClientInv(c) /\ cpc[c] = "outside"
      /\ UNCHANGED <<cancelled, expired, rpc, permits, owner, late, code, told,
                     tunnel, why>>
  BY Parts DEF Connect, runVars
<1>1. TypeOK' /\ Others(c) /\ cpc'[c] = "backlog" /\ says'[c] = s
  BY <1>0 DEF Connect, TypeOK, ConnPC, Others, Same
<1>2. cpc[c] \notin Holding /\ cpc'[c] \notin Holding
  BY <1>0, <1>1 DEF Holding, Handshaking, Reading, Writing, Relaying
<1>3. SlotsConserved'
  BY <1>0, <1>1, <1>2, SlotsKept
<1>4. s # Silent
  BY Socks5Assumption
<1>5. told[c] = <<>> /\ tunnel[c] = "none"
  BY <1>0 DEF ClientInv, Spoken, Joined, Before, Tunnelled, Relaying
<1>6. ClientInv(c)'
  BY <1>0, <1>1, <1>4, <1>5 DEF ClientInv, Placed, Spoken, Joined, Before, Asking,
     Tunnelled, Relaying
<1> QED BY <1>0, <1>1, <1>3, <1>6, StepInv DEF Started

\* A run begins with all its slots: it owns no client yet.
LEMMA RunStartInv ==
    ASSUME Socks5Inv, NEW r \in Runs, RunStart(r)
    PROVE  Socks5Inv'
<1>0. /\ TypeOK /\ SlotsConserved /\ \A c \in Conns : ClientInv(c)
      /\ UNCHANGED <<cancelled, expired, cpc, owner, says, late, code, told,
                     tunnel, why>>
      /\ rpc[r] = "idle"
  BY Parts DEF RunStart, taskVars
<1>1. TypeOK' /\ Started
  BY <1>0, Socks5Assumption DEF RunStart, TypeOK, Started
<1>2. \A q \in Runs : Held(q)' = Held(q)
  BY <1>0 DEF Held
<1>3. Held(r) = {}
  <2>1. \A c \in Conns : owner[c] # r
    BY <1>0, Socks5Assumption DEF ClientInv, Placed
  <2> QED BY <2>1 DEF Held
<1>4. SlotsConserved'
  <2> SUFFICES ASSUME NEW q \in Runs, rpc'[q] # "idle"
               PROVE  permits'[q] + Cardinality(Held(q)') = MaxConnections
    BY DEF SlotsConserved
  <2>1. CASE q = r
    <3>1. Cardinality(Held(q)') = 0
      BY <1>2, <1>3, <2>1, FS_EmptySet
    <3> QED BY <1>0, <2>1, <3>1, Socks5Assumption DEF RunStart, TypeOK
  <2>2. CASE q # r
    <3>1. permits'[q] = permits[q] /\ rpc'[q] = rpc[q]
      BY <1>0, <2>2 DEF RunStart, TypeOK
    <3> QED BY <1>0, <1>2, <3>1 DEF SlotsConserved
  <2> QED BY <2>1, <2>2
<1>5. \A c \in Conns : ClientInv(c)'
  BY <1>0, <1>1, SameInv DEF Same
<1> QED BY <1>1, <1>4, <1>5
        DEF Socks5Inv, ClientInv, TunnelAuthenticated, FailureAnswered, Authentic

\* A client is accepted; it holds no slot yet.
LEMMA AcceptInv ==
    ASSUME Socks5Inv, NEW r \in Runs, NEW c \in Conns, Accept(r, c)
    PROVE  Socks5Inv'
<1>0. /\ TypeOK /\ SlotsConserved /\ ClientInv(c) /\ cpc[c] = "backlog"
      /\ UNCHANGED <<cancelled, expired, permits, says, late, code, told,
                     tunnel, why>>
      /\ rpc[r] = "accept"
  BY Parts DEF Accept
<1>1. /\ TypeOK' /\ Others(c) /\ cpc'[c] = "taken" /\ owner'[c] = r
      /\ \A q \in Runs : rpc'[q] = "idle" <=> rpc[q] = "idle"
      /\ rpc'[r] = "dispatch"
  BY <1>0 DEF Accept, TypeOK, ConnPC, Others, Same
<1>2. cpc[c] \notin Holding /\ cpc'[c] \notin Holding
  BY <1>0, <1>1 DEF Holding, Handshaking, Reading, Writing, Relaying
<1>3. \A q : Held(q)' = Held(q)
  BY <1>1, <1>2 DEF Held, Others, Same
<1>4. SlotsConserved'
  BY <1>0, <1>1, <1>3 DEF SlotsConserved
<1>5. told[c] = <<>> /\ tunnel[c] = "none"
  BY <1>0 DEF ClientInv, Spoken, Joined, Before, Tunnelled, Relaying
<1>6. r # NoRun
  BY Socks5Assumption
<1>7. ClientInv(c)'
  BY <1>0, <1>1, <1>5, <1>6 DEF ClientInv, Placed, Spoken, Joined, Before, Asking,
     Tunnelled, Relaying
<1> QED BY <1>1, <1>4, <1>7, StepInv DEF Started

\* The permit of a task that is over is dropped.
LEMMA ReleasePermitInv ==
    ASSUME Socks5Inv, NEW c \in Conns, ReleasePermit(c)
    PROVE  Socks5Inv'
<1> DEFINE r == owner[c]
<1>0. /\ TypeOK /\ SlotsConserved /\ ClientInv(c) /\ cpc[c] = "finishing"
      /\ UNCHANGED <<cancelled, expired, rpc, owner, says, late, code, told,
                     tunnel, why>>
      /\ permits' = [permits EXCEPT ![r] = @ + 1]
      /\ cpc' = [cpc EXCEPT ![c] = "done"]
  BY Parts DEF ReleasePermit, runVars, taskVars
<1>1. r \in Runs /\ r # NoRun /\ rpc[r] # "idle"
  BY <1>0, OwnerRuns
<1>2. TypeOK' /\ Others(c) /\ cpc'[c] = "done"
  BY <1>0, <1>1 DEF TypeOK, ConnPC, Others, Same
<1>3. cpc[c] \in Holding /\ cpc'[c] \notin Holding
  BY <1>0, <1>2 DEF Holding, Handshaking, Reading, Writing, Relaying
<1>4. SlotsConserved'
  <2> SUFFICES ASSUME NEW q \in Runs, rpc'[q] # "idle"
               PROVE  permits'[q] + Cardinality(Held(q)') = MaxConnections
    BY DEF SlotsConserved
  <2>1. /\ permits[q] + Cardinality(Held(q)) = MaxConnections
        /\ permits[q] \in Nat /\ Cardinality(Held(q)) \in Nat
        /\ IsFiniteSet(Held(q))
    BY <1>0, HeldFinite DEF SlotsConserved, TypeOK
  <2>2. Held(q) \ {c} = Held(q)' \ {c}
    BY <1>0, <1>2 DEF Held, Others, Same
  <2>3. CASE q = r
    <3>1. c \in Held(q) /\ c \notin Held(q)'
      BY <1>0, <1>3, <2>3 DEF Held
    <3>2. Cardinality(Held(q)') = Cardinality(Held(q)) - 1
      BY <2>1, <2>2, <3>1, CountOne
    <3>3. permits'[q] = permits[q] + 1
      BY <1>0, <1>1, <2>3 DEF TypeOK
    <3> QED BY <2>1, <3>2, <3>3
  <2>4. CASE q # r
    <3>1. Held(q)' = Held(q)
      BY <1>0, <2>2, <2>4 DEF Held
    <3>2. permits'[q] = permits[q]
      BY <1>0, <2>4 DEF TypeOK
    <3> QED BY <2>1, <3>1, <3>2
  <2> QED BY <2>3, <2>4
<1>5. (A!Admitted(c)' <=> A!Admitted(c)) /\ (Authentic(c)' <=> Authentic(c))
  BY <1>0 DEF A!Admitted, Authentic
<1>6. ClientInv(c)'
  BY <1>0, <1>1, <1>2, <1>5 DEF ClientInv, Placed, Spoken, Joined, Before, Asking,
     Tunnelled, Relaying
<1> QED BY <1>0, <1>2, <1>4, <1>6, StepInv DEF Started

\* try_acquire_owned(): with a permit a task is spawned, without one the
\* socket is closed.
LEMMA AdmitInv ==
    ASSUME Socks5Inv, NEW c \in Conns, Admit(c)
    PROVE  Socks5Inv'
<1> DEFINE r == owner[c]
<1>0. /\ TypeOK /\ SlotsConserved /\ ClientInv(c) /\ cpc[c] = "taken"
      /\ UNCHANGED <<cancelled, expired, owner, says, late, code, told>>
      /\ rpc' = [rpc EXCEPT ![r] = IF cancelled[r] THEN "returned" ELSE "accept"]
  BY Parts DEF Admit, taskVars
<1>1. r \in Runs /\ r # NoRun /\ rpc[r] # "idle"
  BY <1>0, OwnerRuns
<1>2. told[c] = <<>> /\ tunnel[c] = "none" /\ ~A!Admitted(c)'
  BY <1>0 DEF ClientInv, Spoken, Joined, Before, Tunnelled, Relaying, A!Admitted
<1>3. \A q \in Runs : rpc'[q] = "idle" <=> rpc[q] = "idle"
  BY <1>0, <1>1 DEF TypeOK
<1>4. cpc[c] \notin Holding
  BY <1>0 DEF Holding, Handshaking, Reading, Writing, Relaying
<1>5. CASE permits[r] = 0
  <2>1. /\ UNCHANGED <<permits, tunnel, why>> /\ cpc' = [cpc EXCEPT ![c] = "closed"]
    BY <1>5 DEF Admit
  <2>2. TypeOK' /\ Others(c) /\ cpc'[c] = "closed"
    BY <1>0, <1>1, <2>1 DEF TypeOK, ConnPC, Others, Same
  <2>3. cpc'[c] \notin Holding
    BY <2>2 DEF Holding, Handshaking, Reading, Writing, Relaying
  <2>4. \A q : Held(q)' = Held(q)
    BY <1>0, <1>4, <2>2, <2>3 DEF Held, Others, Same
  <2>5. SlotsConserved'
    BY <1>0, <1>3, <2>1, <2>4 DEF SlotsConserved
  <2>6. ClientInv(c)'
    BY <1>0, <1>1, <1>2, <1>3, <2>1, <2>2 DEF ClientInv, Placed, Spoken, Joined,
       Before, Asking, Tunnelled, Relaying
  <2> QED BY <1>3, <2>2, <2>5, <2>6, StepInv DEF Started
<1>6. CASE permits[r] # 0
  <2>1. permits' = [permits EXCEPT ![r] = @ - 1] /\ Enter(c, "greeting")
    BY <1>6 DEF Admit
  <2>2. /\ cpc'[c] \in {"greeting", "finishing"} /\ tunnel'[c] = "none"
        /\ cpc' \in [Conns -> ConnPC]
        /\ tunnel' \in [Conns -> {"none", "open", "closed"}]
        /\ why' \in [Conns -> Reasons]
        /\ \A b \in Conns \ {c} : /\ cpc'[b] = cpc[b] /\ tunnel'[b] = tunnel[b]
                                  /\ why'[b] = why[b]
    <3>1. "finishing" \in ConnPC /\ "greeting" \in ConnPC
      BY DEF ConnPC, Holding, Handshaking, Reading
    <3>2. CASE cancelled[owner[c]]
      <4>1. Finish(c, "cancelled")
        BY <2>1, <3>2 DEF Enter
      <4>2. /\ cpc' \in [Conns -> ConnPC] /\ cpc'[c] = "finishing"
            /\ \A b \in Conns \ {c} : cpc'[b] = cpc[b]
        BY <1>0, <3>1, <4>1 DEF Finish, TypeOK
      <4>3. /\ tunnel' \in [Conns -> {"none", "open", "closed"}]
            /\ tunnel'[c] = "none"
            /\ \A b \in Conns \ {c} : tunnel'[b] = tunnel[b]
        BY <1>0, <1>2, <4>1 DEF Finish, TypeOK
      <4>4. /\ why' \in [Conns -> Reasons]
            /\ \A b \in Conns \ {c} : why'[b] = why[b]
        BY <1>0, <4>1 DEF Finish, TypeOK, Reasons
      <4> QED BY <4>2, <4>3, <4>4
    <3>3. CASE ~cancelled[owner[c]]
      <4>1. cpc' = [cpc EXCEPT ![c] = "greeting"] /\ UNCHANGED <<tunnel, why>>
        BY <2>1, <3>3 DEF Enter
      <4> QED BY <1>0, <1>2, <3>1, <4>1 DEF TypeOK, Reasons
    <3> QED BY <3>2, <3>3
  <2>3. permits' \in [Runs -> Nat]
    BY <1>0, <1>1, <1>6, <2>1 DEF TypeOK
  <2>4. TypeOK' /\ Others(c)
    BY <1>0, <1>1, <2>2, <2>3 DEF TypeOK, Others, Same, Reasons
  <2>5. cpc'[c] \in Holding
    BY <2>2 DEF Holding, Handshaking, Reading
  <2>6. SlotsConserved'
    <3> SUFFICES ASSUME NEW q \in Runs, rpc'[q] # "idle"
                 PROVE  permits'[q] + Cardinality(Held(q)') = MaxConnections
      BY DEF SlotsConserved
    <3>1. /\ permits[q] + Cardinality(Held(q)) = MaxConnections
          /\ permits[q] \in Nat /\ Cardinality(Held(q)) \in Nat
          /\ IsFiniteSet(Held(q))
      BY <1>0, <1>3, HeldFinite DEF SlotsConserved, TypeOK
    <3>2. Held(q) \ {c} = Held(q)' \ {c}
      BY <1>0, <2>4 DEF Held, Others, Same
    <3>3. CASE q = r
      <4>1. c \notin Held(q) /\ c \in Held(q)'
        BY <1>0, <1>4, <2>5, <3>3 DEF Held
      <4>2. Cardinality(Held(q)') = Cardinality(Held(q)) + 1
        BY <3>1, <3>2, <4>1, CountOne
      <4>3. permits'[q] = permits[q] - 1
        BY <1>0, <1>1, <2>1, <3>3 DEF TypeOK
      <4> QED BY <3>1, <4>2, <4>3
    <3>4. CASE q # r
      <4>1. Held(q)' = Held(q)
        BY <1>0, <3>2, <3>4 DEF Held
      <4>2. permits'[q] = permits[q]
        BY <1>0, <2>1, <3>4 DEF TypeOK
      <4> QED BY <3>1, <4>1, <4>2
    <3> QED BY <3>3, <3>4
  <2>7. ClientInv(c)'
    BY <1>0, <1>1, <1>2, <1>3, <2>2 DEF ClientInv, Placed, Spoken, Joined,
       Before, Asking, Tunnelled, Relaying
  <2> QED BY <1>3, <2>4, <2>6, <2>7, StepInv DEF Started
<1> QED BY <1>5, <1>6

-----------------------------------------------------------------------------
(* Socks5Inv is inductive. *)

\* No client is there and no run has begun.
LEMMA InitSocks5Inv == Init => Socks5Inv
<1> SUFFICES ASSUME Init PROVE Socks5Inv
  OBVIOUS
<1> USE DEF Init
<1>1. TypeOK
  BY DEF TypeOK, ConnPC
<1>2. SlotsConserved
  BY DEF SlotsConserved
<1>3. ASSUME NEW c \in Conns PROVE ClientInv(c)
  BY DEF ClientInv, Placed, Spoken, Joined, Before, Asking, Tunnelled, Relaying
<1> QED BY <1>1, <1>2, <1>3, Parts

\* Every step of a task keeps the invariant.
LEMMA TaskStepsInv ==
    ASSUME Socks5Inv, NEW c \in Conns, TaskStep(c) \/ PeerStep(c)
    PROVE  Socks5Inv'
BY ReadMethodsInv, WriteMethodInv, ReadCredentialsInv, WriteStatusInv,
   ReadRequestInv, ReadEndsInv, OpenEndsInv, OpenedInv, NextCheckInv,
   WriteFailureInv, WriteSucceededInv, CutShortInv, RelayStepInv,
   ReleasePermitInv
   DEF TaskStep, PeerStep

\* Every step keeps the invariant.
LEMMA NextSocks5Inv == Socks5Inv /\ [Next]_vars => Socks5Inv'
<1> SUFFICES ASSUME Socks5Inv, [Next]_vars PROVE Socks5Inv'
  OBVIOUS
<1>1. CASE Next
  BY <1>1, ConnectInv, EnvironmentInv, RunStartInv, AcceptInv,
     HandshakeExpiresInv, AdmitInv, TaskStepsInv DEF Next
<1>2. CASE UNCHANGED vars
  BY <1>2, UnnoticedInv, Parts DEF vars, runVars, taskVars, TypeOK, Started
<1> QED BY <1>1, <1>2

\* The invariant holds whatever clients, callers, server and clock do.
THEOREM Socks5Invariant == SafetySpec => []Socks5Inv
BY InitSocks5Inv, NextSocks5Inv, PTL DEF SafetySpec

\* max_connections: permits and tasks of a run add up, whatever way a task
\* ends.
THEOREM SlotsAreConserved == SafetySpec => []SlotsConserved
<1>1. Socks5Inv => SlotsConserved
  BY DEF Socks5Inv
<1> QED BY <1>1, Socks5Invariant, PTL

\* With UsernamePassword nobody gets a channel without the credentials.
THEOREM ChannelsAreAuthenticated == SafetySpec => []TunnelAuthenticated
<1>1. Socks5Inv => TunnelAuthenticated
  BY DEF Socks5Inv
<1> QED BY <1>1, Socks5Invariant, PTL

\* No error path of handle_connection leaves an admitted client without a
\* reply, unless the connection, the deadline or the token cut it short.
THEOREM FailuresAreAnswered == SafetySpec => []FailureAnswered
<1>1. Socks5Inv => FailureAnswered
  BY DEF Socks5Inv
<1> QED BY <1>1, Socks5Invariant, PTL

-----------------------------------------------------------------------------
(* Refinement: says, told and tunnel are those of AbstractSocks5. *)

\* Leaving handle_connection() without a word: an open channel is closed.
LEMMA FinishRefines ==
    ASSUME Socks5Inv, NEW c \in Conns, NEW reason, Finish(c, reason),
           UNCHANGED <<says, told>>
    PROVE  [A!Next]_(A!vars)
<1>0. TypeOK
  BY Parts
<1>1. CASE tunnel[c] = "open"
  <2>1. A!CloseTunnel(c)
    BY <1>0, <1>1 DEF Finish, A!CloseTunnel, TypeOK
  <2> QED BY <2>1 DEF A!Next
<1>2. CASE tunnel[c] # "open"
  <2>1. tunnel' = tunnel
    BY <1>0, <1>2 DEF Finish, TypeOK
  <2> QED BY <2>1 DEF A!vars
<1> QED BY <1>1, <1>2

\* Going on to the next await without a word.
LEMMA EnterRefines ==
    ASSUME Socks5Inv, NEW c \in Conns, NEW next, Enter(c, next),
           UNCHANGED <<says, told>>
    PROVE  [A!Next]_(A!vars)
<1>1. CASE cancelled[owner[c]]
  BY <1>1, FinishRefines DEF Enter
<1>2. CASE ~cancelled[owner[c]]
  BY <1>2 DEF Enter, A!vars
<1> QED BY <1>1, <1>2

\* A client without a channel has none after it.
LEMMA NoTunnel ==
    ASSUME Socks5Inv, NEW c \in Conns, tunnel[c] = "none",
           \/ \E reason : Finish(c, reason)
           \/ \E next : Enter(c, next)
    PROVE  tunnel' = tunnel
<1>0. TypeOK
  BY Parts
<1>1. ASSUME NEW reason, Finish(c, reason) PROVE tunnel' = tunnel
  BY <1>0, <1>1 DEF Finish, TypeOK
<1> QED BY <1>1 DEF Enter

\* A message is a step of the abstract dialogue.
LEMMA MessageRefines ==
    ASSUME Socks5Inv, NEW c \in Conns,
           \/ WriteMethod(c) \/ WriteStatus(c) \/ WriteFailure(c)
           \/ WriteSucceeded(c)
    PROVE  A!Next
<1>0. TypeOK /\ ClientInv(c)
  BY Parts
<1>1. CASE WriteMethod(c)
  <2>1. cpc[c] = "select" /\ says' = says
    BY <1>1 DEF WriteMethod, Untouched, taskVars
  <2>2. told[c] = <<>> /\ tunnel[c] = "none" /\ says[c] # Silent
    BY <1>0, <2>1, OwnerRuns
       DEF ClientInv, Spoken, Joined, Before, Tunnelled, Relaying
  <2>3. tunnel' = tunnel
    BY <1>1, <2>2, NoTunnel DEF WriteMethod
  <2>4. A!SelectMethod(c)
    BY <1>1, <2>1, <2>2, <2>3 DEF WriteMethod, Tell, A!SelectMethod, A!Tell
  <2> QED BY <2>4 DEF A!Next
<1>2. CASE WriteStatus(c)
  <2>1. cpc[c] = "judge" /\ says' = says
    BY <1>2 DEF WriteStatus, Untouched, taskVars
  <2>2. told[c] = <<"userPassword">> /\ tunnel[c] = "none"
    BY <1>0, <2>1 DEF ClientInv, Spoken, Joined, Tunnelled, Relaying
  <2>3. tunnel' = tunnel
    BY <1>2, <2>2, NoTunnel DEF WriteStatus
  <2>4. A!JudgeLogin(c)
    BY <1>2, <2>1, <2>2, <2>3
       DEF WriteStatus, Tell, LoginAccepted, A!JudgeLogin, A!Tell
  <2> QED BY <2>4 DEF A!Next
<1>3. CASE WriteFailure(c)
  <2>1. cpc[c] = "reply" /\ says' = says /\ Tell(c, code[c]) /\ Finish(c, "none")
    BY <1>3 DEF WriteFailure, Untouched, taskVars
  <2>2. /\ A!Admitted(c) /\ tunnel[c] = "none" /\ code[c] \in A!Failures
        /\ A!Fitting(code[c], says[c].request)
    BY <1>0, <2>1
       DEF ClientInv, Spoken, Joined, Asking, Tunnelled, Relaying, TypeOK
  <2>3. tunnel' = tunnel
    BY <2>1, <2>2, NoTunnel
  <2>4. A!Refuse(c)
    BY <2>1, <2>2, <2>3 DEF Tell, A!Refuse, A!Tell
  <2> QED BY <2>4 DEF A!Next
<1>4. CASE WriteSucceeded(c)
  <2>1. /\ cpc[c] = "grant" /\ says' = says /\ tunnel' = tunnel
        /\ Tell(c, "Succeeded")
    BY <1>4 DEF WriteSucceeded, Untouched, taskVars
  <2>2. A!Admitted(c) /\ tunnel[c] = "open"
    BY <1>0, <2>1 DEF ClientInv, Spoken, Joined, Asking, Tunnelled
  <2>3. A!Grant(c)
    BY <2>1, <2>2 DEF Tell, A!Grant, A!Tell
  <2> QED BY <2>3 DEF A!Next
<1> QED BY <1>1, <1>2, <1>3, <1>4

\* A channel is opened for a client that is admitted and asked for a target
\* that can be reached.
LEMMA OpenedRefines ==
    ASSUME Socks5Inv, NEW c \in Conns, Opened(c)
    PROVE  A!Next
<1>1. /\ cpc[c] = "opening" /\ UNCHANGED <<says, told>>
      /\ tunnel' = [tunnel EXCEPT ![c] = "open"]
  BY DEF Opened, Untouched, taskVars
<1>2. A!Admitted(c) /\ A!Reachable(says[c].request)
  BY <1>1, ChannelKnown
<1>3. tunnel[c] = "none"
  BY <1>1, Parts DEF ClientInv, Joined, Tunnelled, Relaying
<1>4. A!OpenTunnel(c)
  BY <1>1, <1>2, <1>3 DEF A!OpenTunnel
<1> QED BY <1>4 DEF A!Next

\* All other steps of a task say nothing and open nothing.
LEMMA QuietRefines ==
    ASSUME Socks5Inv, NEW c \in Conns, TaskStep(c) \/ PeerStep(c),
           ~WriteMethod(c), ~WriteStatus(c), ~WriteFailure(c),
           ~WriteSucceeded(c), ~Opened(c)
    PROVE  [A!Next]_(A!vars)
<1> DEFINE Quiet == UNCHANGED <<says, told>>
           Leaves == \E reason : Finish(c, reason)
           Goes == \E next : Enter(c, next)
<1>1. CASE ReadMethods(c) \/ ReadCredentials(c) \/ ReadRequest(c)
  <2>1. Quiet /\ (Leaves \/ Goes)
    BY <1>1, RequestJudged DEF ReadMethods, ReadCredentials, ReadRequest, Fail, Untouched,
       taskVars
  <2> QED BY <2>1, FinishRefines, EnterRefines
<1>2. CASE ReadFails(c) \/ ReadTimeout(c) \/ OpenFails(c) \/ OpenTimeout(c)
  <2>1. Quiet /\ (Leaves \/ Goes)
    BY <1>2 DEF ReadFails, ReadTimeout, OpenFails, OpenTimeout, Fail, Untouched,
       taskVars
  <2> QED BY <2>1, FinishRefines, EnterRefines
<1>3. CASE NextCheck(c) \/ WriteFails(c) \/ WriteTimeout(c) \/ HandshakeCancelled(c)
  <2>1. Quiet /\ (Leaves \/ Goes)
    BY <1>3 DEF NextCheck, WriteFails, WriteTimeout, HandshakeCancelled,
       Untouched, taskVars
  <2> QED BY <2>1, FinishRefines, EnterRefines
<1>4. CASE CopyEnds(c) \/ ShutdownDone(c) \/ RelayCancelled(c) \/ RelayTimeout(c)
  <2>1. Quiet /\ Leaves
    BY <1>4 DEF CopyEnds, ShutdownDone, RelayCancelled, RelayTimeout, Untouched,
       taskVars
  <2> QED BY <2>1, FinishRefines
<1>5. CASE BeginShutdown(c) \/ ReleasePermit(c)
  BY <1>5 DEF BeginShutdown, ReleasePermit, Untouched, taskVars, A!vars
<1> QED BY <1>1, <1>2, <1>3, <1>4, <1>5 DEF TaskStep, PeerStep

\* Every step is one of the abstract dialogue or none that a client notices.
LEMMA StepRefines == Socks5Inv /\ [Next]_vars => [A!Next]_(A!vars)
<1> SUFFICES ASSUME Socks5Inv, [Next]_vars PROVE [A!Next]_(A!vars)
  OBVIOUS
<1>1. ASSUME NEW c \in Conns, NEW s \in Scripts, Connect(c, s) PROVE A!Next
  <2>1. says[c] = Silent
    BY <1>1, Parts DEF Connect, ClientInv, Placed
  <2>2. A!Arrive(c)
    BY <1>1, <2>1 DEF Connect, A!Arrive
  <2> QED BY <2>2 DEF A!Next
<1>2. ASSUME NEW r \in Runs,
             \/ Cancel(r) \/ Expire(r) \/ RunStart(r) \/ RunStep(r)
             \/ AcceptFails(r) \/ \E c \in Conns : Accept(r, c)
      PROVE  UNCHANGED A!vars
  BY <1>2 DEF Cancel, Expire, RunStart, RunStep, AcceptCancelled, AcceptTimeout,
     AcceptFails, Returned, Accept, taskVars, A!vars
<1>3. ASSUME NEW c \in Conns, HandshakeExpires(c) PROVE UNCHANGED A!vars
  BY <1>3 DEF HandshakeExpires, taskVars, A!vars
<1>4. ASSUME NEW c \in Conns, Admit(c) PROVE [A!Next]_(A!vars)
  <2>1. UNCHANGED <<says, told>>
    BY <1>4 DEF Admit, taskVars
  <2>2. UNCHANGED tunnel \/ Enter(c, "greeting")
    BY <1>4 DEF Admit
  <2> QED BY <2>1, <2>2, EnterRefines DEF A!vars
<1>5. ASSUME NEW c \in Conns, TaskStep(c) \/ PeerStep(c)
      PROVE  [A!Next]_(A!vars)
  BY <1>5, MessageRefines, OpenedRefines, QuietRefines
<1>6. CASE UNCHANGED vars
  BY <1>6 DEF vars, taskVars, A!vars
<1> QED BY <1>1, <1>2, <1>3, <1>4, <1>5, <1>6 DEF Next

\* The proxy tells its clients what a SOCKS5 proxy promises: one method, one
\* verdict, one reply that fits, and a channel only for who may have it.
THEOREM DialogueImplemented == SafetySpec => ImplementsDialogue
<1>1. Init => A!Init
  BY DEF Init, A!Init
<1> QED BY <1>1, Socks5Invariant, StepRefines, PTL
        DEF SafetySpec, ImplementsDialogue, A!Spec
=============================================================================
