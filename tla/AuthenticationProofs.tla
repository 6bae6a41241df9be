------------------------ MODULE AuthenticationProofs ------------------------
(***************************************************************************)
(* AuthInv is inductive: for any plans, any methods a server may name, any *)
(* agents and any number of prompts, authenticate() tries the plan in      *)
(* order, stops on a closed connection, and its failure reports the last   *)
(* attempt's error and the server's last answer.                           *)
(***************************************************************************)
EXTENDS Authentication, TLAPS

\* The attempt that record_failure or record_error appends.
NewAttempt(error) == [method |-> method, error |-> error, heard |-> reply,
                      bare |-> bare]

-----------------------------------------------------------------------------
(* The observation after one more attempt. *)

\* Plan and attempts are sequences.
LEMMA Sequenced ==
    ASSUME TypeOK
    PROVE  /\ plan \in Seq(Kinds) /\ Len(plan) \in Nat
           /\ attempts \in Seq(Attempts) /\ Len(attempts) \in Nat
           /\ DOMAIN attempts = 1..Len(attempts)
<1>1. plan \in Plans /\ attempts \in Seq(Attempts)
  BY DEF TypeOK
<1>2. plan \in Seq(Kinds)
  BY <1>1, AuthenticationAssumption
<1> QED BY <1>1, <1>2

\* The greatest element is the one Max picks.
LEMMA MaxIs ==
    ASSUME NEW S \in SUBSET Nat, NEW m \in S, \A j \in S : m >= j
    PROVE  Max(S) = m
<1>1. Max(S) \in S /\ \A j \in S : Max(S) >= j
  BY DEF Max
<1>2. Max(S) \in Nat /\ m \in Nat /\ Max(S) >= m /\ m >= Max(S)
  BY <1>1
<1> QED BY <1>2

\* One more attempt, recorded by Recorded(error), is typed, is the last and
\* leaves the others alone.
LEMMA OneMore ==
    ASSUME AuthInv, NEW error \in BOOLEAN, Recorded(error),
           Len(attempts) < Len(plan)
    PROVE  /\ attempts' \in Seq(Attempts)
           /\ Len(attempts') = Len(attempts) + 1
           /\ \A i \in 1..Len(attempts) : attempts'[i] = attempts[i]
           /\ attempts'[Len(attempts) + 1] = NewAttempt(error)
           /\ method = plan[Len(attempts) + 1]
<1>1. NewAttempt(error) \in Attempts
  <2>1. plan \in Seq(Kinds) /\ Len(attempts) \in Nat
    BY Sequenced DEF AuthInv
  <2>2. method \in Kinds
    BY <2>1 DEF method
  <2>3. reply \in SUBSET Outcomes /\ bare \in BOOLEAN
    BY DEF AuthInv, TypeOK
  <2> QED BY <2>2, <2>3 DEF NewAttempt, Attempts
<1>2. attempts' = Append(attempts, NewAttempt(error))
  BY DEF Recorded, NewAttempt
<1>3. attempts \in Seq(Attempts)
  BY DEF AuthInv, TypeOK
<1> QED BY <1>1, <1>2, <1>3 DEF method

\* An error adds no refusal.
LEMMA RefusedKept ==
    ASSUME AuthInv, Recorded(TRUE), Len(attempts) < Len(plan)
    PROVE  /\ Refused' = Refused
           /\ \A i \in Refused : attempts'[i] = attempts[i]
<1> DEFINE last == Len(attempts) + 1
<1>1. Len(attempts) \in Nat /\ DOMAIN attempts = 1..Len(attempts)
  BY Sequenced DEF AuthInv
<1>2. /\ attempts' \in Seq(Attempts) /\ Len(attempts') = last
      /\ \A i \in 1..Len(attempts) : attempts'[i] = attempts[i]
      /\ attempts'[last] = NewAttempt(TRUE)
  BY OneMore
<1>3. DOMAIN attempts' = 1..last /\ attempts'[last].error
  BY <1>2 DEF NewAttempt
<1>4. 1..last = 1..Len(attempts) \cup {last} /\ last \notin 1..Len(attempts)
  BY <1>1
<1>5. \A i \in 1..Len(attempts) : attempts'[i].error = attempts[i].error
  BY <1>2
<1> HIDE DEF last
<1>6. Refused' = Refused
  BY <1>1, <1>3, <1>4, <1>5 DEF Refused
<1> QED BY <1>1, <1>2, <1>6 DEF Refused

\* A refusal is the last one.
LEMMA RefusedGrows ==
    ASSUME AuthInv, Recorded(FALSE), Len(attempts) < Len(plan)
    PROVE  /\ Refused' = Refused \cup {Len(attempts) + 1}
           /\ \A i \in Refused : attempts'[i] = attempts[i]
           /\ Max(Refused') = Len(attempts) + 1
           /\ \A j \in Refused' : Len(attempts) + 1 >= j
<1> DEFINE last == Len(attempts) + 1
<1>1. Len(attempts) \in Nat /\ DOMAIN attempts = 1..Len(attempts)
  BY Sequenced DEF AuthInv
<1>2. /\ Refused' = Refused \cup {last}
      /\ \A i \in Refused : attempts'[i] = attempts[i]
  <2>1. /\ attempts' \in Seq(Attempts) /\ Len(attempts') = last
        /\ \A i \in 1..Len(attempts) : attempts'[i] = attempts[i]
        /\ attempts'[last] = NewAttempt(FALSE)
    BY OneMore
  <2>2. DOMAIN attempts' = 1..last /\ ~attempts'[last].error
    BY <2>1 DEF NewAttempt
  <2>3. 1..last = 1..Len(attempts) \cup {last} /\ last \notin 1..Len(attempts)
    BY <1>1
  <2>4. \A i \in 1..Len(attempts) : attempts'[i].error = attempts[i].error
    BY <2>1
  <2> HIDE DEF last
  <2>5. Refused' = Refused \cup {last}
    BY <1>1, <2>2, <2>3, <2>4 DEF Refused
  <2> QED BY <1>1, <2>1, <2>5 DEF Refused
<1>3. \A j \in Refused' : Len(attempts) + 1 >= j
  BY <1>1, <1>2 DEF Refused
<1>4. Refused' \in SUBSET Nat
  BY <1>1, <1>2 DEF Refused
<1>5. Max(Refused') = Len(attempts) + 1
  BY <1>1, <1>2, <1>3, <1>4, MaxIs
<1> QED BY <1>2, <1>3, <1>5

-----------------------------------------------------------------------------
(* AuthInv is inductive. *)

\* authenticate() has not begun.
LEMMA InitAuthInv == Init => AuthInv
<1> SUFFICES ASSUME Init PROVE AuthInv
  OBVIOUS
<1> USE DEF Init
<1>1. TypeOK
  <2>1. NoOutcome \in Outcomes
    BY DEF Outcomes, NoOutcome
  <2>2. attempts \in Seq(Attempts) /\ 0 \in 0..MaxRounds /\ reply \in SUBSET Outcomes
    BY AuthenticationAssumption
  <2> QED BY <2>1, <2>2 DEF TypeOK
<1>2. Refused = {}
  BY DEF Refused
<1>3. ObservationFollowsServer /\ LastRefusal
  BY <1>2 DEF ObservationFollowsServer, LastRefusal
<1>4. Len(attempts) = 0 /\ Len(plan) \in Nat
  BY <1>1, Sequenced
<1>5. Progress /\ Answered /\ Closing /\ StopsWhenClosed
  BY <1>4 DEF Progress, Answered, Closing, StopsWhenClosed
<1>6. PlanTried /\ ErrorOfLastAttempt
  BY <1>4 DEF PlanTried, ErrorOfLastAttempt, Failed
<1>7. ErrorKept
  BY Zenon DEF ErrorKept
<1> QED BY <1>1, <1>3, <1>5, <1>6, <1>7 DEF AuthInv

\* A step that records nothing leaves what is said of the attempts alone.
LEMMA NothingRecorded ==
    ASSUME AuthInv, UNCHANGED <<plan, attempts, observed, lastError>>
    PROVE  ErrorKept' /\ LastRefusal' /\ ObservationFollowsServer'
<1>1. Refused' = Refused
  BY DEF Refused
<1> QED BY <1>1 DEF AuthInv, ErrorKept, LastRefusal, ObservationFollowsServer

\* The method that begins has its own requests and no outcome yet.
LEMMA BeginInv ==
    ASSUME AuthInv, pc = "method", Len(attempts) < Len(plan),
           NEW n \in Nat, NEW to, NEW empty \in BOOLEAN, BeginAs(n, to, empty),
           \/ to = "error" /\ ~empty
           \/ to = "failure" /\ empty
           \/ to = "request" /\ ~empty /\ n > 0
    PROVE  AuthInv'
<1>1. TypeOK'
  BY AuthenticationAssumption DEF BeginAs, AuthInv, TypeOK, Outcomes, NoOutcome
<1>2. ErrorKept' /\ LastRefusal' /\ ObservationFollowsServer'
  BY NothingRecorded DEF BeginAs
<1>3. PlanTried' /\ ErrorOfLastAttempt'
  BY DEF AuthInv, BeginAs, PlanTried, ErrorOfLastAttempt, Failed, Progress
<1> QED BY <1>1, <1>2, <1>3
        DEF AuthInv, BeginAs, Progress, Answered, Closing, StopsWhenClosed, TypeOK

\* A step inside a method, or the one that enters the loop.
LEMMA WithinInv ==
    ASSUME AuthInv, TypeOK',
           UNCHANGED <<plan, attempts, observed, lastError, result, bare, late>>,
           closed => closed', pc' # "done", Progress', Answered', Closing'
    PROVE  AuthInv'
<1>1. ErrorKept' /\ LastRefusal' /\ ObservationFollowsServer'
  BY NothingRecorded
<1>2. PlanTried' /\ ErrorOfLastAttempt'
  BY DEF AuthInv, PlanTried, ErrorOfLastAttempt, Failed, Progress
<1> QED BY <1>1, <1>2 DEF AuthInv, StopsWhenClosed

\* authenticate() returns without one more attempt.
LEMMA FinishInv ==
    ASSUME AuthInv, pc # "done",
           NEW res \in {"ok", "configuration", "methodError", "authentication",
                        "dropped"},
           Finish(res),
           res \in {"methodError", "authentication"} =>
               /\ attempts # <<>> /\ Len(attempts) = Len(plan)
               /\ res = (IF lastError THEN "methodError" ELSE "authentication")
    PROVE  AuthInv'
<1>1. TypeOK'
  BY DEF Finish, AuthInv, TypeOK
<1>2. ErrorKept' /\ LastRefusal' /\ ObservationFollowsServer'
  BY NothingRecorded DEF Finish
<1>3. PlanTried'
  BY DEF AuthInv, Finish, PlanTried, Failed
<1>4. ErrorOfLastAttempt'
  <2>1. CASE res \in {"methodError", "authentication"}
    <3>1. Len(attempts) \in 1..Len(attempts) /\ attempts \in Seq(Attempts)
      BY <2>1, Sequenced DEF AuthInv
    <3>2. attempts[Len(attempts)].error \in BOOLEAN
      <4>1. attempts[Len(attempts)] \in Attempts
        BY <3>1
      <4> QED BY <4>1 DEF Attempts
    <3>3. lastError = attempts[Len(attempts)].error
      BY <2>1, <3>2 DEF AuthInv, ErrorKept
    <3> QED BY <2>1, <3>2, <3>3 DEF Finish, ErrorOfLastAttempt
  <2>2. CASE res \notin {"methodError", "authentication"}
    BY <2>2 DEF Finish, ErrorOfLastAttempt, Failed
  <2> QED BY <2>1, <2>2
<1> QED BY <1>1, <1>2, <1>3, <1>4
        DEF AuthInv, Finish, Progress, Answered, Closing, StopsWhenClosed, TypeOK

\* record_failure: the observation becomes what this method heard.
LEMMA RecordFailureInv == AuthInv /\ RecordFailure => AuthInv'
<1> SUFFICES ASSUME AuthInv, RecordFailure PROVE AuthInv'
  OBVIOUS
<1>1. Recorded(FALSE) /\ Len(attempts) < Len(plan) /\ pc = "failure"
  BY DEF RecordFailure, AuthInv, Progress
<1> DEFINE last == Len(attempts) + 1
<1>2. /\ attempts' \in Seq(Attempts) /\ Len(attempts') = last
      /\ \A i \in 1..Len(attempts) : attempts'[i] = attempts[i]
      /\ attempts'[last] = NewAttempt(FALSE)
      /\ method = plan[last]
  BY <1>1, OneMore
<1>3. /\ Refused' = Refused \cup {last}
      /\ \A i \in Refused : attempts'[i] = attempts[i]
      /\ Max(Refused') = last
      /\ \A j \in Refused' : last >= j
  BY <1>1, RefusedGrows
<1>4. TypeOK'
  <2>1. late' \in Nat
    BY <1>1 DEF Recorded, AuthInv, TypeOK
  <2> QED BY <1>2, <2>1 DEF RecordFailure, AuthInv, TypeOK
<1>5. /\ attempts'[last].heard = reply /\ attempts'[last].bare = bare
      /\ attempts'[last].method = plan[last] /\ attempts'[last].error = FALSE
  BY <1>2 DEF NewAttempt
<1>6. IF bare THEN reply = {} /\ outcome = NoOutcome ELSE reply = {outcome}
  BY <1>1 DEF AuthInv, Answered
<1>7. ObservationFollowsServer'
  BY <1>3, <1>5, <1>6 DEF ObservationFollowsServer, RecordFailure
<1>8. LastRefusal'
  BY <1>3 DEF LastRefusal, AuthInv
<1>9. Len(attempts) \in Nat /\ Len(plan) \in Nat /\ attempts' # <<>>
  BY <1>2, Sequenced DEF AuthInv
<1>10. result' = "none" /\ pc' = "method" /\ plan' = plan
  BY <1>1 DEF RecordFailure, AuthInv, Progress
<1>11. ErrorKept'
  BY <1>2, <1>5, <1>9 DEF ErrorKept, RecordFailure
<1>12. PlanTried' /\ ErrorOfLastAttempt'
  <2>1. 1..last = 1..Len(attempts) \cup {last}
    BY <1>9
  <2> HIDE DEF last
  <2> QED BY <1>2, <1>5, <1>10, <2>1
          DEF PlanTried, ErrorOfLastAttempt, Failed, AuthInv
<1>13. Closing' /\ StopsWhenClosed'
  BY <1>1 DEF AuthInv, TypeOK, Closing, StopsWhenClosed, RecordFailure, Recorded
<1>14. Progress' /\ Answered'
  BY <1>1, <1>2, <1>9, <1>10 DEF AuthInv, Progress, Answered
<1> QED BY <1>4, <1>7, <1>8, <1>11, <1>12, <1>13, <1>14 DEF AuthInv

\* record_error: the observation stays, and a closed connection ends the plan.
LEMMA RecordErrorInv == AuthInv /\ RecordError => AuthInv'
<1> SUFFICES ASSUME AuthInv, RecordError PROVE AuthInv'
  OBVIOUS
<1>1. Recorded(TRUE) /\ Len(attempts) < Len(plan) /\ pc = "error" /\ ~bare
  BY DEF RecordError, AuthInv, Progress, Answered
<1> DEFINE last == Len(attempts) + 1
<1>2. /\ attempts' \in Seq(Attempts) /\ Len(attempts') = last
      /\ \A i \in 1..Len(attempts) : attempts'[i] = attempts[i]
      /\ attempts'[last] = NewAttempt(TRUE)
      /\ method = plan[last]
  BY <1>1, OneMore
<1>3. /\ Refused' = Refused
      /\ \A i \in Refused : attempts'[i] = attempts[i]
  BY <1>1, RefusedKept
<1>4. TypeOK'
  BY <1>2 DEF RecordError, Recorded, AuthInv, TypeOK
<1>5. Refused # {} => Max(Refused) \in Refused
  BY DEF AuthInv, LastRefusal, Max
<1>6. ObservationFollowsServer' /\ LastRefusal'
  BY <1>3, <1>5 DEF ObservationFollowsServer, LastRefusal, RecordError, AuthInv
<1>7. Len(attempts) \in Nat /\ Len(plan) \in Nat /\ attempts' # <<>>
  BY <1>2, Sequenced DEF AuthInv
<1>8. ErrorKept' /\ PlanTried' /\ ErrorOfLastAttempt'
  <2>1. attempts'[last].method = plan[last] /\ attempts'[last].error = TRUE
    BY <1>2 DEF NewAttempt
  <2>2. /\ plan' = plan /\ lastError' = TRUE
        /\ result' = IF closed THEN "methodError" ELSE "none"
        /\ closed' = closed
    BY <1>1 DEF RecordError, AuthInv, Progress
  <2>3. ErrorKept' /\ ErrorOfLastAttempt'
    BY <1>2, <1>7, <2>1, <2>2 DEF ErrorKept, ErrorOfLastAttempt, Failed
  <2>4. 1..last = 1..Len(attempts) \cup {last}
    BY <1>7
  <2> HIDE DEF last
  <2> QED BY <1>2, <2>1, <2>2, <2>3, <2>4 DEF PlanTried, Failed, AuthInv
<1>9. Closing' /\ StopsWhenClosed'
  BY <1>1 DEF AuthInv, TypeOK, Closing, StopsWhenClosed, RecordError, Recorded
<1>10. Progress' /\ Answered'
  BY <1>1, <1>2, <1>7 DEF AuthInv, Progress, Answered, RecordError
<1> QED BY <1>4, <1>6, <1>8, <1>9, <1>10 DEF AuthInv

\* Every step of authenticate() and of its peers keeps the invariant.
LEMMA NextAuthInv == AuthInv /\ [Next]_vars => AuthInv'
<1> SUFFICES ASSUME AuthInv, [Next]_vars PROVE AuthInv'
  OBVIOUS
<1>0. /\ TypeOK /\ Progress /\ Answered /\ Closing
      /\ Len(attempts) \in Nat /\ Len(plan) \in Nat
  BY AuthenticationAssumption DEF AuthInv, TypeOK
<1>1. CASE Start
  <2>1. CASE Finish("configuration")
    BY <1>1, <2>1, FinishInv DEF Start
  <2>2. CASE ~Finish("configuration")
    BY <1>0, <1>1, <2>2, WithinInv DEF Start, TypeOK, Progress, Answered, Closing
  <2> QED BY <2>1, <2>2
<1>2. CASE PlanExhausted
  <2>1. attempts # <<>> /\ Len(attempts) = Len(plan)
    BY <1>0, <1>2, AuthenticationAssumption DEF PlanExhausted, Progress, TypeOK
  <2>2. PICK res \in {"methodError", "authentication"} :
           /\ Finish(res)
           /\ res = IF lastError THEN "methodError" ELSE "authentication"
    BY <1>2 DEF PlanExhausted
  <2> QED BY <1>2, <2>1, <2>2, FinishInv DEF PlanExhausted
<1>3. ASSUME pc = "method", Len(attempts) < Len(plan), NEW n \in Nat, n > 0,
             Begin(n, "request")
      PROVE  AuthInv'
  BY <1>3, BeginInv DEF Begin
<1>4. ASSUME pc = "method", Len(attempts) < Len(plan), Begin(0, "error")
      PROVE  AuthInv'
  BY <1>4, BeginInv DEF Begin
<1>5. CASE \/ BeginPassword \/ BeginKeyboardInteractive
           \/ BeginPrivateKey \/ BeginOpenSshCertificate
  BY <1>3, <1>4, <1>5 DEF BeginPassword, BeginKeyboardInteractive,
     BeginPrivateKey, BeginOpenSshCertificate, Turn
<1>6. CASE BeginAgent
  <2>1. CASE Begin(0, "error")
    BY <1>4, <1>6, <2>1 DEF BeginAgent, Turn
  <2>2. CASE BeginAs(0, "failure", TRUE)
    BY <1>6, <2>2, BeginInv DEF BeginAgent, Turn
  <2>3. CASE \E n \in Identities : n # 0 /\ \E requests \in n..2 * n :
                 Begin(requests, "request")
    <3>1. PICK n \in Nat \ {0} : \E requests \in n..2 * n :
                 Begin(requests, "request")
      BY <2>3, AuthenticationAssumption
    <3>2. PICK requests \in n..2 * n : Begin(requests, "request")
      BY <3>1
    <3>3. requests \in Nat /\ requests > 0
      BY <3>2
    <3> QED BY <1>3, <1>6, <3>2, <3>3 DEF BeginAgent, Turn
  <2> QED BY <1>6, <2>1, <2>2, <2>3 DEF BeginAgent
<1>7. CASE Succeed
  BY <1>7, FinishInv DEF Succeed
<1>8. CASE RequestFails
  BY <1>0, <1>8, WithinInv DEF RequestFails, TypeOK, Progress, Answered, Closing
<1>9. CASE InfoRequest
  <2>1. rounds' \in 0..MaxRounds
    BY <1>0, <1>9, AuthenticationAssumption DEF InfoRequest, TypeOK
  <2> QED BY <1>0, <1>9, <2>1, WithinInv
          DEF InfoRequest, TypeOK, Progress, Answered, Closing
<1>10. CASE Respond
  BY <1>0, <1>10, WithinInv DEF Respond, TypeOK, Progress, Answered, Closing
<1>11. ASSUME NEW said \in Outcomes, Refuse(said) PROVE AuthInv'
  <2>1. TypeOK'
    BY <1>0, <1>11 DEF Refuse, TypeOK, Progress
  <2>2. Progress' /\ Answered' /\ Closing'
    BY <1>0, <1>11 DEF Refuse, TypeOK, Progress, Answered, Closing
  <2> QED BY <1>11, <2>1, <2>2, WithinInv DEF Refuse
<1>12. CASE RecordFailure
  BY <1>12, RecordFailureInv
<1>13. CASE RecordError
  BY <1>13, RecordErrorInv
<1>14. CASE Close
  BY <1>0, <1>14, WithinInv DEF Close, TypeOK, Progress, Answered, Closing
<1>15. CASE Drop
  BY <1>15, FinishInv DEF Drop, Turn
<1>16. CASE UNCHANGED vars
  <2>1. Refused' = Refused
    BY <1>16 DEF vars, Refused
  <2> QED BY <1>16, <2>1 DEF vars, AuthInv, TypeOK, Progress, Answered, ErrorKept,
          Closing, LastRefusal, ObservationFollowsServer, PlanTried,
          ErrorOfLastAttempt, StopsWhenClosed, Failed
<1> QED BY <1>1, <1>2, <1>3, <1>4, <1>5, <1>6, <1>7, <1>8, <1>9, <1>10, <1>11,
           <1>12, <1>13, <1>14, <1>15, <1>16 DEF Next

-----------------------------------------------------------------------------
(* What follows. *)

\* The invariant holds throughout authenticate().
THEOREM AuthInvariant == Spec => []AuthInv
BY InitAuthInv, NextAuthInv, PTL DEF Spec

\* The remaining methods and the partial-success state of a failure are those
\* of the server's last refusal, whatever errors came after it.
THEOREM ObservationIsServers == Spec => []ObservationFollowsServer
<1>1. AuthInv => ObservationFollowsServer
  BY DEF AuthInv
<1> QED BY <1>1, AuthInvariant, PTL

\* A failure with the connection up has tried the whole plan, in order.
THEOREM WholePlanTried == Spec => []PlanTried
<1>1. AuthInv => PlanTried
  BY DEF AuthInv
<1> QED BY <1>1, AuthInvariant, PTL

\* The error that is returned is that of the last attempt.
THEOREM LastErrorReturned == Spec => []ErrorOfLastAttempt
<1>1. AuthInv => ErrorOfLastAttempt
  BY DEF AuthInv
<1> QED BY <1>1, AuthInvariant, PTL

\* A closed connection ends the plan with the method after the one in
\* progress at the latest.
THEOREM CloseStopsPlan == Spec => []StopsWhenClosed
<1>1. AuthInv => StopsWhenClosed
  BY DEF AuthInv
<1> QED BY <1>1, AuthInvariant, PTL
=============================================================================
