--------------------------- MODULE Authentication ---------------------------
(***************************************************************************)
(* authenticate() of core/session.rs, the methods it tries one after the   *)
(* other, and the AuthenticationObservation of core/auth.rs that a failure *)
(* carries.  The server, the SSH agent and the callback that answers       *)
(* prompts are external: they answer, fail or close as they like.  Keys,   *)
(* names and texts are left out; of a private key or an agent identity     *)
(* there remains the number of signature requests it leads to, one per     *)
(* RSA hash that rsa_hash_candidates returns.                              *)
(***************************************************************************)
EXTENDS Naturals, Sequences, FiniteSetsExt

CONSTANTS Plans,          \* the plans a caller may pass
          ServerMethods,  \* names of methods a server may say remain
          Identities,     \* how many identities the agent may hold
          MaxRounds       \* bound: prompts in one keyboard-interactive method

Kinds == {"Password", "PrivateKey", "OpenSshCertificate",
          "KeyboardInteractive", "Agent"}

ASSUME AuthenticationAssumption ==
    /\ Plans \subseteq Seq(Kinds)
    /\ Identities \subseteq Nat
    /\ MaxRounds \in Nat

VARIABLES plan,      \* the methods, in order
          pc,        \* where authenticate() is
          left,      \* signature requests this method may still make
          rounds,    \* prompts this method has answered
          outcome,   \* the AuthOutcome of this method so far
          attempts,  \* AuthenticationObservation.attempts
          observed,  \* its remaining_methods and partial_success
          lastError, \* last_error is set
          closed,    \* handle.is_closed()
          result,    \* how authenticate() ended
          reply,     \* history: the last refusal of this method that russh
                     \* handed over as the server's
          bare,      \* history: this method is an agent without identities
          late       \* history: attempts recorded since the close

vars == <<plan, pc, left, rounds, outcome, attempts, observed, lastError,
          closed, result, reply, bare, late>>

Outcomes == [remaining : SUBSET ServerMethods, partial : BOOLEAN]
NoOutcome == [remaining |-> {}, partial |-> FALSE]   \* AuthOutcome::default()

\* AuthenticationAttempt; the rest is history: the last refusal of the method,
\* as a set because there may be none, and bare.
Attempts == [method : Kinds, error : BOOLEAN, heard : SUBSET Outcomes,
             bare : BOOLEAN]

TypeOK ==
    /\ plan \in Plans
    /\ pc \in {"start", "method", "request", "prompt", "failure", "error", "done"}
    /\ left \in Nat /\ rounds \in 0..MaxRounds
    /\ outcome \in Outcomes
    /\ attempts \in Seq(Attempts)
    /\ observed \in Outcomes
    /\ lastError \in BOOLEAN /\ closed \in BOOLEAN
    /\ result \in {"none", "ok", "configuration", "methodError",
                   "authentication", "dropped"}
    /\ reply \in SUBSET Outcomes
    /\ bare \in BOOLEAN
    /\ late \in Nat

Init ==
    /\ plan \in Plans
    /\ pc = "start"
    /\ left = 0 /\ rounds = 0
    /\ outcome = NoOutcome
    /\ attempts = <<>>
    /\ observed = NoOutcome
    /\ lastError = FALSE /\ closed = FALSE
    /\ result = "none"
    /\ reply = {} /\ bare = FALSE /\ late = 0

method == plan[Len(attempts) + 1]

Turn(kind) ==
    /\ pc = "method"
    /\ Len(attempts) < Len(plan)
    /\ method = kind

-----------------------------------------------------------------------------
(* Mutated forms of the operations, each a plausible slip in this code.    *)

Recorded(error) ==
    /\ attempts' = Append(attempts, [method |-> method, error |-> error,
                                     heard |-> reply, bare |-> bare])
    /\ late' = IF closed /\ ~bare THEN late + 1 ELSE late

\* last_error is not cleared when the server refuses a later method.
RecordFailureKeepsError ==
    /\ pc = "failure"
    /\ Recorded(FALSE)
    /\ observed' = outcome
    /\ pc' = "method"
    /\ UNCHANGED <<plan, left, rounds, outcome, lastError, closed, result,
                   reply, bare>>

\* An error of the method resets what the server had said remains.
RecordErrorResets ==
    /\ pc = "error"
    /\ Recorded(TRUE)
    /\ observed' = NoOutcome
    /\ lastError' = TRUE
    /\ pc' = "method"
    /\ UNCHANGED <<plan, left, rounds, outcome, closed, result, reply, bare>>

\* Any error of a method ends the plan.
RecordErrorGivesUp ==
    /\ pc = "error"
    /\ Recorded(TRUE)
    /\ lastError' = TRUE
    /\ pc' = "done"
    /\ result' = "methodError"
    /\ UNCHANGED <<plan, left, rounds, outcome, observed, closed, reply, bare>>

\* The plan goes on although the connection is closed.
RecordErrorIgnoresClose ==
    /\ pc = "error"
    /\ Recorded(TRUE)
    /\ lastError' = TRUE
    /\ pc' = "method"
    /\ UNCHANGED <<plan, left, rounds, outcome, observed, closed, result, reply,
                   bare>>

-----------------------------------------------------------------------------
(* authenticate() *)

Finish(res) ==
    /\ pc' = "done"
    /\ result' = res
    /\ UNCHANGED <<plan, left, rounds, outcome, attempts, observed, lastError,
                   closed, reply, bare, late>>

Start ==
    /\ pc = "start"
    /\ \/ plan = <<>> /\ Finish("configuration")
       \/ /\ plan # <<>>
          /\ pc' = "method"
          /\ UNCHANGED <<plan, left, rounds, outcome, attempts, observed,
                         lastError, closed, result, reply, bare, late>>

PlanExhausted ==
    /\ pc = "method"
    /\ Len(attempts) = Len(plan)
    /\ Finish(IF lastError THEN "methodError" ELSE "authentication")

\* authenticate_method: the next one of the plan, with n requests to make.
BeginAs(n, to, empty) ==
    /\ left' = n
    /\ rounds' = 0
    /\ outcome' = NoOutcome
    /\ reply' = {}
    /\ bare' = empty
    /\ pc' = to
    /\ UNCHANGED <<plan, attempts, observed, lastError, closed, result, late>>

Begin(n, to) == BeginAs(n, to, FALSE)

BeginPassword == Turn("Password") /\ Begin(1, "request")

BeginKeyboardInteractive ==
    Turn("KeyboardInteractive") /\ Begin(1, "request")

\* Decryption may fail; without server-sig-algs an RSA key is tried twice.
BeginPrivateKey ==
    /\ Turn("PrivateKey")
    /\ \/ Begin(0, "error")
       \/ \E hashes \in {1, 2} : Begin(hashes, "request")

\* Decryption and the two checks of the certificate may fail.
BeginOpenSshCertificate ==
    /\ Turn("OpenSshCertificate")
    /\ \/ Begin(0, "error")
       \/ Begin(1, "request")

\* An agent out of reach passes for an agent without identities.
BeginAgentUnreachableOk ==
    /\ Turn("Agent")
    /\ \/ Begin(0, "failure")
       \/ \E n \in Identities :
            IF n = 0 THEN BeginAs(0, "failure", TRUE)
                     ELSE \E requests \in n..2 * n : Begin(requests, "request")

\* The agent may be out of reach; without identities no request is made and
\* the default outcome stands.
BeginAgent ==
    /\ Turn("Agent")
    /\ \/ Begin(0, "error")
       \/ \E n \in Identities :
            IF n = 0 THEN BeginAs(0, "failure", TRUE)
                     ELSE \E requests \in n..2 * n : Begin(requests, "request")

\* auth_outcome of a refusal; the next candidate, or the method is over.  A
\* connection that is lost under a request may come from russh as a refusal
\* that names no methods: that is this step with NoOutcome, then Close.
Refuse(said) ==
    /\ pc = "request"
    /\ ~closed
    /\ outcome' = said
    /\ reply' = {said}
    /\ left' = left - 1
    /\ pc' = IF left = 1 THEN "failure" ELSE "request"
    /\ UNCHANGED <<plan, rounds, attempts, observed, lastError, closed, result,
                   bare, late>>

Succeed ==
    /\ pc = "request"
    /\ ~closed
    /\ Finish("ok")

\* A request fails: the transport broke or the agent would not sign.
RequestFails ==
    /\ pc = "request"
    /\ pc' = "error"
    /\ UNCHANGED <<plan, left, rounds, outcome, attempts, observed, lastError,
                   closed, result, reply, bare, late>>

InfoRequest ==
    /\ pc = "request"
    /\ method = "KeyboardInteractive"
    /\ ~closed
    /\ rounds < MaxRounds
    /\ rounds' = rounds + 1
    /\ pc' = "prompt"
    /\ UNCHANGED <<plan, left, outcome, attempts, observed, lastError, closed,
                   result, reply, bare, late>>

\* The handler answers every prompt, or fails, or answers too few or too many.
Respond ==
    /\ pc = "prompt"
    /\ \E to \in {"request", "error"} : pc' = to
    /\ UNCHANGED <<plan, left, rounds, outcome, attempts, observed, lastError,
                   closed, result, reply, bare, late>>

RecordFailure ==
    /\ pc = "failure"
    /\ Recorded(FALSE)
    /\ observed' = outcome
    /\ lastError' = FALSE
    /\ pc' = "method"
    /\ UNCHANGED <<plan, left, rounds, outcome, closed, result, reply, bare>>

RecordError ==
    /\ pc = "error"
    /\ Recorded(TRUE)
    /\ lastError' = TRUE
    /\ IF closed THEN pc' = "done" /\ result' = "methodError"
                 ELSE pc' = "method" /\ UNCHANGED result
    /\ UNCHANGED <<plan, left, rounds, outcome, observed, closed, reply, bare>>

\* The connection closes under the client.  A reply that was already on its
\* way is delivered after the close; the same behaviour has the close after
\* the delivery, so Refuse and Succeed ask for an open connection.
Close ==
    /\ pc # "done"
    /\ ~closed
    /\ closed' = TRUE
    /\ UNCHANGED <<plan, pc, left, rounds, outcome, attempts, observed,
                   lastError, result, reply, bare, late>>

\* authentication_context expires or is cancelled: the future is dropped at
\* the await it is in, observation and all.
Drop ==
    /\ \/ pc \in {"request", "prompt"}
       \/ Turn("PrivateKey") \/ Turn("Agent")   \* rsa hashes, connect_agent
    /\ Finish("dropped")

Next == \/ Start \/ PlanExhausted
        \/ BeginPassword \/ BeginPrivateKey \/ BeginOpenSshCertificate
        \/ BeginKeyboardInteractive \/ BeginAgent
        \/ Succeed \/ RequestFails \/ InfoRequest \/ Respond
        \/ \E said \in Outcomes : Refuse(said)
        \/ RecordFailure \/ RecordError
        \/ Close \/ Drop

Spec == Init /\ [][Next]_vars

-----------------------------------------------------------------------------
(* Properties *)

Failed == result \in {"methodError", "authentication"}

\* Attempts that were recorded as a refusal by the server.
Refused == {i \in DOMAIN attempts : ~attempts[i].error}

\* What a failure carries is what the last refusal of a method said (README:
\* remaining methods and partial-success state), whatever local errors came
\* after it: record_error leaves the two fields alone, and no local error
\* passes for a refusal.  An agent without identities does, and wipes it out.
ObservationFollowsServer ==
    IF Refused = {} \/ attempts[Max(Refused)].bare
      THEN observed = NoOutcome
      ELSE attempts[Max(Refused)].heard = {observed}

\* The plan falls back to the end: a failure with the connection up has tried
\* every method, in order, once each; the empty plan alone tries none.
PlanTried ==
    /\ \A i \in 1..Len(attempts) : attempts[i].method = plan[i]
    /\ Failed /\ ~closed => Len(attempts) = Len(plan)

\* The error that authenticate() returns is the last attempt's own when that
\* attempt ended in an error, and the general refusal when the server refused
\* it; an earlier method's error never hides a later refusal.
ErrorOfLastAttempt ==
    Failed => (result = "methodError") = attempts[Len(attempts)].error

\* A closed connection ends the plan: it is noticed at the latest by the
\* method after the one in progress.  Agents without identities do not count,
\* they ask the server nothing.
StopsWhenClosed == late <= 2

\* The inductive invariant in parts.  Where authenticate_method makes
\* requests there is one left to answer, and the plan is never overrun.
Progress ==
    /\ pc \in {"request", "prompt"} => left > 0
    /\ Len(attempts) <= Len(plan)
    /\ pc \in {"request", "prompt", "failure", "error"} =>
         Len(attempts) < Len(plan)
    /\ pc = "method" => plan # <<>>
    /\ pc # "done" => result = "none"
\* A method that is over without an error has the server's last refusal as
\* its outcome, and only an agent without identities has none.
Answered ==
    /\ pc = "failure" => IF bare THEN reply = {} /\ outcome = NoOutcome
                                 ELSE reply = {outcome}
    /\ pc \in {"request", "prompt", "error"} => ~bare
\* What the loop still knows of the last attempt.
ErrorKept == lastError = (attempts # <<>> /\ attempts[Len(attempts)].error)
\* Only the method in progress can still end in a refusal after a close.
Closing ==
    /\ ~closed => late = 0
    /\ pc # "done" => late <= 1
    /\ pc = "failure" /\ ~bare => late = 0
\* If a method was refused there is a last one that was.
LastRefusal == Refused # {} => \E i \in Refused : \A j \in Refused : i >= j
AuthInv ==
    /\ TypeOK
    /\ Progress /\ Answered /\ ErrorKept /\ Closing /\ LastRefusal
    /\ ObservationFollowsServer
    /\ PlanTried /\ ErrorOfLastAttempt
    /\ StopsWhenClosed
=============================================================================
