------------------------ MODULE RemoteForwardsProofs ------------------------
(***************************************************************************)
(* RemoteInv is inductive: for any addresses, paths, ports and any number  *)
(* of calls, handles name listeners that are real, results say whether a   *)
(* listener may be left behind, and a cancellation that returned Ok is     *)
(* effective.  The second half is about the channels that come through     *)
(* those forwards: ForwardedInv and NoneLost of ForwardedChannels, for any *)
(* callers and any number of channels and requests.                        *)
(***************************************************************************)
EXTENDS RemoteForwards, ForwardedChannels, TLAPS

Answers == [id : Calls, granted : BOOLEAN, port : Nat]

-----------------------------------------------------------------------------
(* Queues. *)

\* What is left of a queue after its head was taken.
LEMMA Taken ==
    ASSUME NEW S, NEW s \in Seq(S), s # <<>>
    PROVE  /\ 1 \in DOMAIN s /\ Head(s) = s[1] /\ Head(s) \in S
           /\ Tail(s) \in Seq(S)
           /\ \A n \in DOMAIN Tail(s) : /\ n + 1 \in DOMAIN s /\ 1 < n + 1
                                        /\ Tail(s)[n] = s[n + 1]
           /\ DOMAIN s \subseteq Nat /\ DOMAIN Tail(s) \subseteq Nat
OBVIOUS

\* A queue after an element was put at its end.
LEMMA Put ==
    ASSUME NEW S, NEW s \in Seq(S), NEW e \in S
    PROVE  /\ Append(s, e) \in Seq(S)
           /\ DOMAIN Append(s, e) = DOMAIN s \cup {Len(s) + 1}
           /\ Append(s, e)[Len(s) + 1] = e
           /\ \A n \in DOMAIN s : /\ Append(s, e)[n] = s[n]
                                  /\ n < Len(s) + 1
           /\ DOMAIN s \subseteq Nat /\ Len(s) \in Nat
<1>1. Append(s, e) \in Seq(S) /\ Len(Append(s, e)) = Len(s) + 1
  OBVIOUS
<1>2. /\ Append(s, e)[Len(s) + 1] = e
      /\ \A n \in DOMAIN s : Append(s, e)[n] = s[n] /\ n < Len(s) + 1
  OBVIOUS
<1>3. DOMAIN s = 1..Len(s) /\ Len(s) \in Nat
  OBVIOUS
<1>4. DOMAIN Append(s, e) = 1..(Len(s) + 1)
  BY <1>1
<1>5. DOMAIN Append(s, e) = DOMAIN s \cup {Len(s) + 1}
  BY <1>3, <1>4
<1> QED BY <1>1, <1>2, <1>3, <1>5

\* The members of the queues, the call that waits and the listeners have
\* their types.
LEMMA Typed ==
    ASSUME TypeOK
    PROVE  /\ answers \in Seq(Answers) /\ sent \in Seq(Asked)
           /\ \A n \in DOMAIN answers : answers[n] \in Answers
           /\ \A n \in DOMAIN sent : sent[n] \in Asked
           /\ \A i \in Calls : i \in Nat /\ i # 0
           /\ call # Idle => call \in Asked /\ call.id \in Calls
           /\ call = Idle => call.id \notin Calls /\ call.op = "idle"
           /\ \A l \in listeners : l \in Bound /\ l.id \in Calls
<1>1. answers \in Seq(Answers) /\ sent \in Seq(Asked)
  BY DEF TypeOK, Answers
<1>2. \A i \in Calls : i \in Nat /\ i # 0
  BY RemoteAssumption DEF Calls
<1>3. call = Idle => call.id \notin Calls /\ call.op = "idle"
  BY <1>2 DEF Idle
<1>4. call # Idle => call \in Asked /\ call.id \in Calls
  BY DEF TypeOK, Asked
<1>5. \A l \in listeners : l \in Bound /\ l.id \in Calls
  BY DEF TypeOK, Bound
<1> QED BY <1>1, <1>2, <1>3, <1>4, <1>5

Agreed == \A n \in DOMAIN answers : Agrees(answers[n])

-----------------------------------------------------------------------------
(* The session's owner. *)

\* A call takes the first number that is free: it comes after everything in
\* flight.
LEMMA BeginInv ==
    ASSUME RemoteInv, NEW op \in {"request", "cancel"}, NEW i \in Calls,
           NEW f \in Forwards, Begin(op, i, f)
    PROVE  RemoteInv'
<1>0. /\ TypeOK /\ Ordered /\ Numbered /\ Unseen /\ Listening /\ Agreed
      /\ HandlesReal /\ OrphansExplained
  BY DEF RemoteInv, Agreed
<1>1. /\ alive /\ call = Idle /\ result[i] = "none"
      /\ call' = [op |-> op, id |-> i, fwd |-> f]
      /\ sent' = Append(sent, call')
      /\ result' = [result EXCEPT ![i] = "pending"]
      /\ UNCHANGED <<alive, answers, listeners, handles, closed>>
  BY DEF Begin
<1>2. call' \in Asked /\ call' # Idle /\ call'.id = i
  BY <1>1, Typed, <1>0 DEF Asked, Idle
<1>3. TypeOK'
  <2>1. sent' \in Seq(Asked)
    BY <1>0, <1>1, <1>2, Typed, Put
  <2>2. result' \in [Calls -> Results]
    BY <1>0, <1>1 DEF TypeOK, Results
  <2> QED BY <1>0, <1>1, <1>2, <2>1, <2>2 DEF TypeOK
<1>4. \A j \in Calls : result[j] # "none" => j < i
  BY <1>0, <1>1, Typed DEF Numbered
<1>5. \A j \in Calls : j # i => result'[j] = result[j]
  BY <1>0, <1>1 DEF TypeOK
<1>6. result'[i] = "pending"
  BY <1>0, <1>1 DEF TypeOK
<1> DEFINE last == Len(sent) + 1
<1>7. /\ DOMAIN sent' = DOMAIN sent \cup {last} /\ sent'[last] = call'
      /\ \A n \in DOMAIN sent : sent'[n] = sent[n] /\ n < last
      /\ last \in Nat /\ DOMAIN sent \subseteq Nat
  BY <1>0, <1>1, <1>2, Typed, Put
<1> HIDE DEF last
<1>8. /\ \A n \in DOMAIN answers : answers[n].id \in Calls /\ answers[n].id < i
      /\ \A n \in DOMAIN sent : sent[n].id \in Calls /\ sent[n].id < i
  BY <1>0, <1>4, Typed DEF Ordered, InFlight, Answers, Asked
<1>9. Ordered'
  <2>1. \A m, n \in DOMAIN sent' : m < n => sent'[m].id < sent'[n].id
    BY <1>0, <1>2, <1>7, <1>8 DEF Ordered
  <2>2. \A m \in DOMAIN answers', n \in DOMAIN sent' : answers'[m].id < sent'[n].id
    BY <1>0, <1>1, <1>2, <1>7, <1>8 DEF Ordered
  <2>3. InFlight' = InFlight \cup {i}
    BY <1>1, <1>2, <1>7 DEF InFlight
  <2>4. \A j \in InFlight : result[j] # "none" /\ j \in Calls /\ j < i
    BY <1>0, <1>8 DEF Ordered, InFlight
  <2>5. \A j \in InFlight' : result'[j] # "none" /\ j <= i
    BY <1>5, <1>6, <2>3, <2>4, <1>0, Typed
  <2> QED BY <1>0, <1>1, <1>2, <2>1, <2>2, <2>5 DEF Ordered
<1>10. Numbered'
  <2>1. \A j \in Calls : j < i => result[j] # "none"
    BY DEF Begin
  <2>2. \A j, k \in Calls : j < k /\ result'[k] # "none" => result'[j] # "none"
    BY <1>0, <1>5, <1>6, <2>1 DEF Numbered
  <2> QED BY <1>0, <1>1, <1>2, <1>5, <1>6, <2>2 DEF Numbered
<1>11. \A l \in listeners : l.id \in Calls /\ l.id # i
  BY <1>0, <1>1, Typed DEF Listening
<1>12. Made(i) = {} /\ \A j : Made(j)' = Made(j)
  BY <1>1, <1>11 DEF Made
<1>13. i \notin closed
  BY <1>0, <1>1 DEF Listening
<1>14. Unseen'
  <2> SUFFICES ASSUME NEW n \in DOMAIN sent'
               PROVE  /\ Made(sent[n].id)' = {} /\ sent'[n].id \notin closed
                      /\ sent'[n].id = call'.id => sent'[n] = call'
                      /\ result'[sent'[n].id] \in {"pending", "stopped"}
    BY <1>1 DEF Unseen
  <2>1. CASE n = last
    BY <1>2, <1>6, <1>7, <1>12, <1>13, <2>1
  <2>2. CASE n \in DOMAIN sent
    <3>1. sent'[n] = sent[n] /\ sent[n].id \in Calls /\ sent[n].id # i
      BY <1>7, <1>8, <2>2, <1>0, Typed
    <3> QED BY <1>0, <1>1, <1>2, <1>5, <1>12, <2>2, <3>1 DEF Unseen
  <2> QED BY <1>7, <2>1, <2>2
<1>15. Listening'
  <2>1. \A l \in listeners : result'[l.id] # "none"
    BY <1>0, <1>5, <1>11 DEF Listening
  <2>2. \A j \in closed : result'[j] # "none"
    BY <1>0, <1>5, <1>13 DEF Listening, TypeOK
  <2> QED BY <1>0, <1>1, <1>2, <1>12, <2>1, <2>2 DEF Listening
<1>16. Agreed'
  <2> SUFFICES ASSUME NEW n \in DOMAIN answers PROVE Agrees(answers[n])'
    BY <1>1 DEF Agreed
  <2>1. answers[n].id # i
    BY <1>0, <1>8, Typed
  <2>2. Agrees(answers[n])
    BY <1>0 DEF Agreed
  <2> QED BY <1>1, <1>2, <1>12, <2>1, <2>2 DEF Agrees
<1>17. HandlesReal' /\ OrphansExplained'
  BY <1>0, <1>1, <1>5, <1>11 DEF HandlesReal, OrphansExplained
<1> QED BY <1>3, <1>9, <1>10, <1>14, <1>15, <1>16, <1>17 DEF RemoteInv, Agreed

\* Requests and cancellations begin in the same way.
LEMMA CallsInv ==
    ASSUME RemoteInv, NEW i \in Calls,
           \/ \E f \in Forwards : Request(i, f)
           \/ \E h \in handles : Cancel(i, h)
    PROVE  RemoteInv'
<1>1. \A h \in handles : h.fwd \in Forwards
  BY DEF RemoteInv, TypeOK, Bound
<1> QED BY <1>1, BeginInv DEF Request, Cancel

\* The call that waits ends; its number is the one that was pending.
LEMMA EndsInv ==
    ASSUME RemoteInv, call # Idle, NEW outcome \in Results \ {"none", "pending"},
           Ends(outcome), UNCHANGED <<alive, sent, listeners, closed>>,
           answers' = answers \/ (answers # <<>> /\ answers' = Tail(answers)),
           handles \subseteq handles', handles' \subseteq Bound, HandlesReal',
           alive /\ outcome # "stopped" => call.id \notin {sent[n].id : n \in DOMAIN sent},
           \A l \in Made(call.id) : \/ outcome \in {"stopped", "protocol"}
                                    \/ outcome = "handle" /\ l \in handles'
    PROVE  RemoteInv'
<1>0. /\ TypeOK /\ Ordered /\ Numbered /\ Unseen /\ Listening /\ Agreed
      /\ HandlesReal /\ OrphansExplained
  BY DEF RemoteInv, Agreed
<1>1. /\ call.id \in Calls /\ call' = Idle
      /\ result' = [result EXCEPT ![call.id] = outcome]
  BY <1>0, Typed DEF Ends
<1>2. /\ answers' \in Seq(Answers)
      /\ \A n \in DOMAIN answers' :
           \E m \in DOMAIN answers : answers'[n] = answers[m]
      /\ \A m, n \in DOMAIN answers' : m < n => answers'[m].id < answers'[n].id
  <2>1. CASE answers' = answers
    BY <1>0, <2>1, Typed DEF Ordered
  <2>2. CASE answers # <<>> /\ answers' = Tail(answers)
    <3>1. /\ answers' \in Seq(Answers)
          /\ DOMAIN answers \subseteq Nat /\ DOMAIN answers' \subseteq Nat
          /\ \A n \in DOMAIN answers' : /\ n + 1 \in DOMAIN answers
                                        /\ answers'[n] = answers[n + 1]
      BY <1>0, <2>2, Typed, Taken
    <3>2. \A m, n \in DOMAIN answers' : m < n => answers'[m].id < answers'[n].id
      <4> SUFFICES ASSUME NEW m \in DOMAIN answers', NEW n \in DOMAIN answers',
                          m < n
                   PROVE  answers'[m].id < answers'[n].id
        OBVIOUS
      <4>1. m + 1 < n + 1
        BY <3>1
      <4> QED BY <1>0, <3>1, <4>1 DEF Ordered
    <3> QED BY <3>1, <3>2
  <2> QED BY <2>1, <2>2
<1>3. TypeOK'
  BY <1>0, <1>1, <1>2 DEF TypeOK, Answers
<1>4. /\ result'[call.id] = outcome
      /\ \A j \in Calls : j # call.id => result'[j] = result[j]
      /\ \A j \in Calls : result[j] # "none" => result'[j] # "none"
      /\ \A j \in Calls : result'[j] # "none" => result[j] # "none"
      /\ result[call.id] = "pending"
  BY <1>0, <1>1 DEF TypeOK, Numbered
<1>5. Ordered'
  <2>1. InFlight' \subseteq InFlight
    BY <1>2 DEF InFlight
  <2>2. InFlight \subseteq Calls
    BY <1>0, Typed DEF InFlight, Answers, Asked
  <2>3. \A m \in DOMAIN answers', n \in DOMAIN sent' : answers'[m].id < sent'[n].id
    BY <1>0, <1>2 DEF Ordered
  <2> QED BY <1>0, <1>1, <1>2, <1>4, <2>1, <2>2, <2>3 DEF Ordered
<1>6. Numbered'
  BY <1>0, <1>1, <1>4 DEF Numbered
<1>7. \A j : Made(j)' = Made(j)
  BY DEF Made
<1>8. call'.id \notin Calls /\ call'.op = "idle"
  BY <1>0, <1>1, Typed DEF Idle
<1>9. Unseen'
  <2> SUFFICES ASSUME NEW n \in DOMAIN sent
               PROVE  /\ Made(sent[n].id)' = {} /\ sent[n].id \notin closed
                      /\ sent[n].id = call'.id => sent[n] = call'
                      /\ alive => result'[sent[n].id] \in {"pending", "stopped"}
    BY DEF Unseen
  <2>1. sent[n].id \in Calls
    BY <1>0, Typed DEF Asked
  <2> QED BY <1>0, <1>4, <1>7, <1>8, <2>1 DEF Unseen
<1>10. Listening'
  <2>1. \A l \in listeners : l.id \in Calls
    BY <1>0, Typed
  <2>2. closed \subseteq Calls
    BY <1>0 DEF TypeOK
  <2> QED BY <1>0, <1>4, <1>7, <1>8, <2>1, <2>2 DEF Listening
<1>11. Agreed'
  <2> SUFFICES ASSUME NEW n \in DOMAIN answers' PROVE Agrees(answers[n])'
    BY DEF Agreed
  <2>1. PICK m \in DOMAIN answers : answers'[n] = answers[m]
    BY <1>2
  <2>2. Agrees(answers[m]) /\ answers[m].id \in Calls
    BY <1>0, Typed DEF Agreed, Answers
  <2> QED BY <1>7, <1>8, <2>1, <2>2 DEF Agrees
<1>12. OrphansExplained'
  <2> SUFFICES ASSUME NEW l \in listeners
               PROVE  \/ result'[l.id] \in {"pending", "stopped", "protocol"}
                      \/ result'[l.id] = "handle" /\ l \in handles'
    BY DEF OrphansExplained
  <2>1. CASE l.id = call.id
    BY <1>4, <2>1 DEF Made
  <2>2. CASE l.id # call.id
    BY <1>0, <1>4, <2>2, Typed DEF OrphansExplained
  <2> QED BY <2>1, <2>2
<1> QED BY <1>3, <1>5, <1>6, <1>9, <1>10, <1>11, <1>12 DEF RemoteInv, Agreed

\* context.run() stops the call; its request stays in flight.
LEMMA StoppedInv == RemoteInv /\ Stopped => RemoteInv'
<1> SUFFICES ASSUME RemoteInv, Stopped PROVE RemoteInv'
  OBVIOUS
<1>1. /\ call # Idle /\ Ends("stopped")
      /\ UNCHANGED <<alive, sent, listeners, closed>>
      /\ answers' = answers /\ handles' = handles
  BY DEF Stopped
<1>2. HandlesReal' /\ handles' \subseteq Bound
  BY <1>1 DEF RemoteInv, HandlesReal, TypeOK
<1>3. "stopped" \in Results \ {"none", "pending"}
  BY DEF Results
<1> QED BY <1>1, <1>2, <1>3, EndsInv

\* A call of a session that is gone ends; there is no listener left.
LEMMA DisconnectedInv == RemoteInv /\ Disconnected => RemoteInv'
<1> SUFFICES ASSUME RemoteInv, Disconnected PROVE RemoteInv'
  OBVIOUS
<1>1. /\ call # Idle /\ Ends("disconnected") /\ ~alive
      /\ UNCHANGED <<alive, sent, listeners, closed>>
      /\ answers' = answers /\ handles' = handles
  BY DEF Disconnected
<1>2. HandlesReal' /\ handles' \subseteq Bound
  BY <1>1 DEF RemoteInv, HandlesReal, TypeOK
<1>3. Made(call.id) = {}
  BY <1>1 DEF RemoteInv, Listening, Made
<1>4. "disconnected" \in Results \ {"none", "pending"}
  BY DEF Results
<1> QED BY <1>1, <1>2, <1>3, <1>4, EndsInv

\* The answer to the call that waits is the last message in flight.
LEMMA LastAnswer ==
    ASSUME RemoteInv, answers # <<>>, Head(answers).id = call.id
    PROVE  /\ call # Idle /\ call \in Asked /\ Head(answers) \in Answers
           /\ Agrees(Head(answers))
           /\ sent = <<>> /\ DOMAIN sent = {}
<1>0. TypeOK /\ Ordered
  BY DEF RemoteInv
<1>1. 1 \in DOMAIN answers /\ Head(answers) = answers[1] /\ Head(answers) \in Answers
  BY <1>0, Typed, Taken
<1>2. call # Idle /\ call \in Asked /\ call.id \in Calls
  BY <1>0, <1>1, Typed DEF Answers
<1>3. \A n \in DOMAIN sent : sent[n].id \in Calls /\ sent[n].id <= call.id
  BY <1>0, <1>2, Typed DEF Ordered, InFlight, Asked
<1>4. \A n \in DOMAIN sent : call.id < sent[n].id
  BY <1>0, <1>1 DEF Ordered
<1>5. DOMAIN sent = {}
  BY <1>0, <1>2, <1>3, <1>4, Typed
<1>6. sent = <<>>
  BY <1>0, <1>5, Typed
<1>7. Agrees(Head(answers))
  BY <1>1 DEF RemoteInv
<1> QED BY <1>1, <1>2, <1>5, <1>6, <1>7

\* A forward with another port.
LEMMA Ported ==
    ASSUME NEW f \in Forwards, NEW p \in 0..MaxPort,
           f.kind = "streamlocal" => p = 0
    PROVE  [f EXCEPT !.port = p] \in Forwards
<1>1. CASE f \in Tcpip
  BY <1>1 DEF Tcpip, Forwards
<1>2. CASE f \in Streamlocal
  BY <1>2 DEF Streamlocal, Forwards
<1> QED BY <1>1, <1>2 DEF Forwards

\* The loop reads an answer.  A handle is made for the listener that the
\* server made for this very request, unless it was cancelled already.
LEMMA AnsweredInv == RemoteInv /\ Answered => RemoteInv'
<1> SUFFICES ASSUME RemoteInv, Answered PROVE RemoteInv'
  OBVIOUS
<1> DEFINE a == Head(answers)
           f == call.fwd
<1>0. /\ TypeOK /\ Ordered /\ Numbered /\ Unseen /\ Listening /\ Agreed
      /\ HandlesReal /\ OrphansExplained
  BY DEF RemoteInv, Agreed
<1>1. /\ answers # <<>> /\ answers' = Tail(answers)
      /\ UNCHANGED <<alive, sent, listeners, closed>>
  BY DEF Answered
<1>2. CASE call.id # a.id
  <2>1. UNCHANGED <<call, result, handles>>
    BY <1>2 DEF Answered
  <2>2. /\ answers' \in Seq(Answers)
        /\ DOMAIN answers \subseteq Nat /\ DOMAIN answers' \subseteq Nat
        /\ \A n \in DOMAIN answers' : /\ n + 1 \in DOMAIN answers
                                      /\ answers'[n] = answers[n + 1]
    BY <1>0, <1>1, Typed, Taken
  <2>3. \A m, n \in DOMAIN answers' : m < n => answers'[m].id < answers'[n].id
    <3> SUFFICES ASSUME NEW m \in DOMAIN answers', NEW n \in DOMAIN answers',
                        m < n
                 PROVE  answers'[m].id < answers'[n].id
      OBVIOUS
    <3>1. m + 1 < n + 1
      BY <2>2
    <3> QED BY <1>0, <2>2, <3>1 DEF Ordered
  <2>4. TypeOK'
    BY <1>0, <1>1, <2>1, <2>2 DEF TypeOK, Answers
  <2>5. Ordered'
    <3>1. InFlight' \subseteq InFlight
      BY <1>1, <2>2 DEF InFlight
    <3>2. \A m \in DOMAIN answers', n \in DOMAIN sent' : answers'[m].id < sent'[n].id
      BY <1>0, <1>1, <2>2 DEF Ordered
    <3> QED BY <1>0, <1>1, <2>1, <2>3, <3>1, <3>2 DEF Ordered
  <2>6. Numbered' /\ Unseen' /\ Listening' /\ HandlesReal' /\ OrphansExplained'
    BY <1>0, <1>1, <2>1
       DEF Numbered, Unseen, Listening, HandlesReal, OrphansExplained, Made
  <2>7. Agreed'
    BY <1>0, <1>1, <2>1, <2>2 DEF Agreed, Agrees, Made
  <2> QED BY <2>4, <2>5, <2>6, <2>7 DEF RemoteInv, Agreed
<1>3. CASE call.id = a.id
  <2>1. /\ call # Idle /\ call \in Asked /\ a \in Answers /\ Agrees(a)
        /\ DOMAIN sent = {}
    BY <1>1, <1>3, LastAnswer
  <2> HIDE DEF a, f
  <2>2. handles \subseteq Bound
    BY <1>0 DEF TypeOK
  <2>3. CASE ~a.granted
    <3>1. Ends("denied") /\ UNCHANGED handles
      BY <1>3, <2>3 DEF Answered, a
    <3>2. Made(call.id) = {}
      BY <1>3, <2>1, <2>3 DEF Agrees
    <3>3. HandlesReal'
      BY <1>0, <1>1, <3>1 DEF HandlesReal
    <3> QED BY <1>1, <2>1, <2>2, <3>1, <3>2, <3>3, EndsInv DEF Results
  <2>4. CASE a.granted /\ call.op = "cancel"
    <3>1. Ends("ok") /\ UNCHANGED handles
      BY <1>3, <2>4 DEF Answered, a
    <3>2. Made(call.id) = {}
      BY <1>0, <2>4 DEF Listening
    <3>3. HandlesReal'
      BY <1>0, <1>1, <3>1 DEF HandlesReal
    <3> QED BY <1>1, <2>1, <2>2, <3>1, <3>2, <3>3, EndsInv DEF Results
  <2>5. CASE a.granted /\ call.op # "cancel" /\ ~Accepted(f, a.port)
    <3>1. Ends("protocol") /\ UNCHANGED handles
      BY <1>3, <2>5 DEF Answered, a, f
    <3>2. HandlesReal'
      BY <1>0, <1>1, <3>1 DEF HandlesReal
    <3> QED BY <1>1, <2>1, <2>2, <3>1, <3>2, EndsInv DEF Results
  <2>6. CASE a.granted /\ call.op # "cancel" /\ Accepted(f, a.port)
    <3> DEFINE g == [f EXCEPT !.port = EffectivePort(f, a.port)]
               h == [id |-> a.id, fwd |-> g]
    <3>1. Ends("handle") /\ handles' = handles \cup {h}
      BY <1>3, <2>6 DEF Answered, a, f
    <3>2. f \in Forwards /\ a.port \in Nat /\ a.id \in Calls
      BY <2>1 DEF Asked, Answers, f
    <3>3. EffectivePort(f, a.port) \in 0..MaxPort /\ (f.kind = "streamlocal" =>
             EffectivePort(f, a.port) = 0)
      <4>1. CASE f.kind = "tcpip"
        BY <2>6, <3>2, <4>1, RemoteAssumption DEF Accepted
      <4>2. CASE f.kind = "streamlocal"
        <5>1. a.port = 0
          BY <1>3, <2>1, <4>2 DEF Agrees, f
        <5>2. f.port = 0
          BY <3>2, <4>2 DEF Forwards, Tcpip, Streamlocal
        <5> QED BY <4>2, <5>1, <5>2, RemoteAssumption DEF EffectivePort
      <4> QED BY <3>2, <4>1, <4>2 DEF Forwards, Tcpip, Streamlocal
    <3>4. g \in Forwards
      BY <3>2, <3>3, Ported
    <3> HIDE DEF g
    <3>5. h \in Bound
      BY <3>2, <3>4 DEF Bound
    <3>6. alive => a.id \in closed \/ \E l \in Made(a.id) : l.fwd = g
      BY <1>3, <2>1, <2>6 DEF Agrees, f, g
    <3>7. \A l \in Made(a.id) : a.id \notin closed /\ alive
      BY <1>0 DEF Listening, Made
    <3>8. \A l \in listeners : l = [id |-> l.id, fwd |-> l.fwd]
      BY <1>0, Typed DEF Bound
    <3>9. \A l \in Made(a.id) : l.fwd = g => l = h
      BY <3>8 DEF Made
    <3> HIDE DEF h
    <3>10. \A l \in Made(a.id) : l = h
      BY <1>0, <3>6, <3>7, <3>9 DEF Listening, Made
    <3>11. HandlesReal'
      <4>1. alive => h \in listeners \/ h.id \in closed
        BY <3>6, <3>9 DEF Made, h
      <4> QED BY <1>0, <1>1, <3>1, <4>1 DEF HandlesReal
    <3>12. \A l \in Made(call.id) : l \in handles'
      BY <1>3, <3>1, <3>10
    <3> QED BY <1>1, <2>1, <2>2, <3>1, <3>5, <3>11, <3>12, EndsInv DEF Results
  <2> QED BY <2>3, <2>4, <2>5, <2>6
<1> QED BY <1>2, <1>3

-----------------------------------------------------------------------------
(* The server. *)

\* The request that the server takes, and the queues after its answer.
LEMMA Served ==
    ASSUME RemoteInv, sent # <<>>, NEW granted \in BOOLEAN, NEW port \in Nat,
           Answer(granted, port)
    PROVE  LET r == Head(sent)
               a == [id |-> r.id, granted |-> granted, port |-> port]
           IN /\ r \in Asked /\ r.id \in Calls /\ a \in Answers
              /\ r.id = call.id => r = call
              /\ Made(r.id) = {} /\ r.id \notin closed /\ result[r.id] # "none"
              /\ alive => result[r.id] \in {"pending", "stopped"}
              /\ call # Idle => r.id <= call.id
              /\ answers' \in Seq(Answers) /\ sent' \in Seq(Asked)
              /\ \A n \in DOMAIN answers' :
                    \/ answers'[n] = a
                    \/ \E m \in DOMAIN answers : /\ answers'[n] = answers[m]
                                                 /\ answers[m].id < r.id
              /\ \A n \in DOMAIN sent' :
                    \E m \in DOMAIN sent : /\ sent'[n] = sent[m]
                                           /\ r.id < sent[m].id
              /\ Ordered'
<1> DEFINE r == Head(sent)
           a == [id |-> r.id, granted |-> granted, port |-> port]
           last == Len(answers) + 1
<1>0. TypeOK /\ Ordered /\ Unseen
  BY DEF RemoteInv
<1>1. /\ sent' = Tail(sent) /\ answers' = Append(answers, a)
      /\ UNCHANGED <<alive, call, handles, result>>
  BY DEF Answer
<1>2. /\ 1 \in DOMAIN sent /\ r = sent[1] /\ r \in Asked
      /\ sent' \in Seq(Asked)
      /\ \A n \in DOMAIN sent' : /\ n + 1 \in DOMAIN sent /\ 1 < n + 1
                                 /\ sent'[n] = sent[n + 1]
      /\ DOMAIN sent \subseteq Nat /\ DOMAIN sent' \subseteq Nat
  BY <1>0, <1>1, Typed, Taken
<1> HIDE DEF r
<1>3. r.id \in Calls /\ a \in Answers
  BY <1>2 DEF Asked, Answers
<1>4. /\ r.id = call.id => r = call
      /\ Made(r.id) = {} /\ r.id \notin closed
      /\ alive => result[r.id] \in {"pending", "stopped"}
  BY <1>0, <1>2 DEF Unseen
<1>5. result[r.id] # "none" /\ (call # Idle => r.id <= call.id)
  BY <1>0, <1>2 DEF Ordered, InFlight
<1>6. /\ answers' \in Seq(Answers)
      /\ DOMAIN answers' = DOMAIN answers \cup {last} /\ answers'[last] = a
      /\ \A n \in DOMAIN answers : answers'[n] = answers[n] /\ n < last
      /\ DOMAIN answers \subseteq Nat /\ last \in Nat
  BY <1>0, <1>1, <1>3, Typed, Put
<1>7. a.id = r.id
  OBVIOUS
<1> HIDE DEF a, last
<1>8. \A m \in DOMAIN answers : answers[m].id < r.id
  BY <1>0, <1>2 DEF Ordered
<1>9. \A n \in DOMAIN sent' : sent'[n] = sent[n + 1] /\ r.id < sent[n + 1].id
  BY <1>0, <1>2 DEF Ordered
<1>10. Ordered'
  <2>1. \A m, n \in DOMAIN answers' : m < n => answers'[m].id < answers'[n].id
    BY <1>0, <1>6, <1>7, <1>8 DEF Ordered
  <2>2. \A m, n \in DOMAIN sent' : m < n => sent'[m].id < sent'[n].id
    <3> SUFFICES ASSUME NEW m \in DOMAIN sent', NEW n \in DOMAIN sent', m < n
                 PROVE  sent'[m].id < sent'[n].id
      OBVIOUS
    <3>1. m + 1 < n + 1
      BY <1>2
    <3> QED BY <1>0, <1>2, <3>1 DEF Ordered
  <2>3. \A m \in DOMAIN answers', n \in DOMAIN sent' : answers'[m].id < sent'[n].id
    <3> SUFFICES ASSUME NEW m \in DOMAIN answers', NEW n \in DOMAIN sent'
                 PROVE  answers'[m].id < sent'[n].id
      OBVIOUS
    <3>1. CASE m \in DOMAIN answers
      BY <1>0, <1>2, <1>6, <3>1 DEF Ordered
    <3>2. CASE m = last
      BY <1>6, <1>7, <1>9, <3>2
    <3> QED BY <1>6, <3>1, <3>2
  <2>4. InFlight' \subseteq InFlight
    <3>1. \A n \in DOMAIN answers' : answers'[n].id \in InFlight
      BY <1>2, <1>6, <1>7 DEF InFlight
    <3>2. \A n \in DOMAIN sent' : sent'[n].id \in InFlight
      BY <1>2 DEF InFlight
    <3> QED BY <3>1, <3>2 DEF InFlight
  <2> QED BY <1>0, <1>1, <2>1, <2>2, <2>3, <2>4 DEF Ordered
<1>11. \A n \in DOMAIN answers' :
          \/ answers'[n] = a
          \/ \E m \in DOMAIN answers : answers'[n] = answers[m] /\ answers[m].id < r.id
  BY <1>6, <1>8
<1>12. \A n \in DOMAIN sent' :
          \E m \in DOMAIN sent : sent'[n] = sent[m] /\ r.id < sent[m].id
  BY <1>2, <1>9
<1> QED BY <1>2, <1>3, <1>4, <1>5, <1>6, <1>10, <1>11, <1>12 DEF r, a

\* The server answers request r: what is left to show is what its listeners
\* have to do with it.
LEMMA ServedInv ==
    ASSUME RemoteInv, alive, sent # <<>>, NEW granted \in BOOLEAN, NEW port \in Nat,
           Answer(granted, port), NEW a,
           a = [id |-> Head(sent).id, granted |-> granted, port |-> port],
           listeners' \subseteq Bound, closed' \subseteq Calls,
           \A l \in listeners' : l \in listeners \/ l.id = Head(sent).id,
           \A l \in listeners : l \in listeners' \/ l.id \in closed',
           closed \subseteq closed',
           \A i \in closed' \ closed : Made(i) # {},
           \A l, m \in listeners' : l.id = m.id \/ l.fwd = m.fwd => l = m,
           \A l \in listeners' : l.id \notin closed',
           Head(sent).op = "cancel" => listeners' \subseteq listeners,
           Agrees(a)'
    PROVE  RemoteInv'
<1> DEFINE r == Head(sent)
<1>0. /\ TypeOK /\ Ordered /\ Numbered /\ Unseen /\ Listening /\ Agreed
      /\ HandlesReal /\ OrphansExplained
  BY DEF RemoteInv, Agreed
<1>1. UNCHANGED <<alive, call, handles, result>>
  BY DEF Answer
<1>2. /\ r \in Asked /\ r.id \in Calls
      /\ r.id = call.id => r = call
      /\ Made(r.id) = {} /\ r.id \notin closed /\ result[r.id] # "none"
      /\ result[r.id] \in {"pending", "stopped"}
      /\ call # Idle => r.id <= call.id
      /\ answers' \in Seq(Answers) /\ sent' \in Seq(Asked)
      /\ \A n \in DOMAIN answers' :
            \/ answers'[n] = a
            \/ \E m \in DOMAIN answers : /\ answers'[n] = answers[m]
                                         /\ answers[m].id < r.id
      /\ \A n \in DOMAIN sent' :
            \E m \in DOMAIN sent : /\ sent'[n] = sent[m] /\ r.id < sent[m].id
      /\ Ordered'
  BY Served
<1> HIDE DEF r
<1>3. TypeOK'
  BY <1>0, <1>1, <1>2 DEF TypeOK, Answers
<1>4. Numbered'
  BY <1>0, <1>1 DEF Numbered
<1>5. \A l \in listeners' : l \in listeners \/ l.id = r.id
  BY DEF r
<1>6. \A i \in Calls : i # r.id /\ Made(i) = {} => {l \in listeners' : l.id = i} = {}
  BY <1>5 DEF Made
<1>7. Unseen'
  <2> SUFFICES ASSUME NEW n \in DOMAIN sent'
               PROVE  /\ Made(sent[n].id)' = {} /\ sent'[n].id \notin closed'
                      /\ sent'[n].id = call'.id => sent'[n] = call'
                      /\ result'[sent'[n].id] \in {"pending", "stopped"}
    BY DEF Unseen
  <2>1. PICK m \in DOMAIN sent : sent'[n] = sent[m] /\ r.id < sent[m].id
    BY <1>2
  <2>2. sent[m].id \in Calls /\ sent[m].id # r.id
    BY <1>0, <1>2, <2>1, Typed DEF Asked
  <2>3. /\ Made(sent[m].id) = {} /\ sent[m].id \notin closed
        /\ sent[m].id = call.id => sent[m] = call
        /\ result[sent[m].id] \in {"pending", "stopped"}
    BY <1>0 DEF Unseen
  <2>4. Made(sent[n].id)' = {}
    BY <1>6, <2>1, <2>2, <2>3 DEF Made
  <2> QED BY <1>1, <2>1, <2>3, <2>4
<1>8. Listening'
  <2>1. call'.op = "cancel" => Made(call.id)' = {}
    <3> SUFFICES ASSUME call.op = "cancel"
                 PROVE  {l \in listeners' : l.id = call.id} = {}
      BY <1>1 DEF Made
    <3>1. call # Idle /\ call.id \in Calls /\ Made(call.id) = {}
      BY <1>0, Typed DEF Listening
    <3>2. CASE r.id # call.id
      BY <1>6, <3>1, <3>2
    <3>3. CASE r.id = call.id
      BY <1>2, <3>1, <3>3 DEF Made, r
    <3> QED BY <3>2, <3>3
  <2>2. \A l \in listeners' : result'[l.id] # "none"
    BY <1>0, <1>1, <1>2, <1>5 DEF Listening
  <2>3. \A i \in closed' : result'[i] # "none"
    BY <1>0, <1>1 DEF Listening, Made
  <2> QED BY <1>1, <2>1, <2>2, <2>3 DEF Listening
<1>9. Agreed'
  <2> SUFFICES ASSUME NEW n \in DOMAIN answers' PROVE Agrees(answers[n])'
    BY DEF Agreed
  <2>1. CASE answers'[n] = a
    BY <2>1 DEF Agrees, Made
  <2>2. ASSUME NEW m \in DOMAIN answers, answers'[n] = answers[m],
               answers[m].id < r.id
        PROVE  Agrees(answers[n])'
    <3> DEFINE b == answers[m]
    <3>1. b \in Answers /\ b.id \in Calls /\ b.id # r.id /\ Agrees(b)
      BY <1>0, <1>2, <2>2, Typed DEF Agreed, Answers
    <3>2. b.id # call.id
      BY <1>0, <1>2, <2>2, <3>1, Typed
    <3>3. answers'[n] = b
      BY <2>2
    <3> HIDE DEF b
    <3>4. ~b.granted => {l \in listeners' : l.id = b.id} = {}
      BY <1>6, <3>1 DEF Agrees
    <3> QED BY <1>1, <3>2, <3>3, <3>4 DEF Agrees, Made
  <2> QED BY <1>2, <2>1, <2>2
<1>10. HandlesReal'
  BY <1>0, <1>1 DEF HandlesReal
<1>11. OrphansExplained'
  BY <1>0, <1>1, <1>2, <1>5 DEF OrphansExplained
<1> QED BY <1>2, <1>3, <1>4, <1>7, <1>8, <1>9, <1>10, <1>11 DEF RemoteInv, Agreed

\* The server listens, at the port it chose, and reports one or none.
LEMMA ListensInv == RemoteInv /\ Listens => RemoteInv'
<1> SUFFICES ASSUME RemoteInv, Listens PROVE RemoteInv'
  OBVIOUS
<1> DEFINE r == Head(sent)
           f == r.fwd
<1>0. TypeOK /\ Listening
  BY DEF RemoteInv
<1>1. alive /\ sent # <<>> /\ r.op = "request" /\ closed' = closed
  BY DEF Listens
<1>2. PICK port \in Chosen(f) :
        /\ \A other \in listeners : other.fwd # [f EXCEPT !.port = port]
        /\ listeners' = listeners \cup
             {[id |-> r.id, fwd |-> [f EXCEPT !.port = port]]}
        /\ \E reported \in Reported(f, port) : Answer(TRUE, reported)
  BY DEF Listens
<1>3. PICK reported \in Reported(f, port) : Answer(TRUE, reported)
  BY <1>2
<1>4. r \in Asked /\ r.op = "request"
  BY <1>0, <1>1, Typed, Taken
<1> HIDE DEF r
<1>5. f \in Forwards /\ r.id \in Calls
  BY <1>4 DEF Asked
<1> HIDE DEF f
<1>6. /\ f.kind \in {"tcpip", "streamlocal"} /\ f.port \in 0..MaxPort
      /\ f.kind = "streamlocal" => f.port = 0
  BY <1>5, RemoteAssumption DEF Forwards, Tcpip, Streamlocal
<1>7. /\ port \in 0..MaxPort /\ (f.kind = "streamlocal" => port = 0)
      /\ f.kind = "tcpip" /\ f.port = 0 => port # 0
      /\ f.kind = "streamlocal" \/ f.port # 0 => port = f.port
  BY <1>2, <1>6, RemoteAssumption DEF Chosen
<1>8. /\ reported \in Nat /\ (f.kind = "streamlocal" => reported = 0)
      /\ reported \in {0, port} \/ (f.port = 0 /\ reported > MaxPort)
  BY <1>3, <1>6, <1>7, RemoteAssumption DEF Reported
<1> DEFINE g == [f EXCEPT !.port = port]
           l == [id |-> r.id, fwd |-> g]
<1>9. g \in Forwards
  BY <1>5, <1>7, Ported
<1>10. Accepted(f, reported) => EffectivePort(f, reported) = port
  BY <1>6, <1>7, <1>8, RemoteAssumption DEF Accepted, EffectivePort
<1>11. listeners' = listeners \cup {l} /\ \A other \in listeners : other.fwd # g
  BY <1>2
<1>12. Accepted(f, reported) => g = [f EXCEPT !.port = EffectivePort(f, reported)]
  BY <1>10
<1> HIDE DEF g
<1>13. l \in Bound /\ l.id = r.id /\ l.fwd = g
  BY <1>5, <1>9 DEF Bound
<1>14. PICK a : a = [id |-> r.id, granted |-> TRUE, port |-> reported]
  OBVIOUS
<1> HIDE DEF l
<1>15. /\ r.id = call.id => r = call
       /\ Made(r.id) = {} /\ r.id \notin closed
  BY <1>1, <1>3, <1>8, Served DEF r
<1>16. Agrees(a)'
  <2>1. UNCHANGED <<alive, call>>
    BY <1>3 DEF Answer
  <2>2. a.id = call.id /\ call.fwd.kind = "streamlocal" => a.port = 0
    BY <1>8, <1>14, <1>15 DEF f
  <2>3. l \in {k \in listeners' : k.id = a.id}
    BY <1>11, <1>13, <1>14
  <2>4. a.id = call.id =>
          /\ call.op # "cancel"
          /\ \E k \in {k \in listeners' : k.id = a.id} :
                Accepted(call.fwd, a.port) =>
                  k.fwd = [call.fwd EXCEPT !.port = EffectivePort(call.fwd, a.port)]
    <3> SUFFICES ASSUME a.id = call.id
                 PROVE  /\ call.op # "cancel"
                        /\ Accepted(call.fwd, a.port) =>
                             l.fwd = [call.fwd EXCEPT !.port =
                                        EffectivePort(call.fwd, a.port)]
      BY <2>3
    <3>1. call.op = "request" /\ call.fwd = f
      BY <1>4, <1>14, <1>15 DEF f
    <3> QED BY <1>12, <1>13, <1>14, <3>1
  <2> QED BY <1>14, <2>1, <2>2, <2>4 DEF Agrees, Made
<1>17. \A k, m \in listeners' : k.id = m.id \/ k.fwd = m.fwd => k = m
  BY <1>0, <1>11, <1>13, <1>15 DEF Listening, Made
<1>18. /\ listeners' \subseteq Bound /\ closed' \subseteq Calls
       /\ \A k \in listeners' : k \in listeners \/ k.id = r.id
       /\ \A k \in listeners' : k.id \notin closed'
  BY <1>0, <1>1, <1>11, <1>13, <1>15 DEF TypeOK, Listening
<1>19. /\ \A k \in listeners : k \in listeners' \/ k.id \in closed'
       /\ closed \subseteq closed' /\ closed' \ closed = {}
  BY <1>1, <1>11
<1> QED BY <1>1, <1>3, <1>8, <1>14, <1>16, <1>17, <1>18, <1>19, ServedInv DEF r

\* The server closes the listener that a cancellation names.
LEMMA CancelsInv == RemoteInv /\ Cancels => RemoteInv'
<1> SUFFICES ASSUME RemoteInv, Cancels PROVE RemoteInv'
  OBVIOUS
<1> DEFINE r == Head(sent)
           these == {l \in listeners : l.fwd = r.fwd}
<1>0. TypeOK /\ Listening
  BY DEF RemoteInv
<1>1. /\ alive /\ sent # <<>> /\ r.op = "cancel"
      /\ listeners' = listeners \ these
      /\ closed' = closed \cup {l.id : l \in these}
      /\ Answer(TRUE, 0)
  BY DEF Cancels
<1>2. r.id = call.id => r = call
  BY <1>1, Served
<1>3. PICK a : a = [id |-> r.id, granted |-> TRUE, port |-> 0]
  OBVIOUS
<1>4. Agrees(a)'
  <2>1. UNCHANGED <<alive, call>>
    BY <1>1 DEF Answer
  <2>2. a.id = call.id => /\ call.op = "cancel"
                          /\ \A l \in listeners' : l.fwd # call.fwd
    BY <1>1, <1>2, <1>3
  <2> QED BY <1>3, <2>1, <2>2 DEF Agrees
<1>5. \A l, m \in listeners' : l.id = m.id \/ l.fwd = m.fwd => l = m
  BY <1>0, <1>1 DEF Listening
<1>6. \A l \in listeners : l.id \in Calls
  BY <1>0, Typed
<1>7. /\ listeners' \subseteq Bound /\ closed' \subseteq Calls
      /\ \A l \in listeners' : l \in listeners \/ l.id = r.id
      /\ listeners' \subseteq listeners /\ closed \subseteq closed'
  BY <1>0, <1>1, <1>6 DEF TypeOK
<1>8. \A l \in listeners' : l.id \notin closed'
  BY <1>0, <1>1 DEF Listening
<1>9. /\ \A l \in listeners : l \in listeners' \/ l.id \in closed'
      /\ \A i \in closed' \ closed : Made(i) # {}
  BY <1>1 DEF Made
<1> QED BY <1>1, <1>3, <1>4, <1>5, <1>7, <1>8, <1>9, ServedInv

\* The server refuses; it makes and closes nothing.
LEMMA DeniesInv == RemoteInv /\ Denies => RemoteInv'
<1> SUFFICES ASSUME RemoteInv, Denies PROVE RemoteInv'
  OBVIOUS
<1> DEFINE r == Head(sent)
<1>0. TypeOK /\ Listening
  BY DEF RemoteInv
<1>1. /\ alive /\ sent # <<>> /\ Answer(FALSE, 0)
      /\ listeners' = listeners /\ closed' = closed
  BY DEF Denies
<1>2. Made(r.id) = {}
  BY <1>1, Served
<1>3. PICK a : a = [id |-> r.id, granted |-> FALSE, port |-> 0]
  OBVIOUS
<1>4. Agrees(a)'
  BY <1>1, <1>2, <1>3 DEF Agrees, Made
<1>5. /\ \A l, m \in listeners' : l.id = m.id \/ l.fwd = m.fwd => l = m
      /\ listeners' \subseteq Bound /\ closed' \subseteq Calls
      /\ \A l \in listeners' : l.id \notin closed'
  BY <1>0, <1>1 DEF Listening, TypeOK
<1> QED BY <1>1, <1>3, <1>4, <1>5, ServedInv

\* The session ends and the server closes what it had opened.
LEMMA SessionEndsInv == RemoteInv /\ SessionEnds => RemoteInv'
<1> SUFFICES ASSUME RemoteInv, SessionEnds PROVE RemoteInv'
  OBVIOUS
<1>1. /\ alive' = FALSE /\ listeners' = {}
      /\ UNCHANGED <<call, sent, answers, handles, result, closed>>
  BY DEF SessionEnds
<1>2. \A i : Made(i)' = {}
  BY <1>1 DEF Made
<1>3. TypeOK' /\ Ordered' /\ Numbered'
  BY <1>1 DEF RemoteInv, TypeOK, Ordered, InFlight, Numbered
<1>4. Unseen' /\ Listening'
  BY <1>1, <1>2 DEF RemoteInv, Unseen, Listening
<1>5. \A n \in DOMAIN answers' : Agrees(answers[n])'
  BY <1>1, <1>2 DEF RemoteInv, Agrees
<1>6. HandlesReal' /\ OrphansExplained'
  BY <1>1 DEF HandlesReal, OrphansExplained
<1> QED BY <1>3, <1>4, <1>5, <1>6 DEF RemoteInv

-----------------------------------------------------------------------------
(* RemoteInv is inductive, and what follows. *)

\* Nothing has been asked.
LEMMA InitRemoteInv == Init => RemoteInv
<1> SUFFICES ASSUME Init PROVE RemoteInv
  OBVIOUS
<1> USE DEF Init
<1>1. TypeOK
  BY DEF TypeOK, Results
<1>2. Ordered /\ Unseen /\ \A n \in DOMAIN answers : Agrees(answers[n])
  BY DEF Ordered, InFlight, Unseen
<1>3. Numbered
  BY DEF Numbered
<1>4. Listening /\ HandlesReal /\ OrphansExplained
  BY DEF Listening, HandlesReal, OrphansExplained, Made
<1> QED BY <1>1, <1>2, <1>3, <1>4 DEF RemoteInv

\* Every step of owner, server and transport keeps the invariant.
LEMMA NextRemoteInv == RemoteInv /\ [Next]_vars => RemoteInv'
<1> SUFFICES ASSUME RemoteInv, [Next]_vars PROVE RemoteInv'
  OBVIOUS
<1>1. CASE Next
  BY <1>1, CallsInv, AnsweredInv, StoppedInv, DisconnectedInv, ListensInv,
     CancelsInv, DeniesInv, SessionEndsInv DEF Next
<1>2. CASE UNCHANGED vars
  <2>1. UNCHANGED <<alive, call, sent, answers, listeners, handles, result, closed>>
    BY <1>2 DEF vars
  <2> QED BY <2>1 DEF RemoteInv, TypeOK, Ordered, InFlight, Numbered, Unseen,
          Listening, Agrees, HandlesReal, OrphansExplained, Made
<1> QED BY <1>1, <1>2

\* The invariant holds whatever server, callers and transport do.
THEOREM RemoteInvariant == Spec => []RemoteInv
BY InitRemoteInv, NextRemoteInv, PTL DEF Spec

\* A handle names the listener that its own request made.
THEOREM HandlesAreReal == Spec => []HandlesReal
<1>1. RemoteInv => HandlesReal
  BY DEF RemoteInv
<1> QED BY <1>1, RemoteInvariant, PTL

\* The result of a request tells whether it may have left a listener behind.
THEOREM OrphansAreExplained == Spec => []OrphansExplained
<1>1. RemoteInv => OrphansExplained
  BY DEF RemoteInv
<1> QED BY <1>1, RemoteInvariant, PTL

\* A step in which a cancellation returns Ok.
LEMMA OkStep ==
    ASSUME RemoteInv, [Next]_vars, NEW i \in Calls,
           result[i] # "ok", result'[i] = "ok"
    PROVE  sent' = <<>> /\ \A l \in listeners' : l.fwd # call.fwd
<1>0. TypeOK /\ Listening
  BY DEF RemoteInv
<1>1. ASSUME NEW outcome, Ends(outcome), call # Idle PROVE outcome = "ok"
  BY <1>0, <1>1, Typed DEF Ends, TypeOK
<1>2. Answered /\ result' # result
  <2>1. ASSUME NEW j \in Calls, NEW op, NEW f PROVE ~Begin(op, j, f)
    BY <1>0, <2>1 DEF Begin, TypeOK
  <2>2. ~(\E f \in Forwards : Request(i, f))
    BY <2>1 DEF Request
  <2> QED BY <1>0, <1>1, <2>1 DEF Next, vars, Request, Cancel, Stopped, Disconnected,
          Listens, Cancels, Denies, Answer, SessionEnds
<1>3. /\ answers # <<>> /\ UNCHANGED <<sent, listeners>>
      /\ call.id = Head(answers).id
  BY <1>2 DEF Answered
<1>4. /\ call # Idle /\ Agrees(Head(answers)) /\ sent = <<>>
  BY <1>3, LastAnswer
<1>5. Head(answers).granted /\ call.op = "cancel"
  BY <1>1, <1>2, <1>3, <1>4 DEF Answered
<1>6. alive => \A l \in listeners : l.fwd # call.fwd
  BY <1>3, <1>4, <1>5 DEF Agrees
<1> QED BY <1>0, <1>3, <1>4, <1>6 DEF Listening

\* A cancellation that returns Ok has closed the listener it names, and no
\* earlier request can bring it back.
THEOREM CancellationsEffective == Spec => CancelsEffective
<1>1. RemoteInv /\ [Next]_vars =>
        [\A i \in Calls : result[i] # "ok" /\ result'[i] = "ok" =>
            /\ sent' = <<>>
            /\ \A l \in listeners' : l.fwd # call.fwd]_vars
  BY OkStep
<1> QED BY <1>1, RemoteInvariant, PTL DEF Spec, CancelsEffective

-----------------------------------------------------------------------------
(* Forwarded channels, first who waits for a receiver's mutex.             *)

\* The callers in S wait, each once, in the order s.
Waits(s, S) == /\ s \in Seq(Callers)
               /\ S = {s[i] : i \in 1..Len(s)}
               /\ \A i, j \in 1..Len(s) : s[i] = s[j] => i = j

\* A caller joins at the end.
LEMMA WaitsMore ==
  ASSUME NEW s, NEW S, Waits(s, S), NEW p \in Callers, p \notin S
  PROVE  /\ Waits(Append(s, p), S \cup {p})
         /\ S # {} => Head(Append(s, p)) = Head(s)
<1>1. PICK n \in Nat : n = Len(s)
  BY DEF Waits
<1>2. PICK t : t = Append(s, p)
  OBVIOUS
<1>3. s \in Seq(Callers)
  BY DEF Waits
<1>4. /\ t \in Seq(Callers) /\ Len(t) = n + 1 /\ t[n + 1] = p
      /\ \A i \in 1..n : t[i] = s[i]
  BY <1>1, <1>2, <1>3
<1>5. \A i \in 1..n + 1 : i \in 1..n \/ i = n + 1
  OBVIOUS
<1>6. \A i \in 1..n : i \in 1..n + 1
  OBVIOUS
<1>7. S = {s[i] : i \in 1..n} /\ \A i, j \in 1..n : s[i] = s[j] => i = j
  BY <1>1 DEF Waits
<1>8. S \cup {p} = {t[i] : i \in 1..n + 1}
  BY <1>4, <1>5, <1>6, <1>7
<1>9. \A i, j \in 1..n + 1 : t[i] = t[j] => i = j
  BY <1>4, <1>5, <1>7
<1>10. Waits(t, S \cup {p})
  BY <1>4, <1>8, <1>9 DEF Waits
<1>11. S # {} => Head(t) = Head(s)
  <2>1. S # {} => 1 \in 1..n
    BY <1>7
  <2>2. 1 \in 1..n => s # <<>> /\ t # <<>> /\ Head(s) = s[1] /\ Head(t) = t[1]
    BY <1>1, <1>3, <1>4
  <2> QED BY <1>4, <2>1, <2>2
<1> QED BY <1>2, <1>10, <1>11

\* A sequence without its element at i.
LEMMA Removed ==
  ASSUME NEW s \in Seq(Callers), NEW i \in 1..Len(s)
  PROVE  /\ RemoveAt(s, i) \in Seq(Callers)
         /\ Len(RemoveAt(s, i)) = Len(s) - 1
         /\ \A j \in 1..Len(s) - 1 :
                RemoveAt(s, i)[j] = IF j < i THEN s[j] ELSE s[j + 1]
<1>1. PICK n \in Nat : n = Len(s)
  OBVIOUS
<1>2. i \in Nat /\ i >= 1 /\ i <= n
  BY <1>1
<1>3. PICK a, b : a = SubSeq(s, 1, i - 1) /\ b = SubSeq(s, i + 1, n)
  OBVIOUS
<1>4. /\ a \in Seq(Callers) /\ Len(a) = i - 1
      /\ \A j \in 1..i - 1 : a[j] = s[j]
  BY <1>1, <1>2, <1>3
<1>5. /\ b \in Seq(Callers) /\ Len(b) = n - i
      /\ \A j \in 1..n - i : b[j] = s[i + j]
  BY <1>1, <1>2, <1>3
<1>6. PICK r : r = a \o b
  OBVIOUS
<1>7. r \in Seq(Callers) /\ Len(r) = (i - 1) + (n - i)
  <2>1. a \in Seq(Callers) /\ b \in Seq(Callers)
    BY <1>4, <1>5
  <2>2. r \in Seq(Callers)
    BY <1>6, <2>1
  <2>3. Len(r) = Len(a) + Len(b)
    BY <1>6, <2>1
  <2> QED BY <1>4, <1>5, <2>2, <2>3
<1>8. (i - 1) + (n - i) = n - 1
  BY <1>2
<1>9. ASSUME NEW j \in 1..n - 1 PROVE r[j] = IF j < i THEN s[j] ELSE s[j + 1]
  <2>1. CASE j < i
    <3>1. j \in 1..i - 1
      BY <1>2, <2>1
    <3>2. r[j] = a[j]
      BY <1>2, <1>4, <1>5, <1>6, <3>1
    <3> QED BY <1>4, <2>1, <3>1, <3>2
  <2>2. CASE ~(j < i)
    <3>1. PICK m : m = j - (i - 1)
      OBVIOUS
    <3>2. m \in 1..n - i /\ j = (i - 1) + m /\ i + m = j + 1 /\ j > i - 1
      BY <1>2, <2>2, <3>1
    <3>3. r[j] = b[m]
      BY <1>2, <1>4, <1>5, <1>6, <3>1, <3>2
    <3> QED BY <1>5, <2>2, <3>2, <3>3
  <2> QED BY <2>1, <2>2
<1>10. r = RemoveAt(s, i)
  BY <1>1, <1>3, <1>6 DEF RemoveAt
<1> QED BY <1>1, <1>7, <1>8, <1>9, <1>10

\* A caller leaves, wherever it stands.
LEMMA WaitsLess ==
  ASSUME NEW s, NEW S, Waits(s, S), NEW p \in S
  PROVE  /\ Waits(RemoveFirst(s, p), S \ {p})
         /\ Head(s) # p => Head(RemoveFirst(s, p)) = Head(s)
<1>1. PICK n \in Nat : n = Len(s)
  BY DEF Waits
<1>2. /\ s \in Seq(Callers) /\ S = {s[i] : i \in 1..n}
      /\ \A i, j \in 1..n : s[i] = s[j] => i = j
  BY <1>1 DEF Waits
<1>3. PICK i \in 1..n : s[i] = p
  BY <1>2
<1>4. {j \in 1..n : s[j] = p} = {i} /\ i \in Nat
  BY <1>2, <1>3
<1>5. RemoveFirst(s, p) = RemoveAt(s, i)
  <2>1. \E j \in 1..Len(s) : s[j] = p
    BY <1>1, <1>3
  <2>2. RemoveFirst(s, p) = RemoveAt(s, SelectInSeq(s, LAMBDA v : v = p))
    BY <2>1 DEF RemoveFirst
  <2>3. SelectInSeq(s, LAMBDA v : v = p) = Min({j \in 1..n : s[j] = p})
    BY <1>1, <1>4 DEF SelectInSeq
  <2>4. Min({i}) = i
    BY <1>4 DEF Min
  <2> QED BY <1>4, <2>2, <2>3, <2>4
<1>6. PICK r : r = RemoveFirst(s, p)
  OBVIOUS
<1>7. /\ r \in Seq(Callers) /\ Len(r) = n - 1
      /\ \A j \in 1..n - 1 : r[j] = IF j < i THEN s[j] ELSE s[j + 1]
  <2>1. i \in 1..Len(s)
    BY <1>1, <1>3
  <2>2. /\ RemoveAt(s, i) \in Seq(Callers)
        /\ Len(RemoveAt(s, i)) = Len(s) - 1
        /\ \A j \in 1..Len(s) - 1 :
               RemoveAt(s, i)[j] = IF j < i THEN s[j] ELSE s[j + 1]
    BY <1>2, <2>1, Removed
  <2> QED BY <1>1, <1>5, <1>6, <2>2
<1>8. \A j \in 1..n - 1 : /\ j < i => j \in 1..n /\ r[j] = s[j] /\ j # i
                          /\ ~(j < i) => j + 1 \in 1..n /\ r[j] = s[j + 1] /\ j + 1 # i
  BY <1>7
<1>9. S \ {p} = {r[j] : j \in 1..n - 1}
  <2>1. \A j \in 1..n - 1 : r[j] \in S /\ r[j] # p
    BY <1>2, <1>3, <1>8
  <2>2. ASSUME NEW q \in S, q # p PROVE \E j \in 1..n - 1 : r[j] = q
    <3>1. PICK j \in 1..n : s[j] = q /\ j # i
      BY <1>2, <1>3, <2>2
    <3>2. CASE j < i
      <4>1. j \in 1..n - 1
        BY <3>2
      <4> QED BY <1>8, <3>1, <3>2, <4>1
    <3>3. CASE ~(j < i)
      <4>1. j - 1 \in 1..n - 1 /\ (j - 1) + 1 = j /\ ~(j - 1 < i)
        BY <3>1, <3>3
      <4> QED BY <1>8, <3>1, <4>1
    <3> QED BY <3>2, <3>3
  <2> QED BY <2>1, <2>2
<1>10. ASSUME NEW j \in 1..n - 1, NEW k \in 1..n - 1, r[j] = r[k] PROVE j = k
  <2>1. PICK x \in 1..n : r[j] = s[x] /\ x = IF j < i THEN j ELSE j + 1
    BY <1>8
  <2>2. PICK y \in 1..n : r[k] = s[y] /\ y = IF k < i THEN k ELSE k + 1
    BY <1>8
  <2>3. x = y
    BY <1>2, <1>10, <2>1, <2>2
  <2> QED BY <2>1, <2>2, <2>3
<1>11. Waits(r, S \ {p})
  BY <1>7, <1>9, <1>10 DEF Waits
<1>12. Head(s) # p => Head(r) = Head(s)
  <2>1. s # <<>> /\ Head(s) = s[1]
    BY <1>1, <1>2, <1>3
  <2>2. ASSUME s[1] # p PROVE Head(r) = s[1]
    <3>1. 1 \in 1..n - 1 /\ 1 < i
      BY <1>3, <2>2
    <3>2. r # <<>> /\ Head(r) = r[1]
      BY <1>7, <3>1
    <3> QED BY <1>8, <3>1, <3>2
  <2> QED BY <2>1, <2>2
<1> QED BY <1>6, <1>11, <1>12

-----------------------------------------------------------------------------
(* ForwardedInv, in the terms of these lemmas.                             *)

Waiting(k) == {p \in Callers : cpc[p] # "idle" /\ want[p] = k}
Mutexes == \A k \in Kinds : Waits(lock[k], Waiting(k)) /\ Len(queue[k]) <= Capacity
Holding == \A p \in Callers : cpc[p] = "receiving" => Head(lock[want[p]]) = p
Alone == request # 0 => \A p \in Callers : cpc[p] = "idle"
LoopGone == ~running => hand = <<>>

\* Each mutex is waited for by the callers of its kind, each once; whoever
\* receives holds it; a request excludes callers; a loop that is gone left
\* nothing in a handler's hand; and the end that callers know of is the end.
Forwarding == ForwardedTypeOK /\ Mutexes /\ Holding /\ Alone /\ LoopGone /\ EndIsEnd

\* ForwardedInv says that.
LEMMA ForwardingIs == ForwardedInv <=> Forwarding
<1>1. ASSUME ForwardedTypeOK, NEW k \in Kinds
      PROVE  /\ ToSet(lock[k]) = Waiting(k)
             /\ IsInjective(lock[k])
             <=> Waits(lock[k], Waiting(k))
  <2>1. lock[k] \in Seq(Callers)
    BY <1>1 DEF ForwardedTypeOK
  <2>2. DOMAIN lock[k] = 1..Len(lock[k])
    BY <2>1
  <2>3. ToSet(lock[k]) = {lock[k][i] : i \in 1..Len(lock[k])}
    BY <2>2 DEF ToSet
  <2>4. IsInjective(lock[k]) <=>
          \A i, j \in 1..Len(lock[k]) : lock[k][i] = lock[k][j] => i = j
    BY <2>2 DEF IsInjective
  <2> QED BY <2>1, <2>3, <2>4 DEF Waits
<1>2. ForwardedTypeOK =>
        (\A k \in Kinds : ToSet(lock[k]) = Waiting(k) /\ IsInjective(lock[k]))
          <=> \A k \in Kinds : Waits(lock[k], Waiting(k))
  BY <1>1
<1> QED BY <1>2 DEF ForwardedInv, Forwarding, Mutexes, Holding, Alone, LoopGone, Waiting

\* Steps of the server, the loop and the owner that leave queues and callers
\* alone.
LEMMA QuietInv ==
  ASSUME Forwarding, ForwardedTypeOK', UNCHANGED <<queue, callVars>>, ~running => ~running',
         request' # 0 => request' = request \/ \A p \in Callers : cpc[p] = "idle",
         ~running' => hand' = <<>>
  PROVE  Forwarding'
<1>1. /\ queue' = queue /\ lock' = lock /\ cpc' = cpc /\ want' = want
      /\ stop' = stop /\ ended' = ended
  BY DEF callVars
<1>2. Mutexes' /\ Holding'
  BY <1>1 DEF Forwarding, Mutexes, Holding, Waiting
<1>3. Alone' /\ LoopGone' /\ EndIsEnd'
  BY <1>1 DEF Forwarding, Alone, LoopGone, EndIsEnd
<1> QED BY <1>2, <1>3 DEF Forwarding

\* The first packet on the wire is a reply or a channel of some kind.
LEMMA Packet ==
  ASSUME ForwardedTypeOK, wire # <<>>
  PROVE  /\ Tail(wire) \in Seq(Packets) /\ Head(wire) \in Packets
         /\ Head(wire).id \in Nat
         /\ Head(wire).kind # "reply" =>
              Head(wire).kind \in Kinds /\ Head(wire) \in [kind : Kinds, id : Nat]
<1>1. wire \in Seq(Packets)
  BY DEF ForwardedTypeOK
<1>2. Tail(wire) \in Seq(Packets) /\ Head(wire) \in Packets
  BY <1>1
<1> QED BY <1>2 DEF Packets

\* The server opens channels and answers, the transport breaks.
LEMMA ServerKeeps == Forwarding /\ Server => Forwarding'
<1> SUFFICES ASSUME Forwarding, Server PROVE Forwarding'
  OBVIOUS
<1>0. ForwardedTypeOK /\ LoopGone
  BY DEF Forwarding
<1>1. ASSUME NEW k \in Kinds, ServerOpens(k) PROVE Forwarding'
  <2>1. /\ opened' = [opened EXCEPT ![k] = @ + 1]
        /\ wire' = Append(wire, [kind |-> k, id |-> opened[k] + 1])
        /\ UNCHANGED <<running, broken, outbox, asked, hand, queue, callVars, askVars,
                       delivered>>
    BY <1>1 DEF ServerOpens
  <2>2. opened[k] \in Nat /\ opened' \in [Kinds -> Nat]
    BY <1>0, <2>1 DEF ForwardedTypeOK
  <2>3. [kind |-> k, id |-> opened[k] + 1] \in Packets
    BY <2>2 DEF Packets
  <2>4. wire' \in Seq(Packets)
    BY <1>0, <2>1, <2>3 DEF ForwardedTypeOK
  <2>5. ForwardedTypeOK'
    BY <1>0, <2>1, <2>2, <2>4 DEF ForwardedTypeOK, callVars, askVars
  <2> QED BY <1>0, <2>1, <2>5, QuietInv DEF askVars, LoopGone
<1>2. CASE ServerReplies
  <2>1. /\ asked # <<>> /\ asked' = Tail(asked)
        /\ wire' = Append(wire, [kind |-> "reply", id |-> Head(asked)])
        /\ UNCHANGED <<running, broken, outbox, hand, queue, callVars, askVars, opened,
                       delivered>>
    BY <1>2 DEF ServerReplies
  <2>2. Head(asked) \in Nat /\ asked' \in Seq(Nat)
    BY <1>0, <2>1 DEF ForwardedTypeOK
  <2>3. [kind |-> "reply", id |-> Head(asked)] \in Packets
    BY <2>2 DEF Packets
  <2>4. wire' \in Seq(Packets)
    BY <1>0, <2>1, <2>3 DEF ForwardedTypeOK
  <2>5. ForwardedTypeOK'
    BY <1>0, <2>1, <2>2, <2>4 DEF ForwardedTypeOK, callVars, askVars
  <2> QED BY <1>0, <2>1, <2>5, QuietInv DEF askVars, LoopGone
<1>3. CASE TransportFails
  <2>1. /\ broken' = TRUE
        /\ UNCHANGED <<running, wire, outbox, asked, hand, queue, callVars, askVars,
                       opened, delivered>>
    BY <1>3 DEF TransportFails
  <2>2. ForwardedTypeOK'
    BY <1>0, <2>1 DEF ForwardedTypeOK, callVars, askVars
  <2> QED BY <1>0, <2>1, <2>2, QuietInv DEF askVars, LoopGone
<1> QED BY <1>1, <1>2, <1>3 DEF Server

\* The loop reads, writes and ends, never inside a handler.
LEMMA LoopKeeps == Forwarding /\ (LoopStep \/ LoopWrites) => Forwarding'
<1> SUFFICES ASSUME Forwarding, LoopStep \/ LoopWrites PROVE Forwarding'
  OBVIOUS
<1>0. ForwardedTypeOK /\ LoopGone
  BY DEF Forwarding
<1>1. CASE LoopReads
  <2>1. /\ running /\ hand = <<>> /\ wire # <<>> /\ wire' = Tail(wire)
        /\ UNCHANGED <<running, broken, outbox, asked, queue, callVars, requests,
                       opened, delivered>>
    BY <1>1 DEF LoopReads, Free
  <2>2. /\ request' = request \/ request' = 0
        /\ \/ hand' = hand
           \/ Head(wire).kind # "reply" /\ hand' = <<Head(wire)>>
    BY <1>1 DEF LoopReads
  <2>3. wire' \in Seq(Packets)
    BY <1>0, <2>1, Packet
  <2>4. hand' \in Seq([kind : Kinds, id : Nat]) /\ Len(hand') <= 1
    <3>1. CASE hand' = hand
      BY <1>0, <3>1 DEF ForwardedTypeOK
    <3>2. CASE hand' # hand
      <4>1. PICK m : m = Head(wire)
        OBVIOUS
      <4>2. m \in [kind : Kinds, id : Nat] /\ hand' = <<m>>
        BY <1>0, <2>1, <2>2, <3>2, <4>1, Packet
      <4> QED BY <4>2
    <3> QED BY <3>1, <3>2
  <2>5. request' \in Nat
    BY <1>0, <2>2 DEF ForwardedTypeOK
  <2>6. ForwardedTypeOK'
    BY <1>0, <2>1, <2>3, <2>4, <2>5 DEF ForwardedTypeOK, callVars
  <2> QED BY <2>1, <2>2, <2>6, QuietInv
<1>2. CASE LoopEnds
  <2>1. /\ hand = <<>> /\ running' = FALSE
        /\ UNCHANGED <<broken, wire, outbox, asked, hand, queue, callVars, askVars,
                       opened, delivered>>
    BY <1>2 DEF LoopEnds, Free
  <2>2. ForwardedTypeOK'
    BY <1>0, <2>1 DEF ForwardedTypeOK, callVars, askVars
  <2> QED BY <2>1, <2>2, QuietInv DEF askVars
<1>3. CASE LoopWrites
  <2>1. /\ running /\ hand = <<>> /\ outbox # <<>> /\ outbox' = Tail(outbox)
        /\ running' \in BOOLEAN /\ (asked' = asked \/ asked' = Append(asked, Head(outbox)))
        /\ UNCHANGED <<broken, wire, hand, queue, callVars, askVars, opened,
                       delivered>>
    BY <1>3 DEF LoopWrites, Free
  <2>2. Head(outbox) \in Nat /\ outbox' \in Seq(Nat)
    BY <1>0, <2>1 DEF ForwardedTypeOK
  <2>3. asked' \in Seq(Nat)
    <3>1. asked \in Seq(Nat)
      BY <1>0 DEF ForwardedTypeOK
    <3>2. Append(asked, Head(outbox)) \in Seq(Nat)
      BY <2>2, <3>1
    <3> QED BY <2>1, <3>1, <3>2
  <2>4. ForwardedTypeOK'
    BY <1>0, <2>1, <2>2, <2>3 DEF ForwardedTypeOK, callVars, askVars
  <2> QED BY <2>1, <2>4, QuietInv DEF askVars
<1> QED BY <1>1, <1>2, <1>3 DEF LoopStep

\* Requests begin only when no caller waits; a disconnect is a message.
LEMMA OwnerKeeps ==
  Forwarding /\ (OwnerRequest \/ RequestTimeout \/ Disconnect) => Forwarding'
<1> SUFFICES ASSUME Forwarding, OwnerRequest \/ RequestTimeout \/ Disconnect
             PROVE  Forwarding'
  OBVIOUS
<1>0. ForwardedTypeOK /\ LoopGone
  BY DEF Forwarding
<1>1. CASE OwnerRequest
  <2>1. /\ \A p \in Callers : cpc[p] = "idle"
        /\ requests' = requests + 1 /\ request' = requests + 1
        /\ outbox' = Append(outbox, requests + 1)
        /\ UNCHANGED <<running, broken, wire, asked, hand, queue, callVars, opened,
                       delivered>>
    BY <1>1 DEF OwnerRequest
  <2>2. requests + 1 \in Nat
    BY <1>0 DEF ForwardedTypeOK
  <2>3. outbox' \in Seq(Nat)
    BY <1>0, <2>1, <2>2 DEF ForwardedTypeOK
  <2>4. ForwardedTypeOK'
    BY <1>0, <2>1, <2>2, <2>3 DEF ForwardedTypeOK, callVars
  <2> QED BY <1>0, <2>1, <2>4, QuietInv DEF LoopGone
<1>2. CASE RequestTimeout
  <2>1. /\ request' = 0
        /\ UNCHANGED <<loopVars, queue, callVars, requests, opened, delivered>>
    BY <1>2 DEF RequestTimeout
  <2>2. ForwardedTypeOK'
    BY <1>0, <2>1 DEF ForwardedTypeOK, callVars, loopVars
  <2> QED BY <1>0, <2>1, <2>2, QuietInv DEF LoopGone, loopVars
<1>3. CASE Disconnect
  <2>1. /\ outbox' = Append(outbox, 0)
        /\ UNCHANGED <<running, broken, wire, asked, hand, queue, callVars, askVars,
                       opened, delivered>>
    BY <1>3 DEF Disconnect, Bye
  <2>2. outbox' \in Seq(Nat)
    BY <1>0, <2>1 DEF ForwardedTypeOK
  <2>3. ForwardedTypeOK'
    BY <1>0, <2>1, <2>2 DEF ForwardedTypeOK, callVars, askVars
  <2> QED BY <1>0, <2>1, <2>3, QuietInv DEF LoopGone, askVars
<1> QED BY <1>1, <1>2, <1>3

\* The handler puts its channel into the queue when there is room.
LEMMA SendKeeps == ASSUME Forwarding, Send PROVE Forwarding'
<1>0. ForwardedTypeOK /\ Mutexes /\ LoopGone
  BY DEF Forwarding
<1>1. PICK k, n : k = Head(hand).kind /\ n = Head(hand).id
  OBVIOUS
<1>2. /\ hand # <<>> /\ Len(queue[k]) < Capacity
      /\ queue' = [queue EXCEPT ![k] = Append(@, n)] /\ hand' = <<>>
      /\ UNCHANGED <<running, broken, wire, outbox, asked, callVars, askVars, opened,
                     delivered>>
  BY <1>1 DEF Send
<1>3. k \in Kinds /\ n \in Nat
  <2>1. hand \in Seq([kind : Kinds, id : Nat])
    BY <1>0 DEF ForwardedTypeOK
  <2>2. PICK S : S = [kind : Kinds, id : Nat]
    OBVIOUS
  <2>3. hand \in Seq(S) /\ hand # <<>>
    BY <1>2, <2>1, <2>2
  <2>4. Head(hand) \in S
    BY <2>3
  <2> QED BY <1>1, <2>2, <2>4
<1>4. queue[k] \in Seq(Nat)
  BY <1>0, <1>3 DEF ForwardedTypeOK
<1>5. Append(queue[k], n) \in Seq(Nat) /\ Len(Append(queue[k], n)) = Len(queue[k]) + 1
  BY <1>3, <1>4
<1>6. queue' \in [Kinds -> Seq(Nat)]
  BY <1>0, <1>2, <1>5 DEF ForwardedTypeOK
<1>7. hand' \in Seq([kind : Kinds, id : Nat]) /\ Len(hand') <= 1
  BY <1>2
<1>8. ForwardedTypeOK'
  BY <1>0, <1>2, <1>6, <1>7 DEF ForwardedTypeOK, callVars, askVars
<1>9. /\ lock' = lock /\ cpc' = cpc /\ want' = want /\ ended' = ended
      /\ request' = request /\ running' = running
  BY <1>2 DEF callVars, askVars
<1>10. Mutexes'
  <2>1. ASSUME NEW j \in Kinds PROVE Len(queue'[j]) <= Capacity
    <3>1. CASE j = k
      <4>1. queue'[k] = Append(queue[k], n)
        BY <1>0, <1>2, <1>3 DEF ForwardedTypeOK
      <4>2. PICK l \in Nat : l = Len(queue[k])
        BY <1>4
      <4>3. Len(queue'[k]) = l + 1 /\ l < Capacity
        BY <1>2, <1>5, <4>1, <4>2
      <4> QED BY <3>1, <4>3, ForwardedAssumption
    <3>2. CASE j # k
      BY <1>0, <1>2, <3>2 DEF ForwardedTypeOK, Mutexes
    <3> QED BY <3>1, <3>2
  <2>2. \A j \in Kinds : Waits(lock'[j], Waiting(j)')
    BY <1>0, <1>9 DEF Mutexes, Waiting
  <2> QED BY <2>1, <2>2 DEF Mutexes
<1>11. Holding' /\ Alone' /\ LoopGone'
  BY <1>2, <1>9 DEF Forwarding, Holding, Alone, LoopGone
<1>12. EndIsEnd'
  <2>1. running
    BY <1>0, <1>2 DEF LoopGone
  <2>2. \A p \in Callers : ~ended[p]
    BY <2>1 DEF Forwarding, EndIsEnd
  <2> QED BY <1>9, <2>2 DEF EndIsEnd
<1> QED BY <1>8, <1>10, <1>11, <1>12 DEF Forwarding

\* A caller asks for the mutex of its kind's receiver, behind the others.
LEMMA CallKeeps ==
  ASSUME Forwarding, NEW p \in Callers, NEW k \in Kinds, Call(p, k)
  PROVE  Forwarding'
<1>0. ForwardedTypeOK /\ Mutexes /\ Holding /\ LoopGone /\ EndIsEnd
  BY DEF Forwarding
<1>1. /\ cpc[p] = "idle" /\ request = 0
      /\ cpc' = [cpc EXCEPT ![p] = "locking"]
      /\ want' = [want EXCEPT ![p] = k]
      /\ ended' = [ended EXCEPT ![p] = FALSE]
      /\ lock' = [lock EXCEPT ![k] = Append(@, p)]
      /\ UNCHANGED <<loopVars, queue, stop, askVars, opened, delivered>>
  BY DEF Call
<1>2. /\ running' = running /\ hand' = hand /\ queue' = queue /\ request' = request
      /\ wire' = wire /\ outbox' = outbox /\ asked' = asked /\ broken' = broken
      /\ requests' = requests /\ stop' = stop /\ opened' = opened
      /\ delivered' = delivered
  BY <1>1 DEF loopVars, askVars
<1>3. /\ cpc'[p] = "locking" /\ want'[p] = k /\ ended'[p] = FALSE
      /\ lock'[k] = Append(lock[k], p)
      /\ \A q \in Callers : q # p => /\ cpc'[q] = cpc[q] /\ want'[q] = want[q]
                                     /\ ended'[q] = ended[q]
      /\ \A j \in Kinds : j # k => lock'[j] = lock[j]
  BY <1>0, <1>1 DEF ForwardedTypeOK
<1>4. ForwardedTypeOK'
  <2>1. lock[k] \in Seq(Callers)
    BY <1>0 DEF ForwardedTypeOK
  <2>2. Append(lock[k], p) \in Seq(Callers)
    BY <2>1
  <2>3. lock' \in [Kinds -> Seq(Callers)]
    BY <1>0, <1>1, <2>2 DEF ForwardedTypeOK
  <2>4. /\ cpc' \in [Callers -> {"idle", "locking", "receiving"}]
        /\ want' \in [Callers -> Kinds] /\ ended' \in [Callers -> BOOLEAN]
    BY <1>0, <1>1 DEF ForwardedTypeOK
  <2> QED BY <1>0, <1>2, <2>3, <2>4 DEF ForwardedTypeOK
<1>5. /\ Waiting(k)' = Waiting(k) \cup {p} /\ p \notin Waiting(k)
      /\ \A j \in Kinds : j # k => Waiting(j)' = Waiting(j)
  BY <1>1, <1>3 DEF Waiting
<1>6. /\ Waits(Append(lock[k], p), Waiting(k) \cup {p})
      /\ Waiting(k) # {} => Head(Append(lock[k], p)) = Head(lock[k])
  <2>1. Waits(lock[k], Waiting(k))
    BY <1>0 DEF Mutexes
  <2> QED BY <1>5, <2>1, WaitsMore
<1>7. Mutexes'
  <2>1. ASSUME NEW j \in Kinds PROVE Waits(lock'[j], Waiting(j)')
    <3>1. CASE j = k
      BY <1>3, <1>5, <1>6, <3>1
    <3>2. CASE j # k
      BY <1>0, <1>3, <1>5, <3>2 DEF Mutexes
    <3> QED BY <3>1, <3>2
  <2> QED BY <1>0, <1>2, <2>1 DEF Mutexes
<1>8. Holding'
  <2>1. ASSUME NEW q \in Callers, cpc'[q] = "receiving"
        PROVE  Head(lock'[want'[q]]) = q
    <3>1. q # p /\ cpc[q] = "receiving" /\ want'[q] = want[q] /\ want[q] \in Kinds
      BY <1>0, <1>3, <2>1 DEF ForwardedTypeOK
    <3>2. Head(lock[want[q]]) = q
      BY <1>0, <3>1 DEF Holding
    <3>3. q \in Waiting(want[q])
      BY <3>1 DEF Waiting
    <3> QED BY <1>3, <1>6, <3>1, <3>2, <3>3
  <2> QED BY <2>1 DEF Holding
<1>9. Alone' /\ LoopGone'
  BY <1>0, <1>1, <1>2 DEF Alone, LoopGone
<1>10. EndIsEnd'
  BY <1>0, <1>2, <1>3 DEF EndIsEnd
<1> QED BY <1>4, <1>7, <1>8, <1>9, <1>10 DEF Forwarding

\* A context ends, or the mutex is handed to the caller that is first.
LEMMA WaitKeeps ==
  ASSUME Forwarding, NEW p \in Callers, Stop(p) \/ Locked(p)
  PROVE  Forwarding'
<1>0. ForwardedTypeOK /\ Mutexes /\ Holding /\ Alone /\ LoopGone /\ EndIsEnd
  BY DEF Forwarding
<1>1. /\ running' = running /\ hand' = hand /\ queue' = queue /\ request' = request
      /\ wire' = wire /\ outbox' = outbox /\ asked' = asked /\ broken' = broken
      /\ requests' = requests /\ opened' = opened /\ delivered' = delivered
      /\ lock' = lock /\ want' = want /\ ended' = ended
  BY DEF Stop, Locked, loopVars, askVars
<1>2. /\ cpc[p] # "idle" /\ cpc'[p] # "idle"
      /\ cpc'[p] = "receiving" =>
           cpc[p] = "receiving" \/ Head(lock[want[p]]) = p
      /\ \A q \in Callers : q # p => cpc'[q] = cpc[q]
      /\ cpc' \in [Callers -> {"idle", "locking", "receiving"}]
      /\ stop' \in [Callers -> BOOLEAN]
  BY <1>0 DEF Stop, Locked, ForwardedTypeOK
<1>3. ForwardedTypeOK'
  BY <1>0, <1>1, <1>2 DEF ForwardedTypeOK
<1>4. \A k \in Kinds : Waiting(k)' = Waiting(k)
  BY <1>1, <1>2 DEF Waiting
<1>5. Mutexes'
  BY <1>0, <1>1, <1>4 DEF Mutexes
<1>6. Holding'
  BY <1>0, <1>1, <1>2 DEF Holding
<1>7. Alone' /\ LoopGone' /\ EndIsEnd'
  BY <1>0, <1>1, <1>2 DEF Alone, LoopGone, EndIsEnd
<1> QED BY <1>3, <1>5, <1>6, <1>7 DEF Forwarding

\* A call returns, with a channel, at the end or because its context ended,
\* and its place in the queue of the mutex goes with it.
LEMMA ReturnKeeps ==
  ASSUME Forwarding, NEW p \in Callers, cpc[p] # "idle",
         NEW end \in BOOLEAN, Return(p, end),
         queue' \in [Kinds -> Seq(Nat)], delivered' \in [Kinds -> Seq(Nat)],
         \A k \in Kinds : Len(queue'[k]) <= Len(queue[k]),
         \A k \in Kinds : queue[k] = <<>> => queue'[k] = <<>>,
         end => ~running /\ queue[want[p]] = <<>>
  PROVE  Forwarding'
<1>0. ForwardedTypeOK /\ Mutexes /\ Holding /\ Alone /\ LoopGone /\ EndIsEnd
  BY DEF Forwarding
<1>1. PICK k : k = want[p]
  OBVIOUS
<1>2. /\ cpc' = [cpc EXCEPT ![p] = "idle"]
      /\ lock' = [lock EXCEPT ![k] = RemoveFirst(@, p)]
      /\ ended' = [ended EXCEPT ![p] = end]
      /\ stop' = [stop EXCEPT ![p] = FALSE]
  BY <1>1 DEF Return
<1>3. /\ running' = running /\ hand' = hand /\ request' = request
      /\ wire' = wire /\ outbox' = outbox /\ asked' = asked /\ broken' = broken
      /\ requests' = requests /\ opened' = opened /\ want' = want
  BY DEF Return, loopVars, askVars
<1>4. k \in Kinds /\ p \in Waiting(k)
  BY <1>0, <1>1 DEF ForwardedTypeOK, Waiting
<1>5. /\ cpc'[p] = "idle" /\ ended'[p] = end
      /\ lock'[k] = RemoveFirst(lock[k], p)
      /\ \A q \in Callers : q # p => cpc'[q] = cpc[q] /\ ended'[q] = ended[q]
      /\ \A j \in Kinds : j # k => lock'[j] = lock[j]
  BY <1>0, <1>2, <1>4 DEF ForwardedTypeOK
<1>6. /\ Waits(RemoveFirst(lock[k], p), Waiting(k) \ {p})
      /\ Head(lock[k]) # p => Head(RemoveFirst(lock[k], p)) = Head(lock[k])
  <2>1. Waits(lock[k], Waiting(k))
    BY <1>0, <1>4 DEF Mutexes
  <2> QED BY <1>4, <2>1, WaitsLess
<1>7. ForwardedTypeOK'
  <2>1. RemoveFirst(lock[k], p) \in Seq(Callers)
    BY <1>6 DEF Waits
  <2>2. lock' \in [Kinds -> Seq(Callers)]
    BY <1>0, <1>2, <2>1 DEF ForwardedTypeOK
  <2>3. /\ cpc' \in [Callers -> {"idle", "locking", "receiving"}]
        /\ stop' \in [Callers -> BOOLEAN] /\ ended' \in [Callers -> BOOLEAN]
    BY <1>0, <1>2 DEF ForwardedTypeOK
  <2> QED BY <1>0, <1>3, <2>2, <2>3 DEF ForwardedTypeOK
<1>8. /\ Waiting(k)' = Waiting(k) \ {p}
      /\ \A j \in Kinds : j # k => Waiting(j)' = Waiting(j)
  BY <1>1, <1>3, <1>5 DEF Waiting
<1>9. Mutexes'
  <2>1. ASSUME NEW j \in Kinds PROVE Waits(lock'[j], Waiting(j)')
    <3>1. CASE j = k
      BY <1>5, <1>6, <1>8, <3>1
    <3>2. CASE j # k
      BY <1>0, <1>5, <1>8, <3>2 DEF Mutexes
    <3> QED BY <3>1, <3>2
  <2>2. ASSUME NEW j \in Kinds PROVE Len(queue'[j]) <= Capacity
    <3>1. PICK x, y \in Nat : x = Len(queue'[j]) /\ y = Len(queue[j])
      BY <1>0 DEF ForwardedTypeOK
    <3>2. x <= y /\ y <= Capacity
      BY <1>0, <3>1 DEF Mutexes
    <3> QED BY <3>1, <3>2, ForwardedAssumption
  <2> QED BY <2>1, <2>2 DEF Mutexes
<1>10. Holding'
  <2>1. ASSUME NEW q \in Callers, cpc'[q] = "receiving"
        PROVE  Head(lock'[want'[q]]) = q
    <3>1. q # p /\ cpc[q] = "receiving" /\ want'[q] = want[q] /\ want[q] \in Kinds
      BY <1>0, <1>3, <1>5, <2>1 DEF ForwardedTypeOK
    <3>2. Head(lock[want[q]]) = q
      BY <1>0, <3>1 DEF Holding
    <3> QED BY <1>5, <1>6, <3>1, <3>2
  <2> QED BY <2>1 DEF Holding
<1>11. Alone' /\ LoopGone'
  BY <1>0, <1>3, <1>5 DEF Alone, LoopGone
<1>12. EndIsEnd'
  <2>1. ASSUME NEW q \in Callers, ended'[q] PROVE ~running /\ queue[want[q]] = <<>>
    <3>1. CASE q = p
      BY <1>5, <2>1, <3>1
    <3>2. CASE q # p
      BY <1>0, <1>5, <2>1, <3>2 DEF EndIsEnd
    <3> QED BY <3>1, <3>2
  <2>2. \A q \in Callers : want[q] \in Kinds
    BY <1>0 DEF ForwardedTypeOK
  <2> QED BY <1>3, <2>1, <2>2 DEF EndIsEnd
<1> QED BY <1>7, <1>9, <1>10, <1>11, <1>12 DEF Forwarding

\* A channel is taken from the queue.
LEMMA Fetched ==
  ASSUME ForwardedTypeOK, NEW p \in Callers, Receive(p)
  PROVE  /\ want[p] \in Kinds /\ queue[want[p]] # <<>>
         /\ queue[want[p]] \in Seq(Nat) /\ delivered[want[p]] \in Seq(Nat)
         /\ queue' = [queue EXCEPT ![want[p]] = Tail(@)]
         /\ delivered' = [delivered EXCEPT ![want[p]] = Append(@, Head(queue[want[p]]))]
         /\ Head(queue[want[p]]) \in Nat
         /\ queue' \in [Kinds -> Seq(Nat)] /\ delivered' \in [Kinds -> Seq(Nat)]
<1>1. PICK k : k = want[p]
  OBVIOUS
<1>2. /\ k \in Kinds /\ queue[k] # <<>>
      /\ queue[k] \in Seq(Nat) /\ delivered[k] \in Seq(Nat)
      /\ queue' = [queue EXCEPT ![k] = Tail(@)]
      /\ delivered' = [delivered EXCEPT ![k] = Append(@, Head(queue[k]))]
  BY <1>1 DEF Receive, ForwardedTypeOK
<1>3. Head(queue[k]) \in Nat /\ Tail(queue[k]) \in Seq(Nat)
  BY <1>2
<1>4. Append(delivered[k], Head(queue[k])) \in Seq(Nat)
  BY <1>2, <1>3
<1>5. queue' \in [Kinds -> Seq(Nat)] /\ delivered' \in [Kinds -> Seq(Nat)]
  BY <1>2, <1>3, <1>4 DEF ForwardedTypeOK
<1> QED BY <1>1, <1>2, <1>3, <1>5

\* Every step of next_forwarded_tcpip() and next_forwarded_streamlocal().
LEMMA CallStepKeeps ==
  ASSUME Forwarding, NEW p \in Callers, CallStep(p)
  PROVE  Forwarding'
<1>0. ForwardedTypeOK
  BY DEF Forwarding
<1>1. CASE Receive(p)
  <2>1. /\ want[p] \in Kinds /\ queue[want[p]] # <<>> /\ queue[want[p]] \in Seq(Nat)
        /\ queue' = [queue EXCEPT ![want[p]] = Tail(@)]
        /\ queue' \in [Kinds -> Seq(Nat)] /\ delivered' \in [Kinds -> Seq(Nat)]
    BY <1>0, <1>1, Fetched
  <2>2. cpc[p] # "idle" /\ Return(p, FALSE)
    BY <1>1 DEF Receive
  <2>3. Len(Tail(queue[want[p]])) <= Len(queue[want[p]])
    BY <2>1
  <2>4. ASSUME NEW k \in Kinds
        PROVE  Len(queue'[k]) <= Len(queue[k]) /\ (queue[k] = <<>> => queue'[k] = <<>>)
    <3>1. CASE k = want[p]
      BY <1>0, <2>1, <2>3, <3>1 DEF ForwardedTypeOK
    <3>2. CASE k # want[p]
      <4>1. queue'[k] = queue[k] /\ queue[k] \in Seq(Nat)
        BY <1>0, <2>1, <3>2 DEF ForwardedTypeOK
      <4>2. Len(queue[k]) \in Nat
        BY <4>1
      <4> QED BY <4>1, <4>2
    <3> QED BY <3>1, <3>2
  <2> QED BY <2>1, <2>2, <2>4, ReturnKeeps
<1>2. ASSUME NEW end \in BOOLEAN, cpc[p] # "idle", Return(p, end),
             queue' = queue, delivered' = delivered,
             end => ~running /\ queue[want[p]] = <<>>
      PROVE  Forwarding'
  <2>1. queue \in [Kinds -> Seq(Nat)] /\ delivered \in [Kinds -> Seq(Nat)]
    BY <1>0 DEF ForwardedTypeOK
  <2>2. \A k \in Kinds : Len(queue[k]) \in Nat
    BY <2>1
  <2>3. \A k \in Kinds : Len(queue'[k]) <= Len(queue[k])
    BY <1>2, <2>2
  <2> QED BY <1>2, <2>1, <2>3, ReturnKeeps
<1>3. CASE ReceiveEnd(p)
  BY <1>2, <1>3 DEF ReceiveEnd
<1>4. CASE GiveUp(p)
  BY <1>2, <1>4 DEF GiveUp
<1> QED BY <1>1, <1>3, <1>4, WaitKeeps DEF CallStep

-----------------------------------------------------------------------------
\* A session begins with empty queues and no callers.
LEMMA InitForwarding == ForwardedInit => Forwarding
<1> SUFFICES ASSUME ForwardedInit PROVE Forwarding
  OBVIOUS
<1>1. ForwardedTypeOK
  <2>1. /\ wire \in Seq(Packets) /\ outbox \in Seq(Nat) /\ asked \in Seq(Nat)
        /\ hand \in Seq([kind : Kinds, id : Nat]) /\ Len(hand) <= 1
    BY DEF ForwardedInit
  <2>2. /\ queue \in [Kinds -> Seq(Nat)] /\ delivered \in [Kinds -> Seq(Nat)]
        /\ lock \in [Kinds -> Seq(Callers)] /\ opened \in [Kinds -> Nat]
    BY DEF ForwardedInit
  <2>3. /\ cpc \in [Callers -> {"idle", "locking", "receiving"}]
        /\ want \in [Callers -> Kinds]
        /\ stop \in [Callers -> BOOLEAN] /\ ended \in [Callers -> BOOLEAN]
    BY DEF ForwardedInit, Kinds
  <2> QED BY <2>1, <2>2, <2>3 DEF ForwardedInit, ForwardedTypeOK
<1>2. ASSUME NEW k \in Kinds
      PROVE  Waits(lock[k], Waiting(k)) /\ Len(queue[k]) <= Capacity
  <2>1. lock[k] = <<>> /\ queue[k] = <<>> /\ Waiting(k) = {}
    BY DEF ForwardedInit, Waiting
  <2>2. Len(queue[k]) = 0
    BY <2>1
  <2> QED BY <2>1, <2>2, ForwardedAssumption DEF Waits
<1>3. Holding /\ Alone /\ LoopGone /\ EndIsEnd
  BY DEF ForwardedInit, Holding, Alone, LoopGone, EndIsEnd
<1> QED BY <1>1, <1>2, <1>3 DEF Forwarding, Mutexes

\* No step of the server, the loop, a caller or the owner breaks it.
LEMMA NextForwarding == Forwarding /\ [ForwardedNext]_forwardedVars => Forwarding'
<1> SUFFICES ASSUME Forwarding, [ForwardedNext]_forwardedVars PROVE Forwarding'
  OBVIOUS
<1>1. CASE UNCHANGED forwardedVars
  <2>1. /\ UNCHANGED <<queue, callVars>> /\ running' = running /\ hand' = hand
        /\ wire' = wire /\ outbox' = outbox /\ asked' = asked /\ broken' = broken
        /\ request' = request /\ requests' = requests /\ opened' = opened
        /\ delivered' = delivered
    BY <1>1 DEF forwardedVars, loopVars, askVars
  <2>2. ForwardedTypeOK /\ LoopGone
    BY DEF Forwarding
  <2>3. ForwardedTypeOK'
    BY <2>1, <2>2 DEF ForwardedTypeOK, callVars
  <2> QED BY <2>1, <2>2, <2>3, QuietInv DEF LoopGone
<1> QED BY <1>1, ServerKeeps, LoopKeeps, OwnerKeeps, SendKeeps, CallKeeps, WaitKeeps,
           CallStepKeeps
        DEF ForwardedNext

\* For any callers, capacity, channels and requests ForwardedInv holds
\* throughout: the receiver behind each mutex has one user at a time however
\* callers come and give up, and no queue exceeds its capacity.
THEOREM ForwardedInvariant == ForwardedSafetySpec => []ForwardedInv
<1>1. ForwardedInit => Forwarding
  BY InitForwarding
<1>2. Forwarding /\ [ForwardedNext]_forwardedVars => Forwarding'
  BY NextForwarding
<1> QED BY <1>1, <1>2, ForwardingIs, PTL DEF ForwardedSafetySpec

\* Ok(None) of next_forwarded_*() means that the loop is gone and the queue
\* drained, for every caller that was told so and for good.
THEOREM ForwardsEnd == ForwardedSafetySpec => []EndIsEnd
<1>1. ForwardedInv => EndIsEnd
  BY DEF ForwardedInv
<1> QED BY <1>1, ForwardedInvariant, PTL

-----------------------------------------------------------------------------
(* The channels that are still to come.                                    *)

Of(w, k) == {i \in DOMAIN w : w[i].kind = k}

\* Of the n channels of kind k, those after the first d are in w, in order.
Rest(w, k, d, n) ==
    /\ \A m \in d + 1..n : \E i \in Of(w, k) : w[i].id = m
    /\ \A i \in Of(w, k) : w[i].id \in d + 1..n
    /\ \A i, j \in Of(w, k) : i < j => w[i].id < w[j].id

\* The server opens one more.
LEMMA RestOpened ==
  ASSUME NEW k, NEW w \in Seq(Packets), NEW d \in Nat, NEW n \in Nat, d <= n,
         Rest(w, k, d, n), NEW p \in Packets, p.kind = k, p.id = n + 1
  PROVE  Rest(Append(w, p), k, d, n + 1)
<1>1. PICK l \in Nat : l = Len(w)
  OBVIOUS
<1>2. PICK v : v = Append(w, p)
  OBVIOUS
<1>3. DOMAIN w = 1..l
  BY <1>1
<1>4. DOMAIN v = 1..l + 1 /\ v[l + 1] = p /\ \A i \in 1..l : v[i] = w[i]
  BY <1>1, <1>2
<1>5. Of(v, k) = Of(w, k) \cup {l + 1}
  BY <1>3, <1>4 DEF Of
<1>6. \A i \in Of(w, k) : i \in 1..l /\ v[i] = w[i] /\ w[i].id \in d + 1..n
  BY <1>3, <1>4 DEF Of, Rest
<1>7. ASSUME NEW m \in d + 1..n + 1 PROVE \E i \in Of(v, k) : v[i].id = m
  <2>1. m \in d + 1..n \/ m = n + 1
    OBVIOUS
  <2>2. CASE m \in d + 1..n
    <3>1. PICK i \in Of(w, k) : w[i].id = m
      BY <2>2 DEF Rest
    <3> QED BY <1>5, <1>6, <3>1
  <2> QED BY <1>4, <1>5, <2>1, <2>2
<1>8. ASSUME NEW i \in Of(v, k) PROVE v[i].id \in d + 1..n + 1
  <2>1. CASE i = l + 1
    BY <1>4, <2>1
  <2>2. CASE i # l + 1
    <3>1. v[i].id \in d + 1..n
      BY <1>5, <1>6, <2>2
    <3> QED BY <3>1
  <2> QED BY <2>1, <2>2
<1>9. ASSUME NEW i \in Of(v, k), NEW j \in Of(v, k), i < j PROVE v[i].id < v[j].id
  <2>1. i \in Of(w, k)
    BY <1>5, <1>6, <1>9
  <2>2. CASE j = l + 1
    <3>1. v[i].id \in d + 1..n /\ v[j].id = n + 1
      BY <1>4, <1>6, <2>1, <2>2
    <3> QED BY <3>1
  <2>3. CASE j # l + 1
    <3>1. j \in Of(w, k)
      BY <1>5, <2>3
    <3>2. w[i].id < w[j].id
      BY <1>9, <2>1, <3>1 DEF Rest
    <3> QED BY <1>6, <2>1, <3>1, <3>2
  <2> QED BY <2>2, <2>3
<1> QED BY <1>2, <1>7, <1>8, <1>9 DEF Rest

\* A packet of another kind is added.
LEMMA RestOtherAdded ==
  ASSUME NEW k, NEW w \in Seq(Packets), NEW d, NEW n, Rest(w, k, d, n),
         NEW p \in Packets, p.kind # k
  PROVE  Rest(Append(w, p), k, d, n)
<1>1. PICK v : v = Append(w, p)
  OBVIOUS
<1>2. Of(v, k) = Of(w, k) /\ \A i \in Of(w, k) : v[i] = w[i]
  BY <1>1 DEF Of
<1>3. Rest(v, k, d, n)
  BY <1>2 DEF Rest
<1> QED BY <1>1, <1>3

\* The first packet is taken and was of another kind.
LEMMA RestOtherTaken ==
  ASSUME NEW k, NEW w \in Seq(Packets), w # <<>>, Head(w).kind # k,
         NEW d, NEW n, Rest(w, k, d, n)
  PROVE  Rest(Tail(w), k, d, n)
<1>1. PICK l \in Nat : l = Len(w)
  OBVIOUS
<1>2. PICK v : v = Tail(w)
  OBVIOUS
<1>3. l >= 1 /\ DOMAIN w = 1..l /\ Head(w) = w[1]
  BY <1>1
<1>4. DOMAIN v = 1..l - 1 /\ \A i \in 1..l - 1 : v[i] = w[i + 1]
  BY <1>1, <1>2, <1>3
<1>5. \A i \in Of(v, k) : i \in Nat /\ i + 1 \in Of(w, k) /\ v[i] = w[i + 1]
  BY <1>3, <1>4 DEF Of
<1>6. \A j \in Of(w, k) : j - 1 \in Of(v, k) /\ (j - 1) + 1 = j
  <2>1. ASSUME NEW j \in Of(w, k) PROVE j - 1 \in 1..l - 1 /\ (j - 1) + 1 = j
    BY <1>3 DEF Of
  <2> QED BY <1>4, <2>1 DEF Of
<1>7. ASSUME NEW m \in d + 1..n PROVE \E i \in Of(v, k) : v[i].id = m
  <2>1. PICK j \in Of(w, k) : w[j].id = m
    BY DEF Rest
  <2> QED BY <1>5, <1>6, <2>1
<1>8. \A i \in Of(v, k) : v[i].id \in d + 1..n
  BY <1>5 DEF Rest
<1>9. ASSUME NEW i \in Of(v, k), NEW j \in Of(v, k), i < j PROVE v[i].id < v[j].id
  <2>1. i + 1 < j + 1
    BY <1>5, <1>9
  <2> QED BY <1>5, <2>1 DEF Rest
<1> QED BY <1>2, <1>7, <1>8, <1>9 DEF Rest

\* The first packet is taken and is the next channel of its kind.
LEMMA RestTaken ==
  ASSUME NEW k, NEW w \in Seq(Packets), w # <<>>, Head(w).kind = k,
         NEW d \in Nat, NEW n \in Nat, Rest(w, k, d, n)
  PROVE  /\ Head(w).id = d + 1 /\ d + 1 <= n
         /\ Rest(Tail(w), k, d + 1, n)
<1>1. PICK l \in Nat : l = Len(w)
  OBVIOUS
<1>2. PICK v : v = Tail(w)
  OBVIOUS
<1>3. l >= 1 /\ DOMAIN w = 1..l /\ Head(w) = w[1]
  BY <1>1
<1>4. DOMAIN v = 1..l - 1 /\ \A i \in 1..l - 1 : v[i] = w[i + 1]
  BY <1>1, <1>2, <1>3
<1>5. \A i \in Of(v, k) : i \in Nat /\ i + 1 \in Of(w, k) /\ v[i] = w[i + 1] /\ 1 < i + 1
  BY <1>3, <1>4 DEF Of
<1>6. \A j \in Of(w, k) : j # 1 => j - 1 \in Of(v, k) /\ (j - 1) + 1 = j /\ 1 < j
  <2>1. ASSUME NEW j \in Of(w, k), j # 1
        PROVE  j - 1 \in 1..l - 1 /\ (j - 1) + 1 = j /\ 1 < j
    BY <1>3, <2>1 DEF Of
  <2> QED BY <1>4, <2>1 DEF Of
<1>7. 1 \in Of(w, k)
  BY <1>3 DEF Of
<1>8. /\ w[1].id \in d + 1..n
      /\ \A j \in Of(w, k) : 1 < j => w[1].id < w[j].id
  BY <1>7 DEF Rest
<1>9. w[1].id = d + 1 /\ d + 1 <= n
  <2>1. d + 1 \in d + 1..n
    BY <1>8
  <2>2. PICK j \in Of(w, k) : w[j].id = d + 1
    BY <2>1 DEF Rest
  <2> QED BY <1>6, <1>8, <2>1, <2>2
<1>10. ASSUME NEW m \in (d + 1) + 1..n PROVE \E i \in Of(v, k) : v[i].id = m
  <2>1. m \in d + 1..n /\ m # d + 1
    OBVIOUS
  <2>2. PICK j \in Of(w, k) : w[j].id = m
    BY <2>1 DEF Rest
  <2>3. j # 1
    BY <1>9, <2>1, <2>2
  <2> QED BY <1>5, <1>6, <2>2, <2>3
<1>11. ASSUME NEW i \in Of(v, k) PROVE v[i].id \in (d + 1) + 1..n
  <2>1. v[i].id \in d + 1..n /\ d + 1 < v[i].id
    BY <1>5, <1>8, <1>9 DEF Rest
  <2> QED BY <2>1
<1>12. ASSUME NEW i \in Of(v, k), NEW j \in Of(v, k), i < j PROVE v[i].id < v[j].id
  <2>1. i + 1 < j + 1
    BY <1>5, <1>12
  <2> QED BY <1>5, <2>1 DEF Rest
<1>13. Rest(v, k, d + 1, n)
  BY <1>10, <1>11, <1>12 DEF Rest
<1> QED BY <1>2, <1>3, <1>9, <1>13

\* The channels a that were handed out and those in the queue b are the
\* first of n.
Firsts(a, b, n) ==
    /\ Len(a) + Len(b) <= n
    /\ \A i \in 1..Len(a) : a[i] = i
    /\ \A i \in 1..Len(b) : b[i] = Len(a) + i

\* That is what the prefix in NoneLost says.
LEMMA FirstsIsPrefix ==
  ASSUME NEW a \in Seq(Nat), NEW b \in Seq(Nat), NEW n \in Nat
  PROVE  IsPrefix(a \o b, Numbers(n)) <=> Firsts(a, b, n)
<1>1. PICK x, y \in Nat : x = Len(a) /\ y = Len(b)
  OBVIOUS
<1>2. PICK e, g : e = a \o b /\ g = Numbers(n)
  OBVIOUS
<1>3. e \in Seq(Nat) /\ Len(e) = x + y
  BY <1>1, <1>2
<1>4. \A i \in 1..x : e[i] = a[i]
  BY <1>1, <1>2
<1>5. ASSUME NEW i \in 1..y PROVE e[x + i] = b[i]
  <2>1. x + i \in 1..x + y /\ ~(x + i <= x) /\ (x + i) - x = i
    OBVIOUS
  <2> QED BY <1>1, <1>2, <2>1
<1>6. g = [i \in 1..n |-> i]
  BY <1>2 DEF Numbers
<1>7. g \in [1..n -> Nat]
  BY <1>6
<1>8. g \in Seq(Nat) /\ Len(g) = n
  BY <1>7
<1>9. IsPrefix(e, g) <=> x + y <= n /\ \A i \in 1..x + y : e[i] = g[i]
  BY <1>3, <1>8 DEF IsPrefix
<1>10. ASSUME x + y <= n
       PROVE  (\A i \in 1..x + y : e[i] = g[i]) <=>
                (\A i \in 1..x : a[i] = i) /\ (\A i \in 1..y : b[i] = x + i)
  <2>1. \A i \in 1..x + y : i \in 1..n /\ g[i] = i
    BY <1>6, <1>10
  <2>2. \A i \in 1..x : i \in 1..x + y
    OBVIOUS
  <2>3. \A i \in 1..y : x + i \in 1..x + y
    OBVIOUS
  <2>4. \A i \in 1..x + y : i \notin 1..x => \E j \in 1..y : i = x + j
    <3>1. ASSUME NEW i \in 1..x + y, i \notin 1..x PROVE i - x \in 1..y /\ i = x + (i - x)
      BY <3>1
    <3> QED BY <3>1
  <2>5. ASSUME \A i \in 1..x + y : e[i] = g[i]
        PROVE  (\A i \in 1..x : a[i] = i) /\ (\A i \in 1..y : b[i] = x + i)
    BY <1>4, <1>5, <2>1, <2>2, <2>3, <2>5
  <2>6. ASSUME \A i \in 1..x : a[i] = i, \A i \in 1..y : b[i] = x + i,
               NEW i \in 1..x + y
        PROVE  e[i] = g[i]
    <3>1. CASE i \in 1..x
      BY <1>4, <2>1, <2>6, <3>1
    <3>2. CASE i \notin 1..x
      <4>1. PICK j \in 1..y : i = x + j
        BY <2>4, <3>2
      <4> QED BY <1>5, <2>1, <2>6, <4>1
    <3> QED BY <3>1, <3>2
  <2> QED BY <2>5, <2>6
<1> QED BY <1>1, <1>2, <1>9, <1>10 DEF Firsts

\* The next one is put into the queue.
LEMMA FirstsQueued ==
  ASSUME NEW a \in Seq(Nat), NEW b \in Seq(Nat), NEW n \in Nat, Firsts(a, b, n),
         NEW m \in Nat, m = Len(a) + Len(b) + 1, m <= n
  PROVE  Firsts(a, Append(b, m), n) /\ Len(Append(b, m)) = Len(b) + 1
<1>1. PICK x, y \in Nat : x = Len(a) /\ y = Len(b)
  OBVIOUS
<1>2. PICK c : c = Append(b, m)
  OBVIOUS
<1>3. Len(c) = y + 1 /\ c[y + 1] = m /\ \A i \in 1..y : c[i] = b[i]
  BY <1>1, <1>2
<1>4. /\ m = x + y + 1 /\ \A i \in 1..x : a[i] = i
      /\ \A i \in 1..y : b[i] = x + i
  BY <1>1 DEF Firsts
<1>5. x + (y + 1) = m /\ x + (y + 1) <= n
  <2>1. x + (y + 1) = x + y + 1
    OBVIOUS
  <2> QED BY <1>4, <2>1
<1>6. ASSUME NEW i \in 1..y + 1 PROVE c[i] = x + i
  <2>1. i \in 1..y \/ i = y + 1
    OBVIOUS
  <2> QED BY <1>3, <1>4, <1>5, <2>1
<1>7. Firsts(a, c, n)
  BY <1>1, <1>3, <1>4, <1>5, <1>6 DEF Firsts
<1> QED BY <1>1, <1>2, <1>3, <1>7

\* The first of the queue is handed out.
LEMMA FirstsFetched ==
  ASSUME NEW a \in Seq(Nat), NEW b \in Seq(Nat), NEW n \in Nat, Firsts(a, b, n),
         b # <<>>
  PROVE  /\ Firsts(Append(a, Head(b)), Tail(b), n)
         /\ Len(Append(a, Head(b))) + Len(Tail(b)) = Len(a) + Len(b)
<1>1. PICK x, y \in Nat : x = Len(a) /\ y = Len(b)
  OBVIOUS
<1>2. PICK m : m = Head(b)
  OBVIOUS
<1>3. y >= 1 /\ m = b[1] /\ m \in Nat
  BY <1>1, <1>2
<1>4. PICK f, t : f = Append(a, m) /\ t = Tail(b)
  OBVIOUS
<1>5. Len(f) = x + 1 /\ f[x + 1] = m /\ \A i \in 1..x : f[i] = a[i]
  BY <1>1, <1>3, <1>4
<1>6. Len(t) = y - 1 /\ \A i \in 1..y - 1 : t[i] = b[i + 1]
  BY <1>1, <1>3, <1>4
<1>7. /\ x + y <= n /\ \A i \in 1..x : a[i] = i
      /\ \A i \in 1..y : b[i] = x + i
  BY <1>1 DEF Firsts
<1>8. (x + 1) + (y - 1) = x + y
  OBVIOUS
<1>9. ASSUME NEW i \in 1..x + 1 PROVE f[i] = i
  <2>1. i \in 1..x \/ i = x + 1
    OBVIOUS
  <2>2. 1 \in 1..y
    BY <1>3
  <2> QED BY <1>3, <1>5, <1>7, <2>1, <2>2
<1>10. ASSUME NEW i \in 1..y - 1 PROVE t[i] = (x + 1) + i
  <2>1. i + 1 \in 1..y /\ x + (i + 1) = (x + 1) + i
    OBVIOUS
  <2> QED BY <1>6, <1>7, <2>1
<1>11. Firsts(f, t, n)
  BY <1>5, <1>6, <1>7, <1>8, <1>9, <1>10 DEF Firsts
<1> QED BY <1>1, <1>2, <1>4, <1>5, <1>6, <1>8, <1>11

-----------------------------------------------------------------------------
(* NoneLost, kind by kind.                                                 *)

Accounted(k) ==
    /\ Firsts(delivered[k], queue[k], opened[k])
    /\ Rest(Coming, k, Queued(k), opened[k])

AllAccounted == \A k \in Kinds : Accounted(k)

\* NoneLost says that of each kind.
LEMMA NoneLostIs == ForwardedTypeOK => (NoneLost <=> AllAccounted)
<1> SUFFICES ASSUME ForwardedTypeOK PROVE NoneLost <=> AllAccounted
  OBVIOUS
<1>1. ASSUME NEW k \in Kinds
      PROVE  IsPrefix(delivered[k] \o queue[k], Numbers(opened[k])) <=>
               Firsts(delivered[k], queue[k], opened[k])
  <2>1. delivered[k] \in Seq(Nat) /\ queue[k] \in Seq(Nat) /\ opened[k] \in Nat
    BY DEF ForwardedTypeOK
  <2> QED BY <2>1, FirstsIsPrefix
<1>2. ASSUME NEW k \in Kinds
      PROVE  Travelling(k) <=> Rest(Coming, k, Queued(k), opened[k])
  BY DEF Travelling, For, Rest, Of
<1> QED BY <1>1, <1>2 DEF NoneLost, Accounted, AllAccounted

\* What the types say of the channels of one kind.
LEMMA Counted ==
  ASSUME ForwardedTypeOK, NEW k \in Kinds
  PROVE  /\ delivered[k] \in Seq(Nat) /\ queue[k] \in Seq(Nat) /\ opened[k] \in Nat
         /\ Queued(k) \in Nat
<1>1. delivered[k] \in Seq(Nat) /\ queue[k] \in Seq(Nat) /\ opened[k] \in Nat
  BY DEF ForwardedTypeOK
<1>2. PICK x, y \in Nat : x = Len(delivered[k]) /\ y = Len(queue[k])
  BY <1>1
<1>3. x + y \in Nat
  OBVIOUS
<1> QED BY <1>1, <1>2, <1>3 DEF Queued

\* What is to come are packets of the server.
LEMMA HandIsPackets ==
  ASSUME ForwardedTypeOK
  PROVE  /\ wire \in Seq(Packets) /\ hand \in Seq(Packets)
         /\ Coming \in Seq(Packets)
<1>1. wire \in Seq(Packets) /\ hand \in Seq([kind : Kinds, id : Nat])
  BY DEF ForwardedTypeOK
<1>2. [kind : Kinds, id : Nat] \subseteq Packets
  BY DEF Packets
<1>3. PICK S : S = [kind : Kinds, id : Nat]
  OBVIOUS
<1>4. hand \in Seq(S) /\ S \subseteq Packets
  BY <1>1, <1>2, <1>3
<1>5. hand \in Seq(Packets)
  BY <1>4
<1>6. hand \o wire \in Seq(Packets)
  BY <1>1, <1>5
<1> QED BY <1>1, <1>5, <1>6 DEF Coming

\* A packet added to the wire comes last.
LEMMA ComingAdded ==
  ASSUME ForwardedTypeOK, NEW p \in Packets, wire' = Append(wire, p), hand' = hand
  PROVE  Coming' = Append(Coming, p)
<1>1. wire \in Seq(Packets) /\ hand \in Seq(Packets)
  BY HandIsPackets
<1>2. hand \o Append(wire, p) = Append(hand \o wire, p)
  BY <1>1
<1> QED BY <1>2 DEF Coming

\* A handler sends one channel.
LEMMA Single ==
  ASSUME NEW S, NEW s \in Seq(S), s # <<>>, Len(s) <= 1
  PROVE  Head(s) \in S /\ s = <<Head(s)>>
<1>1. Len(s) \in Nat /\ Len(s) # 0
  OBVIOUS
<1>2. Len(s) = 1
  BY <1>1
<1>3. Head(s) = s[1] /\ s[1] \in S
  BY <1>2
<1> QED BY <1>2, <1>3

\* A step that neither opens, queues nor hands out a channel.
LEMMA SameAccounted ==
  ASSUME ForwardedTypeOK, AllAccounted, UNCHANGED <<delivered, queue, opened>>,
         \A k \in Kinds : Rest(Coming', k, Queued(k), opened[k])
  PROVE  AllAccounted'
<1>1. \A k \in Kinds : Queued(k)' = Queued(k)
  BY DEF Queued
<1> QED BY <1>1 DEF AllAccounted, Accounted

\* A channel moves from the wire to the hand, from there to the end of its
\* queue and from its front to a caller; nothing else touches it.
LEMMA NextAccounted ==
  ASSUME Forwarding, AllAccounted, [ForwardedNext]_forwardedVars
  PROVE  AllAccounted'
<1>0. ForwardedTypeOK
  BY DEF Forwarding
<1>1. \A k \in Kinds : /\ Firsts(delivered[k], queue[k], opened[k])
                         /\ Rest(Coming, k, Queued(k), opened[k])
  BY DEF AllAccounted, Accounted
<1>2. wire \in Seq(Packets) /\ hand \in Seq(Packets) /\ Coming \in Seq(Packets)
  BY <1>0, HandIsPackets
<1>3. ASSUME UNCHANGED <<delivered, queue, opened, wire, hand>> PROVE AllAccounted'
  <2>1. Coming' = Coming
    BY <1>3 DEF Coming
  <2> QED BY <1>0, <1>1, <1>3, <2>1, SameAccounted
<1>4. ASSUME NEW k \in Kinds, ServerOpens(k) PROVE AllAccounted'
  <2>1. PICK p : p = [kind |-> k, id |-> opened[k] + 1]
    OBVIOUS
  <2>2. /\ opened' = [opened EXCEPT ![k] = @ + 1] /\ wire' = Append(wire, p)
        /\ hand' = hand /\ queue' = queue /\ delivered' = delivered
    BY <1>4, <2>1 DEF ServerOpens
  <2>3. opened[k] \in Nat
    BY <1>0, Counted
  <2>4. p \in Packets /\ p.kind = k /\ p.id = opened[k] + 1
    BY <2>1, <2>3 DEF Packets
  <2>5. Coming' = Append(Coming, p)
    BY <1>0, <2>2, <2>4, ComingAdded
  <2>6. /\ opened'[k] = opened[k] + 1
        /\ \A j \in Kinds : j # k => opened'[j] = opened[j]
    BY <1>0, <2>2 DEF ForwardedTypeOK
  <2>7. ASSUME NEW j \in Kinds PROVE Accounted(j)'
    <3>0. Queued(j)' = Queued(j)
      BY <2>2 DEF Queued
    <3>1. CASE j # k
      <4>1. Rest(Append(Coming, p), j, Queued(j), opened[j])
        BY <1>1, <1>2, <2>4, <3>1, RestOtherAdded
      <4> QED BY <1>1, <2>2, <2>5, <2>6, <3>0, <3>1, <4>1 DEF Accounted
    <3>2. CASE j = k
      <4>1. PICK d, n \in Nat : d = Queued(k) /\ n = opened[k]
        BY <1>0, Counted
      <4>2. d <= n
        BY <1>1, <4>1 DEF Firsts, Queued
      <4>3. Rest(Coming, k, d, n)
        BY <1>1, <4>1
      <4>4. Rest(Append(Coming, p), k, d, n + 1)
        BY <1>2, <2>4, <4>1, <4>2, <4>3, RestOpened
      <4>5. Firsts(delivered[k], queue[k], n + 1)
        <5>1. d = Len(delivered[k]) + Len(queue[k])
          BY <4>1 DEF Queued
        <5>2. d <= n + 1
          BY <4>2
        <5> QED BY <1>1, <5>1, <5>2 DEF Firsts
      <4> QED BY <2>2, <2>5, <2>6, <3>0, <3>2, <4>1, <4>4, <4>5 DEF Accounted
    <3> QED BY <3>1, <3>2
  <2> QED BY <2>7 DEF AllAccounted
<1>5. CASE ServerReplies
  <2>1. PICK p : p = [kind |-> "reply", id |-> Head(asked)]
    OBVIOUS
  <2>2. /\ asked # <<>> /\ wire' = Append(wire, p)
        /\ UNCHANGED <<hand, queue, delivered, opened>>
    BY <1>5, <2>1 DEF ServerReplies
  <2>3. Head(asked) \in Nat
    BY <1>0, <2>2 DEF ForwardedTypeOK
  <2>4. p \in Packets /\ p.kind = "reply"
    BY <2>1, <2>3 DEF Packets
  <2>5. Coming' = Append(Coming, p)
    BY <1>0, <2>2, <2>4, ComingAdded
  <2>6. \A k \in Kinds : p.kind # k
    BY <2>4 DEF Kinds
  <2>7. ASSUME NEW k \in Kinds
        PROVE  Rest(Append(Coming, p), k, Queued(k), opened[k])
    BY <1>1, <1>2, <2>4, <2>6, RestOtherAdded
  <2> QED BY <1>0, <2>2, <2>5, <2>7, SameAccounted
<1>6. CASE LoopReads
  <2>1. /\ hand = <<>> /\ wire # <<>> /\ wire' = Tail(wire)
        /\ UNCHANGED <<queue, delivered, opened>>
    BY <1>6 DEF LoopReads, Free
  <2>2. Coming = wire
    BY <1>2, <2>1 DEF Coming
  <2>3. CASE Head(wire).kind = "reply"
    <3>1. hand' = <<>>
      BY <1>6, <2>1, <2>3 DEF LoopReads
    <3>2. Tail(wire) \in Seq(Packets)
      BY <1>2, <2>1
    <3>3. Coming' = Tail(wire)
      BY <2>1, <3>1, <3>2 DEF Coming
    <3>4. \A k \in Kinds : Head(wire).kind # k
      BY <2>3 DEF Kinds
    <3>5. ASSUME NEW k \in Kinds PROVE Rest(Tail(wire), k, Queued(k), opened[k])
      BY <1>1, <1>2, <2>1, <2>2, <3>4, RestOtherTaken
    <3> QED BY <1>0, <2>1, <3>3, <3>5, SameAccounted
  <2>4. CASE Head(wire).kind # "reply"
    <3>1. hand' = <<Head(wire)>>
      BY <1>6, <2>4 DEF LoopReads
    <3>2. <<Head(wire)>> \o Tail(wire) = wire
      BY <1>2, <2>1
    <3>3. Coming' = Coming
      BY <2>1, <2>2, <3>1, <3>2 DEF Coming
    <3> QED BY <1>0, <1>1, <2>1, <3>3, SameAccounted
  <2> QED BY <2>3, <2>4
<1>7. CASE Send
  <2>1. PICK k, m : k = Head(hand).kind /\ m = Head(hand).id
    OBVIOUS
  <2>2. /\ hand # <<>> /\ queue' = [queue EXCEPT ![k] = Append(@, m)] /\ hand' = <<>>
        /\ wire' = wire /\ delivered' = delivered /\ opened' = opened
    BY <1>7, <2>1 DEF Send
  <2>3. hand = <<Head(hand)>> /\ k \in Kinds /\ m \in Nat
    <3>1. PICK S : S = [kind : Kinds, id : Nat]
      OBVIOUS
    <3>2. hand \in Seq(S) /\ Len(hand) <= 1
      BY <1>0, <3>1 DEF ForwardedTypeOK
    <3>3. Head(hand) \in S /\ hand = <<Head(hand)>>
      BY <2>2, <3>2, Single
    <3> QED BY <2>1, <3>1, <3>3
  <2>4. Coming # <<>> /\ Head(Coming) = Head(hand) /\ Tail(Coming) = wire
    <3>1. PICK h : h = Head(hand)
      OBVIOUS
    <3>2. hand = <<h>> /\ h \in Packets
      BY <1>2, <2>2, <2>3, <3>1
    <3>3. <<h>> \o wire # <<>> /\ Head(<<h>> \o wire) = h /\ Tail(<<h>> \o wire) = wire
      BY <1>2, <3>2
    <3> QED BY <3>1, <3>2, <3>3 DEF Coming
  <2>5. Coming' = wire
    BY <1>2, <2>2 DEF Coming
  <2>6. queue'[k] = Append(queue[k], m) /\ \A j \in Kinds : j # k => queue'[j] = queue[j]
    BY <1>0, <2>2, <2>3 DEF ForwardedTypeOK
  <2>7. ASSUME NEW j \in Kinds PROVE Accounted(j)'
    <3>1. CASE j # k
      <4>1. Rest(wire, j, Queued(j), opened[j])
        BY <1>1, <1>2, <2>1, <2>4, <3>1, RestOtherTaken
      <4>2. Queued(j)' = Queued(j)
        BY <2>2, <2>6, <3>1 DEF Queued
      <4> QED BY <1>1, <2>2, <2>5, <2>6, <3>1, <4>1, <4>2 DEF Accounted
    <3>2. CASE j = k
      <4>1. PICK d, n \in Nat : d = Queued(k) /\ n = opened[k]
        BY <1>0, <2>3, Counted
      <4>2. Rest(Coming, k, d, n)
        BY <1>1, <2>3, <4>1
      <4>3. m = d + 1 /\ d + 1 <= n /\ Rest(wire, k, d + 1, n)
        BY <1>2, <2>1, <2>4, <4>1, <4>2, RestTaken
      <4>4. /\ Firsts(delivered[k], Append(queue[k], m), n)
            /\ Len(Append(queue[k], m)) = Len(queue[k]) + 1
        <5>1. /\ delivered[k] \in Seq(Nat) /\ queue[k] \in Seq(Nat)
              /\ Firsts(delivered[k], queue[k], n)
          BY <1>0, <1>1, <2>3, <4>1, Counted
        <5>2. m = Len(delivered[k]) + Len(queue[k]) + 1 /\ m <= n
          BY <4>1, <4>3 DEF Queued
        <5> QED BY <2>3, <5>1, <5>2, FirstsQueued
      <4>5. Queued(k)' = d + 1
        <5>1. PICK x, y \in Nat : x = Len(delivered[k]) /\ y = Len(queue[k])
          BY <1>0, <2>3, Counted
        <5>2. x + (y + 1) = (x + y) + 1
          OBVIOUS
        <5>3. Queued(k)' = x + (y + 1) /\ d = x + y
          BY <2>2, <2>6, <4>1, <4>4, <5>1 DEF Queued
        <5> QED BY <5>2, <5>3
      <4> QED BY <2>2, <2>5, <2>6, <3>2, <4>1, <4>3, <4>4, <4>5 DEF Accounted
    <3> QED BY <3>1, <3>2
  <2> QED BY <2>7 DEF AllAccounted
<1>8. ASSUME NEW p \in Callers, Receive(p) PROVE AllAccounted'
  <2>1. PICK k : k = want[p]
    OBVIOUS
  <2>2. /\ k \in Kinds /\ queue[k] # <<>>
        /\ queue' = [queue EXCEPT ![k] = Tail(@)]
        /\ delivered' = [delivered EXCEPT ![k] = Append(@, Head(queue[k]))]
    BY <1>0, <1>8, <2>1, Fetched
  <2>3. wire' = wire /\ hand' = hand /\ opened' = opened /\ Coming' = Coming
    BY <1>8 DEF Receive, Return, loopVars, Coming
  <2>4. /\ queue'[k] = Tail(queue[k]) /\ delivered'[k] = Append(delivered[k], Head(queue[k]))
        /\ \A j \in Kinds : j # k => queue'[j] = queue[j] /\ delivered'[j] = delivered[j]
    BY <1>0, <2>2 DEF ForwardedTypeOK
  <2>5. ASSUME NEW j \in Kinds PROVE Accounted(j)'
    <3>1. CASE j # k
      <4>1. Queued(j)' = Queued(j)
        BY <2>4, <3>1 DEF Queued
      <4> QED BY <1>1, <2>3, <2>4, <3>1, <4>1 DEF Accounted
    <3>2. CASE j = k
      <4>1. /\ Firsts(Append(delivered[k], Head(queue[k])), Tail(queue[k]), opened[k])
            /\ Len(Append(delivered[k], Head(queue[k]))) + Len(Tail(queue[k]))
                 = Len(delivered[k]) + Len(queue[k])
        <5>1. /\ delivered[k] \in Seq(Nat) /\ queue[k] \in Seq(Nat) /\ opened[k] \in Nat
              /\ Firsts(delivered[k], queue[k], opened[k])
          BY <1>0, <1>1, <2>2, Counted
        <5> QED BY <2>2, <5>1, FirstsFetched
      <4>2. Queued(k)' = Queued(k)
        BY <2>4, <4>1 DEF Queued
      <4> QED BY <1>1, <2>3, <2>4, <3>2, <4>1, <4>2 DEF Accounted
    <3> QED BY <3>1, <3>2
  <2> QED BY <2>5 DEF AllAccounted
<1>9. CASE TransportFails \/ LoopEnds \/ LoopWrites
  BY <1>3, <1>9 DEF TransportFails, LoopEnds, LoopWrites
<1>10. CASE OwnerRequest \/ RequestTimeout \/ Disconnect
  BY <1>3, <1>10 DEF OwnerRequest, RequestTimeout, Disconnect, loopVars
<1>11. ASSUME NEW p \in Callers,
              \/ \E k \in Kinds : Call(p, k)
              \/ Stop(p) \/ Locked(p) \/ ReceiveEnd(p) \/ GiveUp(p)
       PROVE  AllAccounted'
  <2>1. UNCHANGED <<delivered, queue, opened, wire, hand>>
    BY <1>11 DEF Call, Stop, Locked, ReceiveEnd, GiveUp, Return, loopVars
  <2> QED BY <1>3, <2>1
<1>12. CASE UNCHANGED forwardedVars
  BY <1>3, <1>12 DEF forwardedVars, loopVars
<1> QED BY <1>4, <1>5, <1>6, <1>7, <1>8, <1>9, <1>10, <1>11, <1>12
        DEF ForwardedNext, Server, LoopStep, CallStep

\* Before the server has opened a channel.
LEMMA InitAccounted == ForwardedInit => AllAccounted
<1> SUFFICES ASSUME ForwardedInit, NEW k \in Kinds PROVE Accounted(k)
  BY DEF AllAccounted
<1>1. /\ delivered[k] = <<>> /\ queue[k] = <<>> /\ opened[k] = 0
      /\ hand = <<>> /\ wire = <<>>
  BY DEF ForwardedInit
<1>2. Len(delivered[k]) = 0 /\ Len(queue[k]) = 0
  BY <1>1
<1>3. Firsts(delivered[k], queue[k], opened[k])
  BY <1>1, <1>2 DEF Firsts
<1>4. Coming = <<>>
  BY <1>1 DEF Coming
<1>5. Of(Coming, k) = {}
  BY <1>4 DEF Of
<1>6. Queued(k) + 1..opened[k] = {}
  BY <1>1, <1>2 DEF Queued
<1>7. Rest(Coming, k, Queued(k), opened[k])
  BY <1>5, <1>6 DEF Rest
<1> QED BY <1>3, <1>7 DEF Accounted

\* Channels of each kind are handed out once each, in the order the server
\* opened them, and those not handed out are in their queue, in the handler's
\* hand or on the wire: no caller that gives up takes one along.
THEOREM ForwardsNoneLost == ForwardedSafetySpec => []NoneLost
<1>1. ForwardedInit => Forwarding /\ AllAccounted
  BY InitForwarding, InitAccounted
<1>2. Forwarding /\ AllAccounted /\ [ForwardedNext]_forwardedVars
        => (Forwarding /\ AllAccounted)'
  BY NextForwarding, NextAccounted
<1>3. Forwarding /\ AllAccounted => NoneLost
  BY NoneLostIs DEF Forwarding
<1> QED BY <1>1, <1>2, <1>3, PTL DEF ForwardedSafetySpec
=============================================================================
