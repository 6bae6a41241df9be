------------------------ MODULE ChannelEventsProofs ------------------------
(***************************************************************************)
(* The safety of channel events for any channels, messages, requests and   *)
(* inbox size: EventsInv is inductive, so every message of the server is   *)
(* reported once and in order, whatever calls of next_event() give up, and *)
(* a normal end is the end.                                                *)
(***************************************************************************)
EXTENDS ChannelEvents, TLAPS

-----------------------------------------------------------------------------
(* The wire, of which each channel has a part.                             *)

Parcel == [to : Channels, what : Message]
Of(w, c) == {i \in DOMAIN w : w[i].to = c}

\* Of the messages s of channel c, the wire w carries those after the first d.
Carries(w, c, d, s) ==
    /\ \A n \in d + 1..Len(s) : \E i \in Of(w, c) : w[i].what.n = n
    /\ \A i \in Of(w, c) : /\ w[i].what.n \in d + 1..Len(s)
                           /\ w[i].what = s[w[i].what.n]
    /\ \A i, j \in Of(w, c) : i < j => w[i].what.n < w[j].what.n

\* The server sends one more.
LEMMA CarriesSent ==
  ASSUME NEW c \in Channels, NEW w \in Seq(Parcel), NEW s \in Seq(Message),
         NEW d \in Nat, d <= Len(s), NEW m \in Message, m.n = Len(s) + 1,
         Carries(w, c, d, s)
  PROVE  Carries(Append(w, [to |-> c, what |-> m]), c, d, Append(s, m))
<1> DEFINE p == [to |-> c, what |-> m]
<1>0. /\ Len(w) \in Nat /\ Len(s) \in Nat
      /\ DOMAIN w = 1..Len(w) /\ DOMAIN s = 1..Len(s)
  OBVIOUS
<1>1. PICK v, t : v = Append(w, p) /\ t = Append(s, m)
  OBVIOUS
<1>2. /\ DOMAIN v = 1..Len(w) + 1 /\ v[Len(w) + 1] = p
      /\ \A i \in 1..Len(w) : v[i] = w[i]
      /\ Len(t) = Len(s) + 1 /\ t[Len(s) + 1] = m
      /\ \A i \in 1..Len(s) : t[i] = s[i]
  BY <1>0, <1>1
<1>3. p.to = c /\ p.what = m
  OBVIOUS
<1> HIDE DEF p
<1>4. Of(v, c) = Of(w, c) \cup {Len(w) + 1}
  BY <1>0, <1>2, <1>3 DEF Of
<1>5. ASSUME NEW i \in Of(w, c)
      PROVE  /\ i \in 1..Len(w) /\ v[i] = w[i]
             /\ w[i].what.n \in d + 1..Len(s)
             /\ v[i].what = t[v[i].what.n]
  BY <1>0, <1>2 DEF Of, Carries
<1>6. ASSUME NEW n \in d + 1..Len(t) PROVE \E i \in Of(v, c) : v[i].what.n = n
  <2>1. CASE n = Len(s) + 1
    BY <1>2, <1>3, <1>4, <2>1
  <2>2. CASE n # Len(s) + 1
    <3>1. n \in d + 1..Len(s)
      BY <1>0, <1>2, <2>2
    <3>2. PICK i \in Of(w, c) : w[i].what.n = n
      BY <3>1 DEF Carries
    <3> QED BY <1>4, <1>5, <3>2
  <2> QED BY <2>1, <2>2
<1>7. ASSUME NEW i \in Of(v, c)
      PROVE  v[i].what.n \in d + 1..Len(t) /\ v[i].what = t[v[i].what.n]
  BY <1>0, <1>2, <1>3, <1>4, <1>5
<1>8. ASSUME NEW i \in Of(v, c), NEW j \in Of(v, c), i < j
      PROVE  v[i].what.n < v[j].what.n
  <2>1. CASE j = Len(w) + 1
    <3>1. i \in Of(w, c)
      BY <1>0, <1>4, <1>8, <2>1
    <3>2. v[i].what.n \in d + 1..Len(s)
      BY <1>5, <3>1
    <3>3. v[j].what.n = Len(s) + 1
      BY <1>2, <1>3, <2>1
    <3> QED BY <1>0, <3>2, <3>3
  <2>2. CASE j # Len(w) + 1
    <3>1. i \in Of(w, c) /\ j \in Of(w, c)
      BY <1>0, <1>4, <1>5, <1>8, <2>2
    <3>2. w[i].what.n < w[j].what.n
      BY <1>8, <3>1 DEF Carries
    <3> QED BY <1>5, <3>1, <3>2
  <2> QED BY <2>1, <2>2
<1> QED BY <1>1, <1>6, <1>7, <1>8 DEF Carries, p

\* The server sends to another channel.
LEMMA CarriesOtherSent ==
  ASSUME NEW c, NEW w \in Seq(Parcel), NEW p \in Parcel, p.to # c
  PROVE  /\ Of(Append(w, p), c) = Of(w, c)
         /\ \A i \in Of(w, c) : Append(w, p)[i] = w[i]
BY DEF Of

\* The loop takes a message of another channel from the wire.
LEMMA CarriesOtherTaken ==
  ASSUME NEW c, NEW w \in Seq(Parcel), w # <<>>, Head(w).to # c, NEW d, NEW s,
         Carries(w, c, d, s)
  PROVE  /\ Carries(Tail(w), c, d, s)
         /\ Of(Tail(w), c) = {} <=> Of(w, c) = {}
<1>0. Len(w) \in Nat /\ DOMAIN w = 1..Len(w) /\ Len(w) > 0 /\ Head(w) = w[1]
  OBVIOUS
<1>1. PICK v : v = Tail(w)
  OBVIOUS
<1>2. /\ DOMAIN v = 1..Len(w) - 1
      /\ \A i \in 1..Len(w) - 1 : v[i] = w[i + 1]
  BY <1>0, <1>1
<1>3. \A i \in Of(v, c) : i + 1 \in Of(w, c) /\ v[i] = w[i + 1] /\ i \in Nat
  BY <1>0, <1>2 DEF Of
<1>4. \A j \in Of(w, c) : j \in Nat /\ j - 1 \in Of(v, c) /\ (j - 1) + 1 = j
  <2>1. ASSUME NEW j \in Of(w, c)
        PROVE  j \in Nat /\ j - 1 \in 1..Len(w) - 1 /\ (j - 1) + 1 = j
    BY <1>0 DEF Of
  <2> QED BY <1>2, <2>1 DEF Of
<1>5. ASSUME NEW n \in d + 1..Len(s) PROVE \E i \in Of(v, c) : v[i].what.n = n
  <2>1. PICK j \in Of(w, c) : w[j].what.n = n
    BY DEF Carries
  <2> QED BY <1>3, <1>4, <2>1
<1>6. \A i \in Of(v, c) : /\ v[i].what.n \in d + 1..Len(s)
                          /\ v[i].what = s[v[i].what.n]
  BY <1>3 DEF Carries
<1>7. \A i, j \in Of(v, c) : i < j => v[i].what.n < v[j].what.n
  <2>1. ASSUME NEW i \in Of(v, c), NEW j \in Of(v, c), i < j
        PROVE  i + 1 < j + 1
    BY <1>3, <2>1
  <2> QED BY <1>3, <2>1 DEF Carries
<1>8. Of(v, c) = {} <=> Of(w, c) = {}
  BY <1>3, <1>4
<1> QED BY <1>1, <1>5, <1>6, <1>7, <1>8 DEF Carries

\* The loop takes a message of the channel: it is the next of its messages.
LEMMA CarriesTaken ==
  ASSUME NEW c, NEW w \in Seq(Parcel), w # <<>>, Head(w).to = c,
         NEW s \in Seq(Message), NEW d \in Nat, Carries(w, c, d, s)
  PROVE  /\ d + 1 <= Len(s) /\ Head(w).what = s[d + 1]
         /\ Carries(Tail(w), c, d + 1, s)
<1>0. /\ Len(w) \in Nat /\ DOMAIN w = 1..Len(w) /\ Len(w) > 0 /\ Head(w) = w[1]
      /\ Len(s) \in Nat
  OBVIOUS
<1>1. PICK v : v = Tail(w)
  OBVIOUS
<1>2. /\ DOMAIN v = 1..Len(w) - 1
      /\ \A i \in 1..Len(w) - 1 : v[i] = w[i + 1]
  BY <1>0, <1>1
<1>3. \A i \in Of(v, c) : i + 1 \in Of(w, c) /\ v[i] = w[i + 1] /\ i \in Nat /\ i >= 1
  BY <1>0, <1>2 DEF Of
<1>4. 1 \in Of(w, c)
  BY <1>0 DEF Of
<1>5. \A j \in Of(w, c) : j # 1 => j - 1 \in Of(v, c) /\ (j - 1) + 1 = j /\ j > 1
  <2>1. ASSUME NEW j \in Of(w, c), j # 1
        PROVE  j \in Nat /\ j > 1 /\ j - 1 \in 1..Len(w) - 1 /\ (j - 1) + 1 = j
    BY <1>0, <2>1 DEF Of
  <2> QED BY <1>2, <2>1 DEF Of
<1>6. /\ w[1].what.n \in d + 1..Len(s) /\ w[1].what = s[w[1].what.n]
      /\ \A j \in Of(w, c) : j # 1 => w[1].what.n < w[j].what.n
  BY <1>4, <1>5 DEF Carries
<1>7. w[1].what.n = d + 1
  <2>1. d + 1 \in d + 1..Len(s)
    BY <1>0, <1>6
  <2>2. PICK j \in Of(w, c) : w[j].what.n = d + 1
    BY <2>1 DEF Carries
  <2> QED BY <1>6, <2>2
<1>8. ASSUME NEW n \in (d + 1) + 1..Len(s)
      PROVE  \E i \in Of(v, c) : v[i].what.n = n
  <2>1. n \in d + 1..Len(s) /\ n # d + 1
    BY <1>0
  <2>2. PICK j \in Of(w, c) : w[j].what.n = n
    BY <2>1 DEF Carries
  <2>3. j # 1
    BY <1>7, <2>1, <2>2
  <2> QED BY <1>3, <1>5, <2>2, <2>3
<1>9. ASSUME NEW i \in Of(v, c)
      PROVE  /\ v[i].what.n \in (d + 1) + 1..Len(s)
             /\ v[i].what = s[v[i].what.n]
  <2>1. i + 1 \in Of(w, c) /\ i + 1 # 1 /\ v[i] = w[i + 1]
    BY <1>3
  <2>2. /\ w[i + 1].what.n \in d + 1..Len(s)
        /\ w[i + 1].what = s[w[i + 1].what.n] /\ d + 1 < w[i + 1].what.n
    BY <1>6, <1>7, <2>1 DEF Carries
  <2> QED BY <1>0, <2>1, <2>2
<1>10. \A i, j \in Of(v, c) : i < j => v[i].what.n < v[j].what.n
  <2>1. ASSUME NEW i \in Of(v, c), NEW j \in Of(v, c), i < j
        PROVE  i + 1 < j + 1
    BY <1>3, <2>1
  <2> QED BY <1>3, <2>1 DEF Carries
<1>11. d + 1 <= Len(s) /\ Head(w).what = s[d + 1]
  BY <1>0, <1>6, <1>7
<1>12. Carries(v, c, d + 1, s)
  BY <1>8, <1>9, <1>10 DEF Carries
<1> QED BY <1>1, <1>11, <1>12

\* All messages have been taken when the channel has none on the wire.
LEMMA CarriesNone ==
  ASSUME NEW c, NEW w, NEW s \in Seq(Message), NEW d \in Nat, d <= Len(s),
         Carries(w, c, d, s)
  PROVE  (Of(w, c) = {}) <=> (d = Len(s))
<1>1. Len(s) \in Nat
  OBVIOUS
<1>2. ASSUME d # Len(s) PROVE Of(w, c) # {}
  <2>1. Len(s) \in d + 1..Len(s)
    BY <1>1, <1>2
  <2> QED BY <2>1 DEF Carries
<1>3. ASSUME d = Len(s), NEW i \in Of(w, c) PROVE FALSE
  <2>1. w[i].what.n \in d + 1..Len(s)
    BY DEF Carries
  <2> QED BY <1>1, <1>3, <2>1
<1> QED BY <1>2, <1>3

-----------------------------------------------------------------------------
(* Events, position by position.                                           *)

\* The events a, and the messages b in the inbox, are the first of s.
Leads(a, b, s) ==
    /\ Len(a) + Len(b) <= Len(s)
    /\ \A i \in 1..Len(a) : a[i] = ChannelEvent(s[i])
    /\ \A i \in 1..Len(b) : ChannelEvent(b[i]) = ChannelEvent(s[Len(a) + i])

\* channel_event() makes an event of every message.
LEMMA EventOfMessage ==
  ASSUME NEW m \in Message
  PROVE  ChannelEvent(m) \in Event /\ ChannelEvent(m).n = m.n
<1>1. m = [kind |-> m.kind, n |-> m.n] /\ m.n \in Nat
  BY DEF Message
<1>2. PICK k : k = IF m.kind \in Reported THEN m.kind ELSE "Failure"
  OBVIOUS
<1>3. k \in Reported
  BY <1>2 DEF Reported, Replies
<1>4. ChannelEvent(m) = [kind |-> k, n |-> m.n]
  BY <1>1, <1>2 DEF ChannelEvent
<1> QED BY <1>1, <1>3, <1>4 DEF Event

\* The events of a sequence of messages.
LEMMA MappedIs ==
  ASSUME NEW b \in Seq(Message)
  PROVE  /\ Mapped(b) \in Seq(Event) /\ Len(Mapped(b)) = Len(b)
         /\ \A i \in 1..Len(b) : Mapped(b)[i] = ChannelEvent(b[i])
<1>1. DOMAIN b = 1..Len(b) /\ Len(b) \in Nat /\ \A i \in 1..Len(b) : b[i] \in Message
  OBVIOUS
<1>2. \A i \in 1..Len(b) : ChannelEvent(b[i]) \in Event
  BY <1>1, EventOfMessage
<1>3. Mapped(b) = [i \in 1..Len(b) |-> ChannelEvent(b[i])]
  BY <1>1 DEF Mapped
<1>4. Mapped(b) \in [1..Len(b) -> Event]
  BY <1>2, <1>3
<1>5. Mapped(b) \in Seq(Event) /\ Len(Mapped(b)) = Len(b)
  BY <1>1, <1>4
<1> QED BY <1>3, <1>5

\* That is what the prefix in EventsComplete says.
LEMMA LeadsIsPrefix ==
  ASSUME NEW a \in Seq(Event), NEW b \in Seq(Message), NEW s \in Seq(Message)
  PROVE  IsPrefix(a \o Mapped(b), Mapped(s)) <=> Leads(a, b, s)
<1>0. Len(a) \in Nat /\ Len(b) \in Nat /\ Len(s) \in Nat
  OBVIOUS
<1>1. PICK f, g : f = Mapped(b) /\ g = Mapped(s)
  OBVIOUS
<1>2. /\ f \in Seq(Event) /\ Len(f) = Len(b)
      /\ \A i \in 1..Len(b) : f[i] = ChannelEvent(b[i])
  BY <1>1, MappedIs
<1>3. /\ g \in Seq(Event) /\ Len(g) = Len(s)
      /\ \A i \in 1..Len(s) : g[i] = ChannelEvent(s[i])
  BY <1>1, MappedIs
<1>4. PICK e : e = a \o f
  OBVIOUS
<1>5. /\ e \in Seq(Event) /\ Len(e) = Len(a) + Len(b)
      /\ \A i \in 1..Len(a) : e[i] = a[i]
      /\ \A i \in 1..Len(b) : e[Len(a) + i] = f[i]
  <2>1. e \in Seq(Event) /\ Len(e) = Len(a) + Len(b)
    BY <1>2, <1>4
  <2>2. \A i \in 1..Len(a) : e[i] = a[i]
    BY <1>2, <1>4
  <2>3. ASSUME NEW i \in 1..Len(b) PROVE e[Len(a) + i] = f[i]
    <3>1. Len(a) + i \in 1..Len(e) /\ ~(Len(a) + i <= Len(a))
          /\ (Len(a) + i) - Len(a) = i
      BY <1>0, <2>1
    <3> QED BY <1>2, <1>4, <2>1, <3>1
  <2> QED BY <2>1, <2>2, <2>3
<1>6. IsPrefix(e, g) <=>
        Len(e) <= Len(g) /\ \A i \in 1..Len(e) : e[i] = g[i]
  BY <1>3, <1>5 DEF IsPrefix
<1>7. ASSUME Len(a) + Len(b) <= Len(s)
      PROVE  (\A i \in 1..Len(e) : e[i] = g[i]) <=>
                /\ \A i \in 1..Len(a) : a[i] = ChannelEvent(s[i])
                /\ \A i \in 1..Len(b) :
                       ChannelEvent(b[i]) = ChannelEvent(s[Len(a) + i])
  <2>1. \A i \in 1..Len(a) : i \in 1..Len(e) /\ i \in 1..Len(s)
    BY <1>0, <1>5, <1>7
  <2>2. \A i \in 1..Len(b) : Len(a) + i \in 1..Len(e) /\ Len(a) + i \in 1..Len(s)
    BY <1>0, <1>5, <1>7
  <2>3. \A i \in 1..Len(e) : i \notin 1..Len(a) =>
          i - Len(a) \in 1..Len(b) /\ Len(a) + (i - Len(a)) = i
    BY <1>0, <1>5
  <2>4. \A i \in 1..Len(a) : e[i] = a[i] /\ g[i] = ChannelEvent(s[i])
    BY <1>3, <1>5, <2>1
  <2>5. \A i \in 1..Len(b) : /\ e[Len(a) + i] = ChannelEvent(b[i])
                             /\ g[Len(a) + i] = ChannelEvent(s[Len(a) + i])
    BY <1>2, <1>3, <1>5, <2>2
  <2>6. ASSUME \A i \in 1..Len(e) : e[i] = g[i]
        PROVE  /\ \A i \in 1..Len(a) : a[i] = ChannelEvent(s[i])
               /\ \A i \in 1..Len(b) :
                      ChannelEvent(b[i]) = ChannelEvent(s[Len(a) + i])
    BY <2>1, <2>2, <2>4, <2>5, <2>6
  <2>7. ASSUME \A i \in 1..Len(a) : a[i] = ChannelEvent(s[i]),
               \A i \in 1..Len(b) :
                   ChannelEvent(b[i]) = ChannelEvent(s[Len(a) + i]),
               NEW i \in 1..Len(e)
        PROVE  e[i] = g[i]
    <3>1. CASE i \in 1..Len(a)
      BY <2>4, <2>7, <3>1
    <3>2. CASE i \notin 1..Len(a)
      <4>1. PICK j \in 1..Len(b) : i = Len(a) + j
        BY <2>3, <3>2
      <4> QED BY <2>5, <2>7, <4>1
    <3> QED BY <3>1, <3>2
  <2> QED BY <2>6, <2>7
<1> QED BY <1>1, <1>3, <1>4, <1>5, <1>6, <1>7 DEF Leads

\* The server sends one more.
LEMMA LeadsSent ==
  ASSUME NEW a \in Seq(Event), NEW b \in Seq(Message), NEW s \in Seq(Message),
         NEW m \in Message, Leads(a, b, s)
  PROVE  Leads(a, b, Append(s, m))
<1>1. PICK x, y, z \in Nat : x = Len(a) /\ y = Len(b) /\ z = Len(s)
  OBVIOUS
<1>2. PICK t : t = Append(s, m)
  OBVIOUS
<1>3. Len(t) = z + 1 /\ \A i \in 1..z : t[i] = s[i]
  BY <1>1, <1>2
<1>4. /\ x + y <= z
      /\ \A i \in 1..x : a[i] = ChannelEvent(s[i])
      /\ \A i \in 1..y : ChannelEvent(b[i]) = ChannelEvent(s[x + i])
  BY <1>1 DEF Leads
<1>5. x + y <= z + 1 /\ \A i \in 1..x : i \in 1..z
  BY <1>4
<1>6. \A j \in 1..y : x + j \in 1..z
  BY <1>4
<1>7. Leads(a, b, t)
  BY <1>1, <1>3, <1>4, <1>5, <1>6 DEF Leads
<1> QED BY <1>2, <1>7

\* The loop delivers the next one.
LEMMA LeadsDelivered ==
  ASSUME NEW a \in Seq(Event), NEW b \in Seq(Message), NEW s \in Seq(Message),
         Leads(a, b, s), Len(a) + Len(b) + 1 <= Len(s),
         NEW m \in Message, m = s[Len(a) + Len(b) + 1]
  PROVE  Leads(a, Append(b, m), s)
<1>1. PICK x, y, z \in Nat : x = Len(a) /\ y = Len(b) /\ z = Len(s)
  OBVIOUS
<1>2. PICK t : t = Append(b, m)
  OBVIOUS
<1>3. Len(t) = y + 1 /\ t[y + 1] = m /\ \A i \in 1..y : t[i] = b[i]
  BY <1>1, <1>2
<1>4. /\ x + y + 1 <= z /\ m = s[x + y + 1]
      /\ \A i \in 1..x : a[i] = ChannelEvent(s[i])
      /\ \A i \in 1..y : ChannelEvent(b[i]) = ChannelEvent(s[x + i])
  BY <1>1 DEF Leads
<1>5. x + (y + 1) <= z /\ x + (y + 1) = x + y + 1
  BY <1>4
<1>6. ASSUME NEW i \in 1..y + 1
      PROVE  ChannelEvent(t[i]) = ChannelEvent(s[x + i])
  <2>1. i \in 1..y \/ i = y + 1
    OBVIOUS
  <2> QED BY <1>3, <1>4, <1>5, <2>1
<1>7. Leads(a, t, s)
  BY <1>1, <1>3, <1>4, <1>5, <1>6 DEF Leads
<1> QED BY <1>2, <1>7

\* A message is taken and reported as its event.
LEMMA LeadsTaken ==
  ASSUME NEW a \in Seq(Event), NEW b \in Seq(Message), NEW s \in Seq(Message),
         Leads(a, b, s), b # <<>>
  PROVE  /\ Leads(Append(a, ChannelEvent(Head(b))), Tail(b), s)
         /\ Len(Append(a, ChannelEvent(Head(b)))) + Len(Tail(b)) = Len(a) + Len(b)
<1>1. PICK x, y, z \in Nat : x = Len(a) /\ y = Len(b) /\ z = Len(s)
  OBVIOUS
<1>2. PICK m : m = Head(b)
  OBVIOUS
<1>3. y >= 1 /\ m = b[1] /\ m \in Message
  BY <1>1, <1>2
<1>4. ChannelEvent(m) \in Event
  BY <1>3, EventOfMessage
<1>5. PICK f, t : f = Append(a, ChannelEvent(m)) /\ t = Tail(b)
  OBVIOUS
<1>6. /\ Len(f) = x + 1 /\ f[x + 1] = ChannelEvent(m)
      /\ \A i \in 1..x : f[i] = a[i]
  BY <1>1, <1>4, <1>5
<1>7. Len(t) = y - 1 /\ \A i \in 1..y - 1 : t[i] = b[i + 1]
  BY <1>1, <1>3, <1>5
<1>8. /\ x + y <= z
      /\ \A i \in 1..x : a[i] = ChannelEvent(s[i])
      /\ \A i \in 1..y : ChannelEvent(b[i]) = ChannelEvent(s[x + i])
  BY <1>1 DEF Leads
<1>9. (x + 1) + (y - 1) = x + y
  OBVIOUS
<1>10. ASSUME NEW i \in 1..x + 1 PROVE f[i] = ChannelEvent(s[i])
  <2>1. i \in 1..x \/ i = x + 1
    OBVIOUS
  <2>2. 1 \in 1..y
    BY <1>3
  <2> QED BY <1>3, <1>6, <1>8, <2>1, <2>2
<1>11. ASSUME NEW i \in 1..y - 1
       PROVE  ChannelEvent(t[i]) = ChannelEvent(s[(x + 1) + i])
  <2>1. i + 1 \in 1..y /\ x + (i + 1) = (x + 1) + i
    OBVIOUS
  <2> QED BY <1>7, <1>8, <2>1
<1>12. Leads(f, t, s)
  BY <1>1, <1>6, <1>7, <1>8, <1>9, <1>10, <1>11 DEF Leads
<1>13. Len(f) + Len(t) = x + y
  BY <1>6, <1>7, <1>9
<1> QED BY <1>1, <1>2, <1>5, <1>12, <1>13

-----------------------------------------------------------------------------
(* The invariant, channel by channel.                                      *)

Sound(c) ==
    /\ Settled(c)
    /\ Leads(events[c], inbox[c], sent[c])
    /\ alive => Carries(wire, c, Delivered(c), sent[c])
    /\ last[c] = "end" => ended[c] /\ inbox[c] = <<>> /\ reader[c] = "idle"

Over == ~alive => wire = <<>> /\ \A c \in Channels : ended[c]

Whole == TypeOK /\ Over /\ \A c \in Channels : Sound(c)

\* EventsInv is its types and what it says of each channel.
LEMMA Parts == EventsInv <=> Whole
<1>1. TypeOK => \A c \in Channels :
        IsPrefix(events[c] \o Mapped(inbox[c]), Mapped(sent[c])) <=>
          Leads(events[c], inbox[c], sent[c])
  BY LeadsIsPrefix DEF TypeOK
<1>2. \A c \in Channels : Travelling(c) <=> Carries(wire, c, Delivered(c), sent[c])
  BY DEF Travelling, Carries, For, Of
<1> QED BY <1>1, <1>2 DEF EventsInv, EventsComplete, EndIsLast, Sound, Over, Whole

\* What the types say of one channel.
LEMMA Typed ==
  ASSUME TypeOK, NEW c \in Channels
  PROVE  /\ wire \in Seq(Parcel) /\ sent[c] \in Seq(Message)
         /\ inbox[c] \in Seq(Message) /\ events[c] \in Seq(Event)
         /\ Len(sent[c]) \in Nat /\ Len(inbox[c]) \in Nat /\ Len(events[c]) \in Nat
         /\ DOMAIN sent[c] = 1..Len(sent[c])
         /\ Delivered(c) \in Nat
         /\ asked[c] \in Nat /\ replied[c] \in Nat /\ ended[c] \in BOOLEAN
<1>1. /\ wire \in Seq(Parcel) /\ sent[c] \in Seq(Message)
      /\ inbox[c] \in Seq(Message) /\ events[c] \in Seq(Event)
      /\ asked[c] \in Nat /\ replied[c] \in Nat /\ ended[c] \in BOOLEAN
  BY DEF TypeOK, Parcel
<1>2. /\ Len(sent[c]) \in Nat /\ Len(inbox[c]) \in Nat /\ Len(events[c]) \in Nat
      /\ DOMAIN sent[c] = 1..Len(sent[c])
  BY <1>1
<1>3. Delivered(c) \in Nat
  <2>1. PICK a, b \in Nat : a = Len(events[c]) /\ b = Len(inbox[c])
    BY <1>2
  <2>2. a + b \in Nat
    OBVIOUS
  <2> QED BY <2>1, <2>2 DEF Delivered
<1> QED BY <1>1, <1>2, <1>3

\* A step that leaves the messages of a channel where they are.
LEMMA Untouched ==
  ASSUME TypeOK, NEW c \in Channels, Sound(c), alive' = alive,
         sent'[c] = sent[c], inbox'[c] = inbox[c], events'[c] = events[c],
         ended'[c] = ended[c], replied'[c] <= asked'[c],
         Of(wire', c) = {} <=> Of(wire, c) = {},
         alive => Carries(wire', c, Delivered(c), sent[c]),
         last'[c] = "end" => ended[c] /\ inbox[c] = <<>> /\ reader'[c] = "idle"
  PROVE  Sound(c)'
<1>1. Delivered(c)' = Delivered(c) /\ (Closed(c)' <=> Closed(c))
  BY DEF Delivered, Closed
<1>2. For(c)' = {} <=> For(c) = {}
  BY DEF For, Of
<1>3. Settled(c)'
  BY <1>1, <1>2 DEF Settled, Sound
<1> QED BY <1>1, <1>3 DEF Sound

\* Before the first message.
LEMMA InitEventsInv == Init => EventsInv
<1> SUFFICES ASSUME Init PROVE EventsInv
  OBVIOUS
<1>1. TypeOK
  BY DEF Init, TypeOK
<1>2. Over
  BY DEF Init, Over
<1>3. ASSUME NEW c \in Channels PROVE Sound(c)
  <2>1. /\ wire = <<>> /\ sent[c] = <<>> /\ inbox[c] = <<>> /\ events[c] = <<>>
        /\ asked[c] = 0 /\ replied[c] = 0 /\ ended[c] = FALSE /\ last[c] = "none"
    BY DEF Init
  <2>2. Of(wire, c) = {} /\ Len(sent[c]) = 0 /\ Delivered(c) = 0
    BY <2>1 DEF Of, Delivered
  <2>3. Settled(c)
    BY <2>1, EventsAssumption DEF Settled, Closed
  <2>4. Leads(events[c], inbox[c], sent[c])
    BY <2>1 DEF Leads
  <2>5. Carries(wire, c, Delivered(c), sent[c])
    BY <2>2 DEF Carries
  <2> QED BY <2>1, <2>3, <2>4, <2>5 DEF Sound
<1> QED BY <1>1, <1>2, <1>3, Parts DEF Whole

-----------------------------------------------------------------------------
(* The server and the loop.                                                *)

\* A message of the server goes to the end of the wire; its channel is not
\* closed, so its inbox has its sender still.
LEMMA SendInv ==
  ASSUME EventsInv, NEW c \in Channels, NEW kind \in Kinds \cup Replies \cup {"Close"},
         Send(c, kind), UNCHANGED <<alive, inbox, ended, asked, readVars>>,
         replied' \in [Channels -> Nat], \A o \in Channels : replied'[o] <= asked[o]
  PROVE  EventsInv'
<1>0. TypeOK /\ Over /\ \A o \in Channels : Sound(o)
  BY Parts DEF Whole
<1>1. PICK m : m = [kind |-> kind, n |-> Len(sent[c]) + 1]
  OBVIOUS
<1>2. m \in Message /\ m.n = Len(sent[c]) + 1
  BY <1>0, <1>1, Typed DEF Message
<1>3. PICK p : p = [to |-> c, what |-> m]
  OBVIOUS
<1>4. p \in Parcel /\ p.to = c
  BY <1>2, <1>3 DEF Parcel
<1>5. /\ alive /\ ~Closed(c)
      /\ sent' = [sent EXCEPT ![c] = Append(@, m)] /\ wire' = Append(wire, p)
  BY <1>1, <1>3 DEF Send
<1>6. sent'[c] = Append(sent[c], m) /\ \A o \in Channels : o # c => sent'[o] = sent[o]
  BY <1>0, <1>5 DEF TypeOK
<1>7. TypeOK'
  <2>1. wire' \in Seq(Parcel)
    BY <1>0, <1>4, <1>5, Typed
  <2>2. sent' \in [Channels -> Seq(Message)]
    BY <1>0, <1>2, <1>5 DEF TypeOK
  <2> QED BY <1>0, <2>1, <2>2 DEF TypeOK, readVars, Parcel
<1>8. Over'
  BY <1>5 DEF Over
<1>9. ASSUME NEW o \in Channels, o # c PROVE Sound(o)'
  <2>1. /\ Of(wire', o) = Of(wire, o)
        /\ \A i \in Of(wire, o) : wire'[i] = wire[i]
    <3>1. wire \in Seq(Parcel) /\ p.to # o
      BY <1>0, <1>4, <1>9, Typed
    <3>2. /\ Of(Append(wire, p), o) = Of(wire, o)
          /\ \A i \in Of(wire, o) : Append(wire, p)[i] = wire[i]
      BY <1>4, <3>1, CarriesOtherSent
    <3> QED BY <1>5, <3>2
  <2>2. Carries(wire, o, Delivered(o), sent[o])
    BY <1>0, <1>5 DEF Sound
  <2>3. Carries(wire', o, Delivered(o), sent[o])
    BY <2>1, <2>2 DEF Carries
  <2> QED BY <1>0, <1>6, <1>9, <2>1, <2>3, Untouched DEF readVars, Sound
<1>10. Sound(c)'
  <2>0. /\ sent[c] \in Seq(Message) /\ Len(sent[c]) \in Nat
        /\ DOMAIN sent[c] = 1..Len(sent[c]) /\ wire \in Seq(Parcel) /\ Delivered(c) \in Nat
        /\ Len(inbox[c]) \in Nat /\ Len(events[c]) \in Nat
    BY <1>0, Typed
  <2>1. PICK s : s = Append(sent[c], m)
    OBVIOUS
  <2>2. /\ Len(s) = Len(sent[c]) + 1 /\ DOMAIN s = 1..Len(sent[c]) + 1
        /\ \A i \in 1..Len(sent[c]) : s[i] = sent[c][i]
    BY <1>2, <2>0, <2>1
  <2>3. Leads(events[c], inbox[c], sent[c]) /\ Settled(c)
        /\ Carries(wire, c, Delivered(c), sent[c])
    BY <1>0, <1>5 DEF Sound
  <2>4. Leads(events[c], inbox[c], s)
    BY <1>0, <1>2, <2>1, <2>3, Typed, LeadsSent
  <2>5. Carries(wire', c, Delivered(c), s)
    <3>1. Delivered(c) <= Len(sent[c])
      BY <2>3 DEF Leads, Delivered
    <3> QED BY <1>2, <1>3, <1>5, <2>0, <2>1, <2>3, <3>1, CarriesSent
  <2>6. Of(wire', c) # {}
    BY <1>4, <1>5, <2>0 DEF Of
  <2>7. \A i \in DOMAIN s : s[i].kind = "Close" => i = Len(s)
    <3>1. ASSUME NEW i \in 1..Len(sent[c]) PROVE s[i].kind # "Close"
      BY <1>5, <2>0, <2>2 DEF Closed
    <3>2. \A i \in DOMAIN s : i \in 1..Len(sent[c]) \/ i = Len(sent[c]) + 1
      BY <2>0, <2>2
    <3> QED BY <2>2, <3>1, <3>2
  <2>8. ~ended[c]
    BY <1>5, <2>3 DEF Settled
  <2>9. Settled(c)'
    BY <1>5, <1>6, <2>1, <2>3, <2>6, <2>7, <2>8 DEF Settled, For, Of
  <2>10. Delivered(c)' = Delivered(c)
    BY DEF Delivered, readVars
  <2>11. /\ events' = events /\ inbox' = inbox /\ last' = last /\ reader' = reader
         /\ ended' = ended /\ sent'[c] = s
    BY <1>6, <2>1 DEF readVars
  <2>12. last'[c] = "end" => ended'[c] /\ inbox'[c] = <<>> /\ reader'[c] = "idle"
    BY <1>0, <2>11 DEF Sound
  <2> QED BY <2>4, <2>5, <2>9, <2>10, <2>11, <2>12 DEF Sound
<1>11. Whole'
  BY <1>7, <1>8, <1>9, <1>10 DEF Whole
<1> QED BY <1>11, Parts, PTL

\* The server sends what it likes, or answers a request.
LEMMA ServerInv ==
  ASSUME EventsInv, NEW c \in Channels, ServerSends(c) \/ ServerReplies(c)
  PROVE  EventsInv'
<1>0. TypeOK /\ \A o \in Channels : Sound(o)
  BY Parts DEF Whole
<1>1. CASE ServerSends(c)
  <2>1. PICK kind \in Kinds \cup {"Close"} : Send(c, kind)
    BY <1>1 DEF ServerSends
  <2>2. UNCHANGED <<alive, inbox, ended, asked, replied, readVars>>
    BY <1>1 DEF ServerSends
  <2>3. replied' \in [Channels -> Nat] /\ \A o \in Channels : replied'[o] <= asked[o]
    BY <1>0, <2>2 DEF TypeOK, Sound, Settled
  <2> QED BY <2>1, <2>2, <2>3, SendInv
<1>2. CASE ServerReplies(c)
  <2>1. PICK kind \in Replies : Send(c, kind)
    BY <1>2 DEF ServerReplies
  <2>2. /\ UNCHANGED <<alive, inbox, ended, asked, readVars>>
        /\ replied[c] < asked[c] /\ replied' = [replied EXCEPT ![c] = @ + 1]
    BY <1>2 DEF ServerReplies
  <2>3. \A o \in Channels : replied[o] \in Nat /\ asked[o] \in Nat /\ replied[o] <= asked[o]
    BY <1>0 DEF TypeOK, Sound, Settled
  <2>4. replied' \in [Channels -> Nat] /\ \A o \in Channels : replied'[o] <= asked[o]
    BY <1>0, <2>2, <2>3 DEF TypeOK
  <2> QED BY <2>1, <2>2, <2>4, SendInv
<1> QED BY <1>1, <1>2

\* The loop delivers the next message of a channel, and takes the sender of
\* its inbox away exactly with the close, behind which nothing is left.
LEMMA DeliverInv == EventsInv /\ Deliver => EventsInv'
<1> SUFFICES ASSUME EventsInv, Deliver PROVE EventsInv'
  OBVIOUS
<1>0. TypeOK /\ Over /\ \A o \in Channels : Sound(o)
  BY Parts DEF Whole
<1>1. PICK c, m : c = Head(wire).to /\ m = Head(wire).what
  OBVIOUS
<1>2. /\ alive /\ wire # <<>> /\ Len(inbox[c]) < Inbox
      /\ wire' = Tail(wire)
      /\ inbox' = [inbox EXCEPT ![c] = Append(@, m)]
      /\ ended' = [ended EXCEPT ![c] = m.kind = "Close"]
      /\ UNCHANGED <<alive, serverVars, asked, readVars>>
  BY <1>1 DEF Deliver
<1>3. wire \in Seq(Parcel)
  BY <1>0 DEF TypeOK, Parcel
<1>4. c \in Channels /\ m \in Message /\ Tail(wire) \in Seq(Parcel)
  <2>1. Head(wire) \in Parcel /\ Tail(wire) \in Seq(Parcel)
    BY <1>2, <1>3
  <2> QED BY <1>1, <2>1 DEF Parcel
<1>5. /\ sent' = sent /\ replied' = replied /\ asked' = asked /\ reader' = reader
      /\ stop' = stop /\ last' = last /\ events' = events /\ alive' = alive
  BY <1>2 DEF serverVars, readVars
<1>6. inbox'[c] = Append(inbox[c], m)
      /\ ended'[c] = (m.kind = "Close")
      /\ \A o \in Channels : o # c => inbox'[o] = inbox[o] /\ ended'[o] = ended[o]
  BY <1>0, <1>2, <1>4 DEF TypeOK
<1>7. TypeOK'
  <2>1. inbox' \in [Channels -> Seq(Message)]
    BY <1>0, <1>2, <1>4 DEF TypeOK
  <2>2. ended' \in [Channels -> BOOLEAN]
    BY <1>0, <1>2 DEF TypeOK
  <2> QED BY <1>0, <1>2, <1>4, <1>5, <2>1, <2>2 DEF TypeOK, Parcel
<1>8. Over'
  BY <1>2 DEF Over
<1>9. ASSUME NEW o \in Channels, o # c PROVE Sound(o)'
  <2>1. Carries(wire, o, Delivered(o), sent[o])
    BY <1>0, <1>2 DEF Sound
  <2>2. /\ Carries(Tail(wire), o, Delivered(o), sent[o])
        /\ Of(Tail(wire), o) = {} <=> Of(wire, o) = {}
    BY <1>1, <1>2, <1>3, <1>9, <2>1, CarriesOtherTaken
  <2>3. Carries(wire', o, Delivered(o), sent[o])
        /\ (Of(wire', o) = {} <=> Of(wire, o) = {})
    BY <1>2, <2>2
  <2>4. /\ replied'[o] <= asked'[o]
        /\ last'[o] = "end" => ended[o] /\ inbox[o] = <<>> /\ reader'[o] = "idle"
    BY <1>0, <1>5 DEF Sound, Settled
  <2> QED BY <1>0, <1>5, <1>6, <1>9, <2>3, <2>4, Untouched
<1>10. Sound(c)'
  <2>0. /\ sent[c] \in Seq(Message) /\ Len(sent[c]) \in Nat
        /\ DOMAIN sent[c] = 1..Len(sent[c])
        /\ inbox[c] \in Seq(Message) /\ events[c] \in Seq(Event)
        /\ Delivered(c) \in Nat
    BY <1>0, <1>4, Typed
  <2>1. /\ Settled(c) /\ Leads(events[c], inbox[c], sent[c])
        /\ Carries(wire, c, Delivered(c), sent[c])
        /\ last[c] = "end" => ended[c] /\ inbox[c] = <<>> /\ reader[c] = "idle"
    BY <1>0, <1>2, <1>4 DEF Sound
  <2>2. PICK d \in Nat : d = Delivered(c)
    BY <2>0
  <2>3. /\ d + 1 <= Len(sent[c]) /\ m = sent[c][d + 1]
        /\ Carries(wire', c, d + 1, sent[c])
        /\ Of(wire', c) = {} <=> d + 1 = Len(sent[c])
    <3>1. wire # <<>> /\ Head(wire).to = c /\ Carries(wire, c, d, sent[c])
      BY <1>1, <1>2, <2>1, <2>2
    <3>2. /\ d + 1 <= Len(sent[c]) /\ Head(wire).what = sent[c][d + 1]
          /\ Carries(Tail(wire), c, d + 1, sent[c])
      BY <1>3, <2>0, <3>1, CarriesTaken
    <3>3. (Of(Tail(wire), c) = {}) <=> (d + 1 = Len(sent[c]))
      BY <2>0, <3>2, CarriesNone
    <3> QED BY <1>1, <1>2, <3>2, <3>3
  <2>4. Leads(events[c], Append(inbox[c], m), sent[c])
    BY <1>4, <2>0, <2>1, <2>2, <2>3, LeadsDelivered DEF Delivered
  <2>5. Delivered(c)' = d + 1
    <3>1. Len(Append(inbox[c], m)) = Len(inbox[c]) + 1
      BY <1>4, <2>0
    <3>2. PICK x, y \in Nat : x = Len(events[c]) /\ y = Len(inbox[c])
      BY <2>0
    <3>3. x + (y + 1) = (x + y) + 1
      OBVIOUS
    <3> QED BY <1>5, <1>6, <2>2, <3>1, <3>2, <3>3 DEF Delivered
  <2>6. ~ended[c]
    <3>1. Head(wire) = wire[1] /\ 1 \in DOMAIN wire
      BY <1>2, <1>3
    <3>2. 1 \in For(c)
      BY <1>1, <3>1 DEF For
    <3> QED BY <1>2, <2>1, <3>2 DEF Settled
  <2>7. (m.kind = "Close") <=> Closed(c) /\ d + 1 = Len(sent[c])
    <3>1. d + 1 \in DOMAIN sent[c]
      BY <2>0, <2>3
    <3> QED BY <2>1, <2>3, <3>1 DEF Closed, Settled
  <2>8. Len(inbox'[c]) <= Inbox
    <3>1. PICK y \in Nat : y = Len(inbox[c])
      BY <2>0
    <3>2. Len(inbox'[c]) = y + 1
      BY <1>4, <1>6, <2>0, <3>1
    <3> QED BY <1>2, <3>1, <3>2, EventsAssumption
  <2>9. Settled(c)'
    <3>1. Closed(c)' <=> Closed(c)
      BY <1>5 DEF Closed
    <3>2. For(c)' = {} <=> d + 1 = Len(sent[c])
      BY <2>3 DEF For, Of
    <3>3. /\ replied'[c] <= asked'[c]
          /\ \A i \in DOMAIN sent'[c] : sent'[c][i].kind = "Close" => i = Len(sent'[c])
      BY <1>5, <2>1 DEF Settled
    <3>4. ended'[c] <=> Closed(c)' /\ For(c)' = {}
      BY <1>6, <2>7, <3>1, <3>2
    <3> QED BY <2>8, <3>3, <3>4 DEF Settled
  <2> QED BY <1>5, <1>6, <2>1, <2>3, <2>4, <2>5, <2>6, <2>9 DEF Sound
<1>11. Whole'
  BY <1>7, <1>8, <1>9, <1>10 DEF Whole
<1> QED BY <1>11, Parts, PTL

\* The session ends: what was not delivered is gone, what was stays.
LEMMA SessionEndsInv == EventsInv /\ SessionEnds => EventsInv'
<1> SUFFICES ASSUME EventsInv, SessionEnds PROVE EventsInv'
  OBVIOUS
<1>0. TypeOK /\ Over /\ \A o \in Channels : Sound(o)
  BY Parts DEF Whole
<1>1. /\ alive' = FALSE /\ wire' = <<>> /\ ended' = [c \in Channels |-> TRUE]
      /\ sent' = sent /\ replied' = replied /\ asked' = asked /\ reader' = reader
      /\ stop' = stop /\ last' = last /\ events' = events /\ inbox' = inbox
  BY DEF SessionEnds, serverVars, readVars
<1>2. TypeOK'
  <2>1. alive' \in BOOLEAN /\ ended' \in [Channels -> BOOLEAN]
    BY <1>1
  <2>2. wire' \in Seq([to : Channels, what : Message])
    BY <1>1
  <2> QED BY <1>0, <1>1, <2>1, <2>2 DEF TypeOK
<1>3. Over'
  BY <1>1 DEF Over
<1>4. ASSUME NEW c \in Channels PROVE Sound(c)'
  <2>1. Settled(c)'
    BY <1>0, <1>1 DEF Sound, Settled
  <2> QED BY <1>0, <1>1, <2>1 DEF Sound
<1>5. Whole'
  BY <1>2, <1>3, <1>4 DEF Whole
<1> QED BY <1>5, Parts, PTL

-----------------------------------------------------------------------------
(* The owner of a channel.                                                 *)

\* A step of the owner that takes no message: it may only change how it
\* waits, and says "end" only at an empty inbox without a sender.
LEMMA OwnerInv ==
  ASSUME EventsInv, NEW c \in Channels,
         UNCHANGED <<loopVars, serverVars, events>>,
         asked' \in [Channels -> Nat], \A o \in Channels : asked'[o] >= asked[o],
         reader' \in [Channels -> {"idle", "default", "context"}],
         stop' \in [Channels -> BOOLEAN],
         last' \in [Channels -> {"none", "event", "end", "stopped", "nothing"}],
         \A o \in Channels : o # c => last'[o] = last[o] /\ reader'[o] = reader[o],
         last'[c] = "end" => \/ last[c] = "end" /\ reader'[c] = reader[c]
                             \/ ended[c] /\ inbox[c] = <<>> /\ reader'[c] = "idle"
  PROVE  EventsInv'
<1>0. TypeOK /\ Over /\ \A o \in Channels : Sound(o)
  BY Parts DEF Whole
<1>1. /\ alive' = alive /\ wire' = wire /\ inbox' = inbox /\ ended' = ended
      /\ sent' = sent /\ replied' = replied /\ events' = events
  BY DEF loopVars, serverVars
<1>2. TypeOK'
  BY <1>0, <1>1 DEF TypeOK
<1>3. Over'
  BY <1>0, <1>1 DEF Over
<1>4. ASSUME NEW o \in Channels PROVE Sound(o)'
  <2>1. replied'[o] <= asked'[o]
    <3>1. replied[o] \in Nat /\ asked[o] \in Nat /\ asked'[o] \in Nat
      BY <1>0, Typed
    <3>2. replied[o] <= asked[o]
      BY <1>0 DEF Sound, Settled
    <3> QED BY <1>1, <3>1, <3>2
  <2>2. last'[o] = "end" => ended[o] /\ inbox[o] = <<>> /\ reader'[o] = "idle"
    BY <1>0 DEF Sound
  <2>3. alive => Carries(wire', o, Delivered(o), sent[o])
    BY <1>0, <1>1 DEF Sound
  <2> QED BY <1>0, <1>1, <2>1, <2>2, <2>3, Untouched
<1>5. Whole'
  BY <1>2, <1>3, <1>4 DEF Whole
<1> QED BY <1>5, Parts, PTL

\* Requests, the beginning of a call, the end of its deadline or context,
\* and calls that return without an event.
LEMMA WaitInv ==
  ASSUME EventsInv, NEW c \in Channels,
         \/ Request(c) \/ NextEvent(c) \/ NextEventWithContext(c)
         \/ Expires(c) \/ Stops(c) \/ End(c) \/ Stopped(c)
  PROVE  EventsInv'
<1>0. TypeOK
  BY Parts DEF Whole
<1>1. /\ reader \in [Channels -> {"idle", "default", "context"}]
      /\ stop \in [Channels -> BOOLEAN] /\ asked \in [Channels -> Nat]
      /\ last \in [Channels -> {"none", "event", "end", "stopped", "nothing"}]
      /\ \A o \in Channels : asked[o] \in Nat
  BY <1>0 DEF TypeOK
<1>2. CASE Request(c)
  <2>1. /\ UNCHANGED <<loopVars, serverVars, events>>
        /\ reader' = reader /\ stop' = stop /\ last' = last
        /\ asked' = [asked EXCEPT ![c] = @ + 1]
    BY <1>2 DEF Request, readVars
  <2>2. asked' \in [Channels -> Nat] /\ \A o \in Channels : asked'[o] >= asked[o]
    BY <1>1, <2>1
  <2> QED BY <1>1, <2>1, <2>2, OwnerInv
<1>3. ASSUME NEW how \in {"default", "context"}, Begin(c, how) PROVE EventsInv'
  <2>1. /\ UNCHANGED <<loopVars, serverVars, events>> /\ asked' = asked
        /\ reader' = [reader EXCEPT ![c] = how]
        /\ stop' = [stop EXCEPT ![c] = FALSE]
        /\ last' = [last EXCEPT ![c] = "none"]
    BY <1>3 DEF Begin
  <2>2. /\ reader' \in [Channels -> {"idle", "default", "context"}]
        /\ stop' \in [Channels -> BOOLEAN]
        /\ last' \in [Channels -> {"none", "event", "end", "stopped", "nothing"}]
        /\ last'[c] = "none"
        /\ \A o \in Channels : o # c => last'[o] = last[o] /\ reader'[o] = reader[o]
    BY <1>1, <2>1
  <2> QED BY <1>1, <2>1, <2>2, OwnerInv
<1>4. CASE Expires(c) \/ Stops(c)
  <2>1. /\ UNCHANGED <<loopVars, serverVars, events>> /\ asked' = asked
        /\ reader' = reader /\ last' = last
        /\ stop' = [stop EXCEPT ![c] = TRUE]
    BY <1>4 DEF Expires, Stops
  <2>2. stop' \in [Channels -> BOOLEAN]
    BY <1>1, <2>1
  <2> QED BY <1>1, <2>1, <2>2, OwnerInv
<1>5. ASSUME NEW result \in {"end", "stopped"}, Return(c, result),
             UNCHANGED <<inbox, events>>,
             result = "end" => ended[c] /\ inbox[c] = <<>>
      PROVE  EventsInv'
  <2>1. /\ UNCHANGED <<loopVars, serverVars, events>> /\ asked' = asked /\ stop' = stop
        /\ reader' = [reader EXCEPT ![c] = "idle"]
        /\ last' = [last EXCEPT ![c] = IF reader[c] = "default" /\ result # "event"
                                         THEN "nothing" ELSE result]
    BY <1>5 DEF Return, loopVars
  <2>2. /\ reader' \in [Channels -> {"idle", "default", "context"}]
        /\ last' \in [Channels -> {"none", "event", "end", "stopped", "nothing"}]
        /\ last'[c] = "end" => result = "end"
        /\ reader'[c] = "idle"
        /\ \A o \in Channels : o # c => last'[o] = last[o] /\ reader'[o] = reader[o]
    BY <1>1, <2>1
  <2> QED BY <1>1, <1>5, <2>1, <2>2, OwnerInv
<1>6. CASE End(c)
  BY <1>5, <1>6 DEF End
<1>7. CASE Stopped(c)
  BY <1>5, <1>7 DEF Stopped
<1> QED BY <1>2, <1>3, <1>4, <1>6, <1>7 DEF NextEvent, NextEventWithContext

\* next_event() returns the first message of the inbox as an event.
LEMMA TakeInv == ASSUME EventsInv, NEW c \in Channels, Take(c) PROVE EventsInv'
<1>0. TypeOK /\ Over /\ \A o \in Channels : Sound(o)
  BY Parts DEF Whole
<1>1. /\ alive' = alive /\ wire' = wire /\ ended' = ended /\ sent' = sent
      /\ replied' = replied /\ asked' = asked /\ stop' = stop
  BY DEF Take, Return, serverVars
<1>2. /\ reader[c] # "idle" /\ inbox[c] # <<>>
      /\ reader' = [reader EXCEPT ![c] = "idle"]
      /\ last' = [last EXCEPT ![c] = "event"]
      /\ inbox' = [inbox EXCEPT ![c] = Tail(@)]
      /\ events' = [events EXCEPT ![c] = Append(@, ChannelEvent(Head(inbox[c])))]
  BY DEF Take, Return
<1>3. /\ inbox[c] \in Seq(Message) /\ Head(inbox[c]) \in Message
      /\ Tail(inbox[c]) \in Seq(Message)
      /\ ChannelEvent(Head(inbox[c])) \in Event /\ events[c] \in Seq(Event)
  <2>1. inbox[c] \in Seq(Message) /\ events[c] \in Seq(Event)
    BY <1>0, Typed
  <2>2. Head(inbox[c]) \in Message /\ Tail(inbox[c]) \in Seq(Message)
    BY <1>2, <2>1
  <2> QED BY <2>1, <2>2, EventOfMessage
<1>4. PICK e : e = Append(events[c], ChannelEvent(Head(inbox[c])))
  OBVIOUS
<1>5. /\ inbox'[c] = Tail(inbox[c]) /\ events'[c] = e /\ last'[c] = "event"
      /\ \A o \in Channels : o # c => /\ inbox'[o] = inbox[o]
                                      /\ events'[o] = events[o]
                                      /\ last'[o] = last[o]
                                      /\ reader'[o] = reader[o]
  BY <1>0, <1>2, <1>4 DEF TypeOK
<1>6. e \in Seq(Event)
  BY <1>3, <1>4
<1>7. TypeOK'
  <2>1. inbox' \in [Channels -> Seq(Message)]
    BY <1>0, <1>2, <1>3 DEF TypeOK
  <2>2. events' \in [Channels -> Seq(Event)]
    BY <1>0, <1>2, <1>4, <1>6 DEF TypeOK
  <2>3. /\ reader' \in [Channels -> {"idle", "default", "context"}]
        /\ last' \in [Channels -> {"none", "event", "end", "stopped", "nothing"}]
    BY <1>0, <1>2 DEF TypeOK
  <2> QED BY <1>0, <1>1, <2>1, <2>2, <2>3 DEF TypeOK
<1>8. Over'
  BY <1>0, <1>1 DEF Over
<1>9. ASSUME NEW o \in Channels, o # c PROVE Sound(o)'
  <2>1. /\ alive => Carries(wire', o, Delivered(o), sent[o])
        /\ replied'[o] <= asked'[o]
        /\ last'[o] = "end" => ended[o] /\ inbox[o] = <<>> /\ reader'[o] = "idle"
    BY <1>0, <1>1, <1>5, <1>9 DEF Sound, Settled
  <2> QED BY <1>0, <1>1, <1>5, <1>9, <2>1, Untouched
<1>10. Sound(c)'
  <2>1. sent[c] \in Seq(Message) /\ Settled(c) /\ Leads(events[c], inbox[c], sent[c])
        /\ (alive => Carries(wire, c, Delivered(c), sent[c]))
    BY <1>0, Typed DEF Sound
  <2>2. /\ Leads(e, Tail(inbox[c]), sent[c])
        /\ Len(e) + Len(Tail(inbox[c])) = Len(events[c]) + Len(inbox[c])
    BY <1>2, <1>3, <1>4, <2>1, LeadsTaken
  <2>3. Delivered(c)' = Delivered(c)
    BY <1>5, <2>2 DEF Delivered
  <2>4. Len(inbox'[c]) <= Inbox
    <3>1. PICK y \in Nat : y = Len(inbox[c])
      BY <1>3
    <3>2. Len(Tail(inbox[c])) = y - 1 /\ y >= 1
      BY <1>2, <1>3, <3>1
    <3>3. y <= Inbox
      BY <2>1, <3>1 DEF Settled
    <3> QED BY <1>5, <3>2, <3>3, EventsAssumption
  <2>5. Settled(c)'
    <3>1. (Closed(c)' <=> Closed(c)) /\ For(c)' = For(c)
      BY <1>1 DEF Closed, For
    <3> QED BY <1>1, <2>1, <2>4, <3>1 DEF Settled
  <2> QED BY <1>1, <1>5, <2>1, <2>2, <2>3, <2>5 DEF Sound
<1>11. Whole'
  BY <1>7, <1>8, <1>9, <1>10 DEF Whole
<1> QED BY <1>11, Parts, PTL

-----------------------------------------------------------------------------
(* The theorems.                                                           *)

\* No step of the server, the loop or the owner of a channel breaks it.
LEMMA NextEventsInv == EventsInv /\ [Next]_vars => EventsInv'
<1> SUFFICES ASSUME EventsInv, [Next]_vars PROVE EventsInv'
  OBVIOUS
<1>1. CASE UNCHANGED vars
  <2>1. /\ UNCHANGED <<loopVars, serverVars, asked, readVars>>
    BY <1>1 DEF vars
  <2>2. /\ alive' = alive /\ wire' = wire /\ inbox' = inbox /\ ended' = ended
        /\ sent' = sent /\ replied' = replied /\ asked' = asked /\ events' = events
        /\ reader' = reader /\ stop' = stop /\ last' = last
    BY <2>1 DEF loopVars, serverVars, readVars
  <2>3. /\ (TypeOK' <=> TypeOK) /\ (EventsComplete' <=> EventsComplete)
        /\ (EndIsLast' <=> EndIsLast)
        /\ \A c \in Channels : Settled(c)' <=> Settled(c)
    BY <2>2 DEF TypeOK, EventsComplete, EndIsLast, Settled, Delivered, Closed,
                For, Travelling
  <2> QED BY <2>2, <2>3 DEF EventsInv
<1> QED BY <1>1, ServerInv, WaitInv, TakeInv, DeliverInv, SessionEndsInv
        DEF Next, ReaderStep

\* For any channels, inbox size, kinds of messages and bounds, EventsInv
\* holds throughout; its first conjunct is type correctness.
THEOREM EventsInvariant == SafetySpec => []EventsInv
BY InitEventsInv, NextEventsInv, PTL DEF SafetySpec

\* next_event() and next_event_with_context() report each message of the
\* server once and in its place, however many calls time out, are cancelled
\* or return None in between; while the session lives, nothing that is not
\* reported yet has left the inbox or the wire.
THEOREM NothingMissed == SafetySpec => []EventsComplete
<1>1. EventsInv => EventsComplete
  BY DEF EventsInv
<1> QED BY <1>1, EventsInvariant, PTL

\* After Ok(None) of next_event_with_context() the inbox is empty and has no
\* sender: None is a normal end, never a timeout or a cancellation.
THEOREM EndTold == SafetySpec => []EndIsLast
<1>1. EventsInv => EndIsLast
  BY DEF EventsInv
<1> QED BY <1>1, EventsInvariant, PTL

\* An inbox that is empty and has no sender stays so and yields no event: the
\* loop has nothing left for that channel, so it never opens it again.
NoEventAfterEnd ==
    [][\A c \in Channels : ended[c] /\ inbox[c] = <<>> =>
           ended'[c] /\ inbox'[c] = <<>> /\ events'[c] = events[c]]_vars

\* With EndTold: once next_event_with_context() has returned Ok(None), no
\* later call of either function returns an event of that channel.
THEOREM EndIsFinal == SafetySpec => NoEventAfterEnd
<1> DEFINE Kept == \A c \in Channels : ended[c] /\ inbox[c] = <<>> =>
                       ended'[c] /\ inbox'[c] = <<>> /\ events'[c] = events[c]
<1>1. ASSUME EventsInv, Next PROVE Kept
  <2> SUFFICES ASSUME NEW c \in Channels, ended[c], inbox[c] = <<>>
               PROVE  ended'[c] /\ inbox'[c] = <<>> /\ events'[c] = events[c]
    BY DEF Kept
  <2>0. TypeOK /\ Sound(c)
    BY <1>1, Parts DEF Whole
  <2>1. ASSUME NEW o \in Channels, ServerSends(o) \/ ServerReplies(o) \/ Request(o)
        PROVE  UNCHANGED <<ended, inbox, events>>
    BY <2>1 DEF ServerSends, ServerReplies, Request, loopVars, readVars
  <2>2. ASSUME NEW o \in Channels,
               \/ NextEvent(o) \/ NextEventWithContext(o) \/ Expires(o) \/ Stops(o)
        PROVE  UNCHANGED <<ended, inbox, events>>
    BY <2>2 DEF NextEvent, NextEventWithContext, Begin, Expires, Stops, loopVars
  <2>3. ASSUME NEW o \in Channels, End(o) \/ Stopped(o)
        PROVE  UNCHANGED <<ended, inbox, events>>
    BY <2>3 DEF End, Stopped, Return
  <2>4. ASSUME NEW o \in Channels, Take(o)
        PROVE  ended'[c] /\ inbox'[c] = <<>> /\ events'[c] = events[c]
    <3>1. o # c /\ ended' = ended
      BY <2>4 DEF Take, Return
    <3> QED BY <2>0, <2>4, <3>1 DEF Take, TypeOK
  <2>5. CASE Deliver
    <3>1. PICK o : o = Head(wire).to
      OBVIOUS
    <3>2. alive /\ For(c) = {} /\ wire # <<>>
      BY <2>0, <2>5 DEF Sound, Settled, Deliver
    <3>3. Head(wire) = wire[1] /\ 1 \in DOMAIN wire
      BY <2>0, <3>2 DEF TypeOK
    <3>4. o # c
      BY <3>1, <3>2, <3>3 DEF For
    <3>5. ended'[c] = ended[c] /\ inbox'[c] = inbox[c]
      BY <2>0, <2>5, <3>1, <3>4 DEF Deliver, TypeOK
    <3> QED BY <2>5, <3>5 DEF Deliver, readVars
  <2>6. CASE SessionEnds
    BY <2>6 DEF SessionEnds, readVars
  <2> QED BY <1>1, <2>1, <2>2, <2>3, <2>4, <2>5, <2>6 DEF Next, ReaderStep
<1>2. EventsInv /\ [Next]_vars => [Kept]_vars
  BY <1>1
<1> QED BY <1>2, EventsInvariant, PTL DEF SafetySpec, NoEventAfterEnd
=============================================================================
