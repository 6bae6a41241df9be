--------------------------- MODULE HostKeysProofs ---------------------------
(***************************************************************************)
(* HostKeysInv is inductive, and with it what the host key store promises  *)
(* holds for any hosts, keys, patterns, files and connections.             *)
(***************************************************************************)
EXTENDS HostKeys, TLAPS

\* What each decision of check() says about the entries of the host.
LEMMA CheckDecides ==
    ASSUME NEW s, NEW host, NEW key
    PROVE  /\ Check(s, host, key) \in Decisions
           /\ Check(s, host, key) = "Trusted" =>
                /\ Admits(s, host, key)
                /\ \A e \in Matching(s, host) :
                     ~ (e.marker = "revoked" /\ e.key = key)
           /\ Check(s, host, key) = "Unknown" =>
                \A e \in Matching(s, host) : e.marker = "ca"
<1> DEFINE m == Matching(s, host)
           revoked == \E e \in m : e.marker = "revoked" /\ e.key = key
           trusted == \E e \in m : e.marker = "none" /\ e.key = key
           listed == \E e \in m : e.marker # "ca"
<1>1. CASE revoked
  <2>1. Check(s, host, key) = "Revoked" BY <1>1 DEF Check
  <2> QED BY <2>1 DEF Decisions
<1>2. CASE ~revoked /\ trusted
  <2>1. Check(s, host, key) = "Trusted" BY <1>2 DEF Check
  <2>2. Admits(s, host, key) BY <1>2 DEF Admits
  <2> QED BY <1>2, <2>1, <2>2 DEF Decisions
<1>3. CASE ~revoked /\ ~trusted /\ listed
  <2>1. Check(s, host, key) = "Changed" BY <1>3 DEF Check
  <2> QED BY <2>1 DEF Decisions
<1>4. CASE ~revoked /\ ~trusted /\ ~listed
  <2>1. Check(s, host, key) = "Unknown" BY <1>4 DEF Check
  <2> QED BY <1>4, <2>1 DEF Decisions
<1> QED BY <1>1, <1>2, <1>3, <1>4

\* A first use records a key without touching what was refused: a host that
\* was refused has entries, and no other host has the new one.
LEMMA RefusalStands ==
    ASSUME NEW s, NEW h \in Hosts, NEW k, NEW h2 \in Hosts, NEW k2,
           Check(s, h, k) = "Unknown",
           Check(s, h2, k2) # "Unknown"
    PROVE  Check(PushKey(s, h, k), h2, k2) = Check(s, h2, k2)
<1>1. h # h2
  <2> SUFFICES ASSUME h = h2 PROVE FALSE
    OBVIOUS
  <2>1. \A e \in Matching(s, h2) : e.marker = "ca"
    BY CheckDecides
  <2>2. Check(s, h2, k2) = "Unknown"
    BY <2>1 DEF Check
  <2> QED BY <2>2
<1>2. h2 \notin Covers[h]
  BY <1>1, HostKeysAssumption
<1>3. Matching(PushKey(s, h, k), h2) = Matching(s, h2)
  BY <1>2 DEF Matching, PushKey, Unmarked
<1> QED BY <1>3 DEF Check

\* Recording, replacing and rendering keep every marked entry and add none.
LEMMA EditsKeepMarks ==
    ASSUME NEW s, NEW h, NEW k, NEW full, MarksKept(s)
    PROVE  /\ MarksKept(PushKey(s, h, k))
           /\ MarksKept(ReplaceEntry(s, Unmarked(h, k, full)))
BY DEF MarksKept, PushKey, ReplaceEntry, Unmarked

\* Marked entries come from a file and have a public key, so to_openssh()
\* writes each of them.
LEMMA RenderKeepsMarks ==
    ASSUME NEW s, MarksKept(s), origin \in Files
    PROVE  MarksKept(Render(s))
BY HostKeysAssumption DEF MarksKept, Render

\* The initial states satisfy the invariant: every copy of the store is the
\* file, and no connection is there yet.
THEOREM InitHostKeysInv == Init => HostKeysInv
<1> SUFFICES ASSUME Init PROVE HostKeysInv
  OBVIOUS
<1> USE DEF Init
<1>1. PICK p \in Peers : TRUE
  <2>1. PICK h \in Hosts : TRUE BY HostKeysAssumption
  <2>2. PICK k \in Keys : TRUE BY HostKeysAssumption
  <2>3. [host |-> h, key |-> k] \in Peers BY DEF Peers
  <2> QED BY <2>3
<1>2. NoPeer \in [Handlers -> Peers]
  BY <1>1 DEF NoPeer
<1>3. TypeOK
  BY <1>2, HostKeysAssumption DEF TypeOK, Idle, NoDecision, Decisions
<1> QED
  BY <1>3 DEF HostKeysInv, MarksKept, Sourced, RevocationDurable,
     TrustJustified, FirstKeyPinned, ObservationAgrees, Idle

-----------------------------------------------------------------------------
(* The parts of the invariant that are about connections. *)

RefusalsStand ==
    \A c \in Handlers : pc[c] = "refused" =>
        /\ decision[c] = Check(store, peer[c].host, peer[c].key)
        /\ decision[c] # "Trusted"
        /\ mode = "tofu" => decision[c] # "Unknown"

FirstUseAlone ==
    /\ first \subseteq admitted
    /\ \A p \in first : \A e \in Matching(store, p.host) :
          e.marker # "ca" => e.marker = "none" /\ e.key = p.key

AdmittedOnRecord == \A p \in admitted : Admits(store, p.host, p.key)

StoresSound ==
    /\ MarksKept(store) /\ MarksKept(copy) /\ MarksKept(disk)
    /\ Sourced(store) /\ Sourced(copy) /\ Sourced(disk)

\* A step that changes neither the verifiers' store nor what was admitted.
LEMMA PresentInv ==
    ASSUME HostKeysInv, NEW c \in Handlers, NEW host \in Hosts,
           NEW key \in Keys, Present(c, host, key)
    PROVE  HostKeysInv'
<1> USE DEF Present, storeVars, history
<1>1. TypeOK'
  BY DEF HostKeysInv, TypeOK, Peers, Decisions
<1>2. StoresSound' /\ RevocationDurable' /\ TrustJustified' /\ AdmittedOnRecord'
      /\ FirstUseAlone' /\ FirstKeyPinned'
  BY DEF HostKeysInv, StoresSound, MarksKept, Sourced, RevocationDurable,
     TrustJustified, AdmittedOnRecord, FirstUseAlone, FirstKeyPinned
<1>3. RefusalsStand' /\ ObservationAgrees'
  BY DEF HostKeysInv, TypeOK, RefusalsStand, ObservationAgrees
<1> QED
  BY <1>1, <1>2, <1>3 DEF HostKeysInv, StoresSound, RefusalsStand,
     FirstUseAlone, AdmittedOnRecord

\* verify() of a strict verifier, and of a first-use one that knows the host:
\* the store stays as it is.
LEMMA VerifyKnownInv ==
    ASSUME HostKeysInv, NEW c \in Handlers, Verify(c), store' = store
    PROVE  HostKeysInv'
<1> DEFINE host == peer[c].host
           key == peer[c].key
           d == Check(store, host, key)
<1>1. peer[c] \in Peers /\ host \in Hosts /\ key \in Keys
  BY DEF HostKeysInv, TypeOK, Peers
<1>2. mode = "tofu" => d # "Unknown"
  <2> SUFFICES ASSUME mode = "tofu", d = "Unknown" PROVE FALSE
    OBVIOUS
  <2>1. store = PushKey(store, host, key)
    BY DEF Verify, TofuStore
  <2>2. Unmarked(host, key, TRUE) \in Matching(store, host)
    BY <1>1, <2>1, HostKeysAssumption DEF PushKey, Unmarked, Matching
  <2>3. Unmarked(host, key, TRUE).marker = "ca"
    BY <2>2, CheckDecides
  <2> QED BY <2>3 DEF Unmarked
<1>3. /\ pc[c] = "presented"
      /\ decision' = [decision EXCEPT ![c] = d]
      /\ pc' = [pc EXCEPT ![c] = IF d = "Trusted" THEN "accepted" ELSE "refused"]
      /\ admitted' = IF d = "Trusted" THEN admitted \cup {peer[c]} ELSE admitted
      /\ UNCHANGED <<mode, copy, disk, peer, seen, origin, first, vouched>>
  BY <1>2 DEF Verify, TofuDecision
<1>4. d \in Decisions /\ (d = "Trusted" => Admits(store, host, key))
  BY CheckDecides
<1>5. TypeOK'
  BY <1>1, <1>3, <1>4 DEF HostKeysInv, TypeOK
<1>6. StoresSound'
  BY <1>3 DEF HostKeysInv, StoresSound, MarksKept, Sourced
<1>7. RefusalsStand' /\ ObservationAgrees'
  <2> SUFFICES ASSUME NEW b \in Handlers
               PROVE  /\ (pc'[b] = "refused" =>
                            /\ decision'[b] = Check(store, peer[b].host, peer[b].key)
                            /\ decision'[b] # "Trusted"
                            /\ mode = "tofu" => decision'[b] # "Unknown")
                      /\ (pc'[b] = "reported" => seen'[b] = decision'[b])
    BY <1>3 DEF RefusalsStand, ObservationAgrees
  <2>1. CASE b = c BY <1>2, <1>3, <2>1 DEF HostKeysInv, TypeOK
  <2>2. CASE b # c BY <1>3, <2>2 DEF HostKeysInv, TypeOK, ObservationAgrees
  <2> QED BY <2>1, <2>2
<1>8. AdmittedOnRecord' /\ FirstUseAlone'
  BY <1>3, <1>4 DEF HostKeysInv, AdmittedOnRecord, FirstUseAlone, Admits, Matching
<1>9. CASE d # "Trusted"
  <2>1. RevocationDurable' /\ TrustJustified' /\ FirstKeyPinned'
    BY <1>3, <1>9 DEF HostKeysInv, RevocationDurable, TrustJustified, FirstKeyPinned
  <2> QED
    BY <1>5, <1>6, <1>7, <1>8, <2>1 DEF HostKeysInv, StoresSound,
       RefusalsStand, FirstUseAlone, AdmittedOnRecord
<1>10. CASE d = "Trusted"
  <2>1. PICK e \in Matching(store, host) : e.marker = "none" /\ e.key = key
    BY <1>4, <1>10 DEF Admits
  <2>2. e \in store /\ host \in Covers[e.patterns]
    BY <2>1 DEF Matching
  <2>3. RevocationDurable'
    <3> SUFFICES ASSUME NEW r \in origin, r.marker = "revoked", r.key = key,
                        host \in Covers[r.patterns]
                 PROVE  FALSE
      BY <1>3 DEF HostKeysInv, RevocationDurable
    <3>1. r \in Matching(store, host)
      BY DEF HostKeysInv, MarksKept, Matching
    <3> QED BY <3>1, <1>10, CheckDecides
  <2>4. TrustJustified'
    <3>1. \/ e \in origin
          \/ e.patterns \in Hosts /\ [host |-> e.patterns, key |-> e.key] \in vouched
      BY <2>1, <2>2 DEF HostKeysInv, Sourced
    <3>2. e \notin origin => peer[c] \in vouched
      BY <1>1, <2>1, <2>2, <3>1, HostKeysAssumption DEF Peers
    <3> QED
      BY <1>3, <2>1, <2>2, <3>2 DEF HostKeysInv, TrustJustified
  <2>5. FirstKeyPinned'
    <3> SUFFICES ASSUME NEW p \in first, p.host = host PROVE p = peer[c]
      BY <1>3 DEF HostKeysInv, FirstKeyPinned
    <3>1. e.key = p.key
      BY <2>1 DEF HostKeysInv
    <3>2. p \in Peers
      BY DEF HostKeysInv, TypeOK
    <3>3. p = [host |-> p.host, key |-> p.key]
      BY <3>2 DEF Peers
    <3>4. peer[c] = [host |-> host, key |-> key]
      BY <1>1 DEF Peers
    <3> QED BY <2>1, <3>1, <3>3, <3>4
  <2> QED
    BY <1>5, <1>6, <1>7, <1>8, <2>3, <2>4, <2>5 DEF HostKeysInv, StoresSound,
       RefusalsStand, FirstUseAlone, AdmittedOnRecord
<1> QED BY <1>9, <1>10

\* verify() of a first-use verifier records the key of a new host.
LEMMA VerifyFirstUseInv ==
    ASSUME HostKeysInv, NEW c \in Handlers, Verify(c), store' # store
    PROVE  HostKeysInv'
<1> DEFINE host == peer[c].host
           key == peer[c].key
           new == Unmarked(host, key, TRUE)
<1>1. peer[c] \in Peers /\ host \in Hosts /\ key \in Keys
      /\ peer[c] = [host |-> host, key |-> key]
  BY DEF HostKeysInv, TypeOK, Peers
<1>2. mode = "tofu" /\ Check(store, host, key) = "Unknown"
  BY DEF Verify, TofuStore
<1>3. /\ pc[c] = "presented"
      /\ store' = store \cup {new}
      /\ decision' = [decision EXCEPT ![c] = "Trusted"]
      /\ pc' = [pc EXCEPT ![c] = "accepted"]
      /\ admitted' = admitted \cup {peer[c]}
      /\ first' = first \cup {peer[c]}
      /\ vouched' = vouched \cup {peer[c]}
      /\ UNCHANGED <<mode, copy, disk, peer, seen, origin>>
  BY <1>2 DEF Verify, TofuStore, TofuDecision, PushKey
<1>4. new \in Entries /\ new.patterns = host /\ new.marker = "none" /\ new.key = key
  BY <1>1, HostKeysAssumption DEF Unmarked, Entries, Markers
<1>5. \A e \in Matching(store, host) : e.marker = "ca"
  BY <1>2, CheckDecides
<1>6. Covers[host] = {host}
  BY <1>1, HostKeysAssumption
<1>7. TypeOK'
  BY <1>1, <1>3, <1>4 DEF HostKeysInv, TypeOK, Decisions
<1>8. StoresSound'
  <2>1. MarksKept(store)' /\ MarksKept(copy)' /\ MarksKept(disk)'
    BY <1>3, <1>4 DEF HostKeysInv, MarksKept
  <2>2. Sourced(store)' /\ Sourced(copy)' /\ Sourced(disk)'
    BY <1>1, <1>3, <1>4 DEF HostKeysInv, Sourced
  <2> QED BY <2>1, <2>2 DEF StoresSound
<1>9. RevocationDurable'
  <2> SUFFICES ASSUME NEW r \in origin, r.marker = "revoked", r.key = key,
                      host \in Covers[r.patterns]
               PROVE  FALSE
    BY <1>3 DEF HostKeysInv, RevocationDurable
  <2>1. r \in Matching(store, host)
    BY DEF HostKeysInv, MarksKept, Matching
  <2> QED BY <2>1, <1>5
<1>10. TrustJustified'
  BY <1>3 DEF HostKeysInv, TrustJustified
<1>11. AdmittedOnRecord'
  <2>1. new \in Matching(store', host)
    BY <1>3, <1>4, <1>6 DEF Matching
  <2>2. Admits(store', host, key)
    BY <2>1, <1>4 DEF Admits
  <2>3. \A p \in admitted : Admits(store', p.host, p.key)
    BY <1>3 DEF HostKeysInv, Admits, Matching
  <2> QED BY <1>3, <2>2, <2>3 DEF AdmittedOnRecord
<1>12. \A p \in admitted : p.host # host
  <2> SUFFICES ASSUME NEW p \in admitted, p.host = host PROVE FALSE
    OBVIOUS
  <2>1. PICK e \in Matching(store, host) : e.marker = "none"
    BY DEF HostKeysInv, Admits
  <2> QED BY <2>1, <1>5
<1>13. FirstUseAlone'
  <2> SUFFICES ASSUME NEW p \in first', NEW e \in Matching(store', p.host),
                      e.marker # "ca"
               PROVE  e.marker = "none" /\ e.key = p.key
    BY <1>3 DEF HostKeysInv, FirstUseAlone
  <2>1. CASE p.host = host
    <3>1. e = new
      BY <1>3, <1>5, <2>1 DEF Matching
    <3>2. p = peer[c]
      BY <1>3, <1>12, <2>1 DEF HostKeysInv
    <3> QED BY <1>4, <3>1, <3>2
  <2>2. CASE p.host # host
    <3>1. p \in first
      BY <1>3, <2>2
    <3>2. e \in Matching(store, p.host)
      BY <1>3, <1>4, <1>6, <2>2 DEF Matching
    <3> QED BY <3>1, <3>2 DEF HostKeysInv
  <2> QED BY <2>1, <2>2
<1>14. FirstKeyPinned'
  <2>1. \A p \in first' : p.host = host => p = peer[c]
    BY <1>3, <1>12 DEF HostKeysInv
  <2>2. \A q \in admitted' : q.host = host => q = peer[c]
    BY <1>3, <1>12
  <2>3. \A p \in first', q \in admitted' : p.host = q.host => p = q
    BY <1>3, <2>1, <2>2 DEF HostKeysInv, FirstKeyPinned
  <2> QED BY <2>3 DEF FirstKeyPinned
<1>15. RefusalsStand' /\ ObservationAgrees'
  <2> SUFFICES ASSUME NEW b \in Handlers
               PROVE  /\ (pc'[b] = "refused" =>
                            /\ decision'[b] = Check(store', peer[b].host, peer[b].key)
                            /\ decision'[b] # "Trusted"
                            /\ mode = "tofu" => decision'[b] # "Unknown")
                      /\ (pc'[b] = "reported" => seen'[b] = decision'[b])
    BY <1>3 DEF RefusalsStand, ObservationAgrees
  <2>1. CASE b = c BY <1>3, <2>1 DEF HostKeysInv, TypeOK
  <2>2. CASE b # c
    <3>1. pc'[b] = pc[b] /\ decision'[b] = decision[b] /\ seen'[b] = seen[b]
      BY <1>3, <2>2 DEF HostKeysInv, TypeOK
    <3>2. CASE pc[b] = "refused"
      <4>1. /\ decision[b] = Check(store, peer[b].host, peer[b].key)
            /\ decision[b] # "Trusted" /\ decision[b] # "Unknown"
        BY <1>2, <3>2 DEF HostKeysInv
      <4>2. peer[b].host \in Hosts
        BY DEF HostKeysInv, TypeOK, Peers
      <4>3. Check(PushKey(store, host, key), peer[b].host, peer[b].key)
              = Check(store, peer[b].host, peer[b].key)
        BY <1>1, <1>2, <4>1, <4>2, RefusalStands
      <4> QED BY <1>3, <3>1, <3>2, <4>1, <4>3 DEF PushKey
    <3>3. CASE pc[b] # "refused"
      BY <3>1, <3>3 DEF HostKeysInv, ObservationAgrees
    <3> QED BY <3>2, <3>3
  <2> QED BY <2>1, <2>2
<1> QED
  BY <1>7, <1>8, <1>9, <1>10, <1>11, <1>13, <1>14, <1>15 DEF HostKeysInv,
     StoresSound, RefusalsStand, FirstUseAlone, AdmittedOnRecord

\* The second look at the store.
LEMMA ObserveInv ==
    ASSUME HostKeysInv, NEW c \in Handlers, Observe(c)
    PROVE  HostKeysInv'
<1> USE DEF Observe, storeVars, history
<1>1. Check(store, peer[c].host, peer[c].key) \in Decisions
  BY CheckDecides
<1>2. TypeOK'
  BY <1>1 DEF HostKeysInv, TypeOK
<1>3. StoresSound' /\ RevocationDurable' /\ TrustJustified' /\ AdmittedOnRecord'
      /\ FirstUseAlone' /\ FirstKeyPinned'
  BY DEF HostKeysInv, StoresSound, MarksKept, Sourced, RevocationDurable,
     TrustJustified, AdmittedOnRecord, FirstUseAlone, FirstKeyPinned
<1>4. RefusalsStand' /\ ObservationAgrees'
  BY DEF HostKeysInv, TypeOK, RefusalsStand, ObservationAgrees
<1> QED
  BY <1>2, <1>3, <1>4 DEF HostKeysInv, StoresSound, RefusalsStand,
     FirstUseAlone, AdmittedOnRecord

\* A step of the application leaves the verifiers' store and the connections
\* alone: it has to keep the copy and the file sound.
LEMMA ApplicationInv ==
    ASSUME HostKeysInv,
           UNCHANGED <<mode, store, pc, peer, decision, seen, first, admitted,
                       origin>>,
           vouched \subseteq vouched', vouched' \subseteq Peers,
           copy' \subseteq Entries, disk' \subseteq Entries,
           MarksKept(copy'), MarksKept(disk'),
           Sourced(copy)', Sourced(disk)'
    PROVE  HostKeysInv'
<1>1. TypeOK'
  BY DEF HostKeysInv, TypeOK
<1>2. StoresSound'
  BY DEF HostKeysInv, StoresSound, MarksKept, Sourced
<1>3. RevocationDurable' /\ TrustJustified' /\ AdmittedOnRecord'
      /\ FirstUseAlone' /\ FirstKeyPinned'
  BY DEF HostKeysInv, RevocationDurable, TrustJustified, AdmittedOnRecord,
     FirstUseAlone, FirstKeyPinned
<1>4. RefusalsStand' /\ ObservationAgrees'
  BY DEF HostKeysInv, RefusalsStand, ObservationAgrees
<1> QED
  BY <1>1, <1>2, <1>3, <1>4 DEF HostKeysInv, StoresSound, RefusalsStand,
     FirstUseAlone, AdmittedOnRecord

\* insert, insert_key and accept_key add one unmarked entry, which the
\* application vouches for.
LEMMA EditInv ==
    ASSUME HostKeysInv, NEW host \in Hosts, NEW key \in Keys,
           NEW full \in BOOLEAN, NEW new,
           Edit(host, key, new),
           new \subseteq copy \cup {Unmarked(host, key, full)},
           MarksKept(new)
    PROVE  HostKeysInv'
<1> DEFINE entry == Unmarked(host, key, full)
           known == [host |-> host, key |-> key]
<1>1. /\ copy' = new /\ vouched' = vouched \cup {known}
      /\ UNCHANGED <<mode, store, disk, pc, peer, decision, seen, first,
                     admitted, origin>>
  BY DEF Edit, handlerVars
<1>2. entry \in Entries /\ entry.patterns = host /\ entry.key = key
  BY HostKeysAssumption DEF Unmarked, Entries, Markers
<1>3. vouched' \subseteq Peers /\ copy' \subseteq Entries /\ disk' \subseteq Entries
  BY <1>1, <1>2 DEF HostKeysInv, TypeOK, Peers
<1>4. Sourced(copy)'
  BY <1>1, <1>2 DEF HostKeysInv, Sourced
<1>5. Sourced(disk)' /\ MarksKept(disk')
  BY <1>1 DEF HostKeysInv, Sourced, MarksKept
<1> QED BY <1>1, <1>3, <1>4, <1>5, ApplicationInv

\* A new verifier, over the file or the application's copy, has admitted
\* nobody yet.
LEMMA NewVerifierInv ==
    ASSUME HostKeysInv, NEW s \in {copy, disk}, NewVerifier(s),
           mode' \in {"strict", "tofu"}
    PROVE  HostKeysInv'
<1> USE DEF NewVerifier
<1>1. TypeOK'
  <2>1. PICK p \in Peers : TRUE
    <3>1. PICK h \in Hosts : TRUE BY HostKeysAssumption
    <3>2. PICK k \in Keys : TRUE BY HostKeysAssumption
    <3>3. [host |-> h, key |-> k] \in Peers BY DEF Peers
    <3> QED BY <3>3
  <2>2. NoPeer \in [Handlers -> Peers]
    BY <2>1 DEF NoPeer
  <2> QED BY <2>2 DEF HostKeysInv, TypeOK, Idle, NoDecision, Decisions
<1>2. StoresSound'
  BY DEF HostKeysInv, StoresSound, MarksKept, Sourced
<1> QED
  BY <1>1, <1>2 DEF HostKeysInv, StoresSound, RevocationDurable,
     TrustJustified, FirstKeyPinned, ObservationAgrees, Idle

\* The invariant is kept by every step.
THEOREM NextHostKeysInv == HostKeysInv /\ [Next]_vars => HostKeysInv'
<1> SUFFICES ASSUME HostKeysInv, [Next]_vars PROVE HostKeysInv'
  OBVIOUS
<1>1. ASSUME NEW c \in Handlers, HandlerStep(c) PROVE HostKeysInv'
  <2>1. CASE \E host \in Hosts, key \in Keys : Present(c, host, key)
    BY <2>1, PresentInv
  <2>2. CASE Verify(c)
    BY <2>2, VerifyKnownInv, VerifyFirstUseInv
  <2>3. CASE Observe(c)
    BY <2>3, ObserveInv
  <2> QED BY <1>1, <2>1, <2>2, <2>3 DEF HandlerStep
<1>2. CASE Snapshot
  BY <1>2, ApplicationInv DEF Snapshot, handlerVars, history, HostKeysInv,
     TypeOK, MarksKept, Sourced
<1>3. CASE EditStep
  <2>1. PICK host \in Hosts, key \in Keys :
          Insert(host, key) \/ InsertKey(host, key) \/ AcceptKey(host, key)
    BY <1>3, HostKeysAssumption DEF EditStep
  <2>2. MarksKept(copy)
    BY DEF HostKeysInv
  <2>3. CASE Insert(host, key)
    BY <2>2, <2>3, EditsKeepMarks, EditInv DEF Insert, ReplaceEntry
  <2>4. CASE InsertKey(host, key)
    BY <2>2, <2>4, EditsKeepMarks, EditInv DEF InsertKey, ReplaceEntry
  <2>5. CASE AcceptKey(host, key)
    BY <2>2, <2>5, EditsKeepMarks, EditInv DEF AcceptKey, PushKey
  <2> QED BY <2>1, <2>3, <2>4, <2>5
<1>4. CASE Save
  <2>1. MarksKept(Render(copy))
    BY RenderKeepsMarks DEF HostKeysInv, TypeOK
  <2>2. Render(copy) \subseteq copy
    BY DEF Render
  <2> QED
    BY <1>4, <2>1, <2>2, ApplicationInv DEF Save, handlerVars, history,
       HostKeysInv, TypeOK, Sourced
<1>5. CASE Restart \/ \E verifier \in {"strict", "tofu"} : Use(verifier)
  <2>1. mode' \in {"strict", "tofu"}
    BY <1>5 DEF Restart, Use, HostKeysInv, TypeOK
  <2>2. NewVerifier(disk) \/ NewVerifier(copy)
    BY <1>5 DEF Restart, Use
  <2> QED BY <2>1, <2>2, NewVerifierInv
<1>6. CASE UNCHANGED vars
  BY <1>6, ApplicationInv DEF vars, storeVars, handlerVars, history,
     HostKeysInv, TypeOK, MarksKept, Sourced
<1> QED BY <1>1, <1>2, <1>3, <1>4, <1>5, <1>6 DEF Next

-----------------------------------------------------------------------------
\* The invariant holds in every reachable state, for any constants.
THEOREM HostKeysInvariant == Spec => []HostKeysInv
BY InitHostKeysInv, NextHostKeysInv, PTL DEF Spec

\* No first use, insert, save, crash or restart lets in a key that the file
\* marked @revoked.
THEOREM RevocationHolds == Spec => []RevocationDurable
<1>1. HostKeysInv => RevocationDurable BY DEF HostKeysInv
<1> QED BY <1>1, HostKeysInvariant, PTL

\* Of connections to a new host that race with different keys, one key wins.
THEOREM FirstKeyWins == Spec => []FirstKeyPinned
<1>1. HostKeysInv => FirstKeyPinned BY DEF HostKeysInv
<1> QED BY <1>1, HostKeysInvariant, PTL

\* Trust comes from an unmarked line, an insert or a first use.
THEOREM TrustHasSource == Spec => []TrustJustified
<1>1. HostKeysInv => TrustJustified BY DEF HostKeysInv
<1> QED BY <1>1, HostKeysInvariant, PTL

\* The report of a refusal agrees with the refusal, although it looks again.
THEOREM ReportAgrees == Spec => []ObservationAgrees
<1>1. HostKeysInv => ObservationAgrees BY DEF HostKeysInv
<1> QED BY <1>1, HostKeysInvariant, PTL
=============================================================================
