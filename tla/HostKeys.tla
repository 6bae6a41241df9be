------------------------------ MODULE HostKeys ------------------------------
(***************************************************************************)
(* Host key verification: KnownHosts, KnownHostKeyVerifier and             *)
(* TofuHostKeyVerifier of core/host_key.rs, as the check_server_key        *)
(* callback of core/session.rs uses them from several connections at once, *)
(* and the life of the store around them: snapshot, edit, save, restart.   *)
(*                                                                         *)
(* A store is a set of entries: neither the order of entries nor their     *)
(* line numbers reach a decision.  A pattern is a name with the hosts it   *)
(* matches (wildcards, negation and hashing are in Covers), a key stands   *)
(* for its SHA-256 fingerprint.  Reading and writing the file is the       *)
(* application's, external; what it writes is to_openssh()'s text.         *)
(***************************************************************************)
EXTENDS Naturals

CONSTANTS Handlers,   \* connections whose server key is being checked
          Hosts,      \* host_token(host, port) of the servers
          Keys,       \* server public keys
          Patterns,   \* host_patterns fields, the plain tokens included
          Covers,     \* Covers[p]: the hosts that pattern p matches
          Edits,      \* hosts and keys that the application may insert
          Files       \* known_hosts files the program may start from

Markers == {"none", "ca", "revoked"}
Entries == [patterns : Patterns, marker : Markers, key : Keys, full : BOOLEAN]

\* A plain token matches its host only; a file holds whole public keys.
ASSUME HostKeysAssumption ==
    /\ Hosts # {} /\ Keys # {}
    /\ Hosts \subseteq Patterns
    /\ Covers \in [Patterns -> SUBSET Hosts]
    /\ \A h \in Hosts : Covers[h] = {h}
    /\ Edits \subseteq [host : Hosts, key : Keys]
    /\ Files \subseteq SUBSET Entries
    /\ \A f \in Files : \A e \in f : e.full

VARIABLES mode,      \* which verifier the sessions share
          store,     \* the entries behind its RwLock
          copy,      \* a KnownHostKeyVerifier of the application
          disk,      \* the known_hosts file
          pc,        \* pc[c]: where handler c is in check_server_key
          peer,      \* peer[c]: the host and the key it was called with
          decision,  \* decision[c]: what verify returned
          seen,      \* seen[c]: what check returned for the error report
          first,     \* history: keys this verifier recorded on first use
          admitted,  \* history: connections this verifier admitted
          vouched,   \* history: keys the application inserted, or that were
                     \* recorded on first use, in this process or earlier
          origin     \* history: the file the first process started from

storeVars == <<mode, store, copy, disk>>
handlerVars == <<pc, peer, decision, seen>>
history == <<first, admitted, vouched, origin>>
vars == <<storeVars, handlerVars, history>>

Decisions == {"Trusted", "Unknown", "Changed", "Revoked"}
Peers == [host : Hosts, key : Keys]

TypeOK ==
    /\ mode \in {"strict", "tofu"}
    /\ store \subseteq Entries
    /\ copy \subseteq Entries
    /\ disk \subseteq Entries
    /\ pc \in [Handlers -> {"idle", "presented", "refused", "reported", "accepted"}]
    /\ peer \in [Handlers -> Peers]
    /\ decision \in [Handlers -> Decisions]
    /\ seen \in [Handlers -> Decisions]
    /\ first \subseteq Peers
    /\ admitted \subseteq Peers
    /\ vouched \subseteq Peers
    /\ origin \in Files

-----------------------------------------------------------------------------
(* Mutated forms of the operations, each a plausible slip in this code.    *)

Matching(s, host) == {e \in s : host \in Covers[e.patterns]}

\* check() returns at the first entry with the presented key.
CheckTrustedFirst(s, host, key) ==
    LET m == Matching(s, host) IN
    IF \E e \in m : e.marker = "none" /\ e.key = key
      THEN "Trusted"
    ELSE IF \E e \in m : e.marker = "revoked" /\ e.key = key
      THEN "Revoked"
    ELSE IF \E e \in m : e.marker # "ca"
      THEN "Changed"
    ELSE "Unknown"

\* check() skips every entry but the CA ones instead of the CA ones.
CheckAuthorityInverted(s, host, key) ==
    LET m == Matching(s, host) IN
    IF \E e \in m : e.marker = "revoked" /\ e.key = key
      THEN "Revoked"
    ELSE IF \E e \in m : e.marker = "none" /\ e.key = key
      THEN "Trusted"
    ELSE IF \E e \in m : e.marker = "ca"
      THEN "Changed"
    ELSE "Unknown"

\* to_line forgets the marker.
RenderUnmarked(s) == {[e EXCEPT !.marker = "none"] : e \in {x \in s : x.full}}

\* push_key writes the widest pattern of the host, as a token without its
\* port would be.
PushKeyWide(s, host, key) ==
    LET wide == CHOOSE p \in Patterns : \A q \in Patterns :
                    host \in Covers[q] => Covers[q] \subseteq Covers[p] IN
    s \cup {[patterns |-> wide, marker |-> "none", key |-> key, full |-> TRUE]}

-----------------------------------------------------------------------------
(* KnownHosts and KnownHostKeyVerifier *)

\* A revoked match wins over a trusted one wherever it stands; CA entries
\* are passed over; any other entry of the host makes an unlisted key one
\* that changed.
Check(s, host, key) ==
    LET m == Matching(s, host) IN
    IF \E e \in m : e.marker = "revoked" /\ e.key = key
      THEN "Revoked"
    ELSE IF \E e \in m : e.marker = "none" /\ e.key = key
      THEN "Trusted"
    ELSE IF \E e \in m : e.marker # "ca"
      THEN "Changed"
    ELSE "Unknown"

Unmarked(host, key, full) ==
    [patterns |-> host, marker |-> "none", key |-> key, full |-> full]

PushKey(s, host, key) == s \cup {Unmarked(host, key, TRUE)}

ReplaceEntry(s, entry) ==
    {e \in s : e.marker # "none" \/ e.patterns # entry.patterns} \cup {entry}

\* to_openssh, and parse of what it wrote: entries without a public key have
\* no line.
Render(s) == {e \in s : e.full}

\* TofuHostKeyVerifier::verify, under the write lock throughout.
TofuStore(s, host, key) ==
    IF Check(s, host, key) = "Unknown" THEN PushKey(s, host, key) ELSE s
TofuDecision(s, host, key) ==
    IF Check(s, host, key) = "Unknown" THEN "Trusted" ELSE Check(s, host, key)

-----------------------------------------------------------------------------
Idle == [c \in Handlers |-> "idle"]
NoPeer == [c \in Handlers |-> CHOOSE p \in Peers : TRUE]
NoDecision == [c \in Handlers |-> "Unknown"]

Init ==
    /\ mode \in {"strict", "tofu"}
    /\ disk \in Files
    /\ store = disk
    /\ copy = disk
    /\ pc = Idle
    /\ peer = NoPeer
    /\ decision = NoDecision
    /\ seen = NoDecision
    /\ first = {}
    /\ admitted = {}
    /\ vouched = {}
    /\ origin = disk

(* check_server_key of one connection *)

Present(c, host, key) ==
    /\ pc[c] \in {"idle", "reported", "accepted"}
    /\ pc' = [pc EXCEPT ![c] = "presented"]
    /\ peer' = [peer EXCEPT ![c] = [host |-> host, key |-> key]]
    /\ decision' = [decision EXCEPT ![c] = "Unknown"]
    /\ seen' = [seen EXCEPT ![c] = "Unknown"]
    /\ UNCHANGED <<storeVars, history>>

Verify(c) ==
    LET host == peer[c].host
        key == peer[c].key
        d == IF mode = "tofu" THEN TofuDecision(store, host, key)
                              ELSE Check(store, host, key) IN
    /\ pc[c] = "presented"
    /\ decision' = [decision EXCEPT ![c] = d]
    /\ store' = IF mode = "tofu" THEN TofuStore(store, host, key) ELSE store
    /\ IF store' # store THEN /\ first' = first \cup {peer[c]}
                              /\ vouched' = vouched \cup {peer[c]}
                         ELSE UNCHANGED <<first, vouched>>
    /\ pc' = [pc EXCEPT ![c] = IF d = "Trusted" THEN "accepted" ELSE "refused"]
    /\ admitted' = IF d = "Trusted" THEN admitted \cup {peer[c]} ELSE admitted
    /\ UNCHANGED <<mode, copy, disk, peer, seen, origin>>

\* A refusal is reported with a second look at the store, under a lock of
\* its own; other connections may have been verified in between.
Observe(c) ==
    /\ pc[c] = "refused"
    /\ seen' = [seen EXCEPT ![c] = Check(store, peer[c].host, peer[c].key)]
    /\ pc' = [pc EXCEPT ![c] = "reported"]
    /\ UNCHANGED <<storeVars, peer, decision, history>>

(* The application *)

Snapshot ==
    /\ copy' = store
    /\ UNCHANGED <<mode, store, disk, handlerVars, history>>

Edit(host, key, new) ==
    /\ copy' = new
    /\ vouched' = vouched \cup {[host |-> host, key |-> key]}
    /\ UNCHANGED <<mode, store, disk, handlerVars, first, admitted, origin>>

Insert(host, key) ==
    Edit(host, key, ReplaceEntry(copy, Unmarked(host, key, FALSE)))
InsertKey(host, key) ==
    Edit(host, key, ReplaceEntry(copy, Unmarked(host, key, TRUE)))
AcceptKey(host, key) ==
    Edit(host, key, PushKey(copy, host, key))

Save ==
    /\ disk' = Render(copy)
    /\ UNCHANGED <<mode, store, copy, handlerVars, history>>

\* A verifier over the entries s, and no connection that uses it yet.
NewVerifier(s) ==
    /\ store' = s
    /\ copy' = s
    /\ pc' = Idle
    /\ peer' = NoPeer
    /\ decision' = NoDecision
    /\ seen' = NoDecision
    /\ first' = {}
    /\ admitted' = {}
    /\ UNCHANGED <<disk, vouched, origin>>

\* The application gives its copy to the connections to come, as it is or
\* inside TofuHostKeyVerifier::new.  Those under way go on with the verifier
\* they have and touch nothing of the new one, so they are left out.
Use(verifier) ==
    /\ NewVerifier(copy)
    /\ mode' = verifier

\* The process ends, or crashes, at any point; the next one reads the file.
Restart ==
    /\ NewVerifier(disk)
    /\ UNCHANGED mode

HandlerStep(c) == \/ \E host \in Hosts, key \in Keys : Present(c, host, key)
                  \/ Verify(c)
                  \/ Observe(c)

EditStep == \E e \in Edits : \/ Insert(e.host, e.key)
                             \/ InsertKey(e.host, e.key)
                             \/ AcceptKey(e.host, e.key)

Next == \/ \E c \in Handlers : HandlerStep(c)
        \/ Snapshot \/ EditStep \/ Save \/ Restart
        \/ \E verifier \in {"strict", "tofu"} : Use(verifier)

Spec == Init /\ [][Next]_vars

-----------------------------------------------------------------------------
(* Properties *)

\* "A changed or revoked key is never accepted automatically"
\* (TofuHostKeyVerifier), nor a revoked one by any other way: no sequence of
\* first uses, inserts, snapshots, saves and restarts lets a connection in
\* with a key that the known_hosts file had marked @revoked for its host.
RevocationDurable ==
    \A p \in admitted, e \in origin :
        ~ (e.marker = "revoked" /\ e.key = p.key /\ p.host \in Covers[e.patterns])

\* "The first key for a host is recorded and trusted": of connections to a
\* new host that are verified at the same time with different keys, those
\* with one key only are let in, and no other key is by that verifier.
FirstKeyPinned ==
    \A p \in first, q \in admitted : p.host = q.host => p = q

\* Trust has three sources only: an unmarked line of the file, an insert by
\* the application, and first use.  A @cert-authority line is not one
\* (README: it is kept as a marker), not even after the store was rewritten.
TrustJustified ==
    \A p \in admitted :
        \/ p \in vouched
        \/ \E e \in origin : /\ e.marker = "none"
                            /\ e.key = p.key
                            /\ p.host \in Covers[e.patterns]

\* The observation attached to a refusal comes from a second look at the
\* store; whatever other connections recorded in between, it agrees with the
\* decision it is reported with (README: the error carries the same
\* structured information).
ObservationAgrees ==
    \A c \in Handlers : pc[c] = "reported" => seen[c] = decision[c]

\* The inductive invariant: marked lines are those of the original file, in
\* every copy of the store; an unmarked entry has a source; an admitted key is
\* on record; a host recorded on first use has no other key; and a refusal
\* that is being reported still stands.
Admits(s, host, key) ==
    \E e \in Matching(s, host) : e.marker = "none" /\ e.key = key

MarksKept(s) == {e \in s : e.marker # "none"} = {e \in origin : e.marker # "none"}

Sourced(s) ==
    \A e \in s : e.marker = "none" =>
        \/ e \in origin
        \/ e.patterns \in Hosts /\ [host |-> e.patterns, key |-> e.key] \in vouched

HostKeysInv ==
    /\ TypeOK
    /\ MarksKept(store) /\ MarksKept(copy) /\ MarksKept(disk)
    /\ Sourced(store) /\ Sourced(copy) /\ Sourced(disk)
    /\ RevocationDurable
    /\ TrustJustified
    /\ \A p \in admitted : Admits(store, p.host, p.key)
    /\ first \subseteq admitted
    /\ \A p \in first : \A e \in Matching(store, p.host) :
          e.marker # "ca" => e.marker = "none" /\ e.key = p.key
    /\ FirstKeyPinned
    /\ \A c \in Handlers : pc[c] = "refused" =>
          /\ decision[c] = Check(store, peer[c].host, peer[c].key)
          /\ decision[c] # "Trusted"
          /\ mode = "tofu" => decision[c] # "Unknown"
    /\ ObservationAgrees
=============================================================================
