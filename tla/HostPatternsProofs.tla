------------------------- MODULE HostPatternsProofs -------------------------
(***************************************************************************)
(* Proofs about HostPatterns, for every alphabet, list and host: the table *)
(* of glob_match() says what the pattern means, host_patterns_match() is   *)
(* OpenSSH's rule, and what is recorded for a host covers that host only.  *)
(*                                                                         *)
(* What the proofs need of the naturals is that a set of them has a least  *)
(* member.                                                                 *)
(***************************************************************************)
EXTENDS HostPatterns, WellFoundedInduction, TLAPS

-----------------------------------------------------------------------------
(* Cuts *)

Less == {pair \in Nat \X Nat : pair[1] < pair[2]}

\* A nonempty set of naturals has a least member.
LEMMA Least ==
  ASSUME NEW S \in SUBSET Nat, S # {}
  PROVE  \E x \in S : \A y \in S : x <= y
<1>1. IsWellFoundedOn(Less, Nat)
  BY NatLessThanWellFounded DEF OpToRel, Less
<1>2. PICK x \in S : \A y \in S : <<y, x>> \notin Less
  BY <1>1, WFMin
<1>3. ASSUME NEW y \in S PROVE x <= y
  <2>1. <<y, x>> \in Nat \X Nat /\ <<y, x>>[1] = y /\ <<y, x>>[2] = x
    OBVIOUS
  <2>2. ~(y < x)
    BY <1>2, <2>1 DEF Less
  <2> QED BY <2>2
<1> QED BY <1>3

\* Where each piece starts no earlier than the one before ended, no piece
\* ends after the last.
LEMMA Monotone ==
  ASSUME NEW h \in Nat, h > 0, NEW w \in Nat, NEW cut \in [1..h -> 0..w],
         \A r \in 2..h : cut[r - 1] <= cut[r]
  PROVE  \A r \in 1..h : cut[r] <= cut[h]
<1> DEFINE Late == {n \in 0..h - 1 : cut[h - n] > cut[h]}
<1>1. SUFFICES ASSUME Late # {} PROVE FALSE
  <2>1. ASSUME NEW r \in 1..h PROVE cut[r] <= cut[h]
    <3>1. h - r \in 0..h - 1 /\ h - (h - r) = r
      OBVIOUS
    <3>2. ~(cut[r] > cut[h])
      BY <3>1, <1>1
    <3> QED BY <3>2
  <2> QED BY <2>1
<1>2. PICK n \in Late : \A m \in Late : n <= m
  <2>1. Late \in SUBSET Nat
    OBVIOUS
  <2> HIDE DEF Late
  <2> QED BY <1>1, <2>1, Least
<1>3. n # 0
  BY <1>2
<1>4. n - 1 \notin Late /\ n - 1 \in 0..h - 1
  <2>1. n \in Nat /\ n - 1 \in 0..h - 1 /\ ~(n <= n - 1)
    BY <1>3
  <2> HIDE DEF Late
  <2> QED BY <1>2, <2>1
<1>5. cut[h - n + 1] <= cut[h]
  <2>1. h - (n - 1) = h - n + 1 /\ h - n + 1 \in 1..h
    BY <1>2, <1>3
  <2> QED BY <1>4, <2>1
<1>6. cut[h - n] <= cut[h - n + 1]
  <2>1. h - n + 1 \in 2..h /\ (h - n + 1) - 1 = h - n
    BY <1>2, <1>3
  <2> QED BY <2>1
<1>7. cut[h - n] \in 0..w /\ cut[h - n + 1] \in 0..w /\ cut[h] \in 0..w
  BY <1>2, <1>3
<1> QED BY <1>2, <1>5, <1>6, <1>7

\* One more character: a star takes any piece, another character the one
\* that it stands for.
Extends(p, r, c, w) ==
    IF p[r + 1] = "*" THEN \E v \in 0..w : Matches(p, r, c, v)
    ELSE /\ w > 0 /\ Matches(p, r, c, w - 1)
         /\ p[r + 1] = "?" \/ p[r + 1] = c[w]

\* A match of one more character ends where the match without it ended, or
\* after it.
LEMMA Shorten ==
  ASSUME NEW p, NEW c, NEW r \in Nat, NEW w \in Nat, Matches(p, r + 1, c, w)
  PROVE  Extends(p, r, c, w)
<1>1. PICK cut \in [1..r + 1 -> 0..w] :
        cut[r + 1] = w /\ \A q \in 1..r + 1 : Fits(p, c, cut, q)
  BY DEF Matches
<1> DEFINE v == IF r = 0 THEN 0 ELSE cut[r]
<1>2. v \in 0..w
  BY <1>1
<1>3. IF p[r + 1] = "*" THEN v <= w
      ELSE w = v + 1 /\ (p[r + 1] = "?" \/ p[r + 1] = c[w])
  <2>1. Fits(p, c, cut, r + 1)
    BY <1>1
  <2> QED BY <1>1, <2>1 DEF Fits
<1>4. Matches(p, r, c, v)
  <2>1. CASE r = 0
    BY <2>1 DEF Matches
  <2>2. CASE r # 0
    <3> DEFINE short == [q \in 1..r |-> cut[q]]
    <3>1. ASSUME NEW q \in 2..r PROVE short[q - 1] <= short[q]
      <4>1. Fits(p, c, cut, q)
        BY <1>1
      <4>2. q - 1 \in 1..r /\ q \in 1..r /\ q # 1
        BY <3>1
      <4>3. cut[q - 1] \in 0..w /\ cut[q] \in 0..w
        BY <4>2, <1>1
      <4>4. cut[q - 1] <= cut[q]
        BY <4>1, <4>2, <4>3 DEF Fits
      <4> QED BY <4>2, <4>4
    <3>2. short \in [1..r -> 0..w] /\ short[r] = v
      BY <1>1, <2>2
    <3>3. \A q \in 1..r : short[q] <= v
      <4> HIDE DEF short, v
      <4>1. r > 0 /\ \A q \in 2..r : short[q - 1] <= short[q]
        BY <2>2, <3>1
      <4>2. \A q \in 1..r : short[q] <= short[r]
        BY <3>2, <4>1, Monotone
      <4> QED BY <3>2, <4>2
    <3>4. short \in [1..r -> 0..v]
      BY <1>2, <3>2, <3>3
    <3>5. ASSUME NEW q \in 1..r PROVE Fits(p, c, short, q)
      <4>1. Fits(p, c, cut, q)
        BY <1>1
      <4>2. short[q] = cut[q] /\ (q # 1 => short[q - 1] = cut[q - 1])
        OBVIOUS
      <4> HIDE DEF short, v
      <4> QED BY <4>1, <4>2 DEF Fits
    <3> HIDE DEF short, v
    <3> QED BY <2>2, <3>2, <3>4, <3>5 DEF Matches
  <2> QED BY <2>1, <2>2
<1> HIDE DEF v
<1> QED BY <1>2, <1>3, <1>4 DEF Extends

\* The match without the last character, and the piece this one takes.
LEMMA Lengthen ==
  ASSUME NEW p, NEW c, NEW r \in Nat, NEW w \in Nat, NEW v \in 0..w,
         Matches(p, r, c, v),
         IF p[r + 1] = "*" THEN v <= w
         ELSE w = v + 1 /\ (p[r + 1] = "?" \/ p[r + 1] = c[w])
  PROVE  Matches(p, r + 1, c, w)
<1>1. CASE r = 0
  <2> DEFINE cut == [q \in 1..1 |-> w]
  <2>1. cut \in [1..r + 1 -> 0..w] /\ cut[r + 1] = w
    BY <1>1
  <2>2. v = 0
    BY <1>1 DEF Matches
  <2>3. ASSUME NEW q \in 1..r + 1 PROVE Fits(p, c, cut, q)
    <3>1. q = 1 /\ cut[q] = w
      BY <1>1
    <3> HIDE DEF cut
    <3> QED BY <1>1, <2>2, <3>1 DEF Fits
  <2> HIDE DEF cut
  <2> QED BY <2>1, <2>3 DEF Matches
<1>2. CASE r # 0
  <2>1. PICK short \in [1..r -> 0..v] :
          short[r] = v /\ \A q \in 1..r : Fits(p, c, short, q)
    BY <1>2 DEF Matches
  <2> DEFINE cut == [q \in 1..r + 1 |-> IF q = r + 1 THEN w ELSE short[q]]
  <2>2. cut \in [1..r + 1 -> 0..w] /\ cut[r + 1] = w
    BY <2>1
  <2>3. ASSUME NEW q \in 1..r + 1 PROVE Fits(p, c, cut, q)
    <3>1. CASE q = r + 1
      <4>1. cut[q] = w /\ cut[q - 1] = v /\ q # 1
        BY <1>2, <2>1, <3>1
      <4> HIDE DEF cut
      <4> QED BY <3>1, <4>1 DEF Fits
    <3>2. CASE q # r + 1
      <4>1. Fits(p, c, short, q)
        BY <2>1, <3>2
      <4>2. cut[q] = short[q] /\ (q # 1 => cut[q - 1] = short[q - 1])
        BY <3>2
      <4> HIDE DEF cut
      <4> QED BY <4>1, <4>2 DEF Fits
    <3> QED BY <3>1, <3>2
  <2> HIDE DEF cut
  <2> QED BY <2>2, <2>3 DEF Matches
<1> QED BY <1>1, <1>2

\* What a pattern means, character by character.
LEMMA Recurrence ==
  ASSUME NEW p, NEW c, NEW r \in Nat, NEW w \in Nat
  PROVE  Matches(p, r + 1, c, w) <=> Extends(p, r, c, w)
<1>1. ASSUME Extends(p, r, c, w) PROVE Matches(p, r + 1, c, w)
  <2>1. PICK v \in 0..w :
          /\ Matches(p, r, c, v)
          /\ IF p[r + 1] = "*" THEN v <= w
             ELSE w = v + 1 /\ (p[r + 1] = "?" \/ p[r + 1] = c[w])
    <3>1. CASE p[r + 1] = "*"
      BY <1>1, <3>1 DEF Extends
    <3>2. CASE p[r + 1] # "*"
      <4>1. w - 1 \in 0..w /\ w = (w - 1) + 1
        BY <1>1, <3>2 DEF Extends
      <4> QED BY <1>1, <3>2, <4>1 DEF Extends
    <3> QED BY <3>1, <3>2
  <2> QED BY <2>1, Lengthen
<1> QED BY <1>1, Shorten

-----------------------------------------------------------------------------
(* The table *)

Tables(p, c) == [0..Len(p) -> [0..Len(c) -> BOOLEAN]]

\* What one turn of the inner loop may mark, cell by cell.
Marked(t, p, r, c, k, q, w) ==
    /\ t[r][k]
    /\ IF p[r + 1] = "*" THEN (q = r + 1 /\ w = k) \/ (q = r /\ w = k + 1)
       ELSE p[r + 1] \in {"?", c[k + 1]} /\ q = r + 1 /\ w = k + 1

Turn(t, u, p, r, c, k) ==
    \A q \in 0..Len(p), w \in 0..Len(c) :
        u[q][w] <=> t[q][w] \/ Marked(t, p, r, c, k, q, w)

\* A row that is right, with nothing marked below it, is one to scan from
\* its first column.
LEMMA Fresh ==
  ASSUME NEW p \in Text, NEW c \in Text, NEW r \in 0..Len(p), NEW t,
         \A w \in 0..Len(c) : t[r][w] <=> Matches(p, r, c, w),
         \A q \in r + 1..Len(p) : \A w \in 0..Len(c) : ~t[q][w]
  PROVE  Scanned(t, p, r, c, 0)
<1>1. RowDone(t, p, r, c)
  BY DEF RowDone
<1>2. ASSUME r < Len(p)
      PROVE  /\ StarSpread(t, p, r, c, 0)
             /\ RowBelow(t, p, r, c, 0)
             /\ \A q \in r + 2..Len(p) : \A w \in 0..Len(c) : ~t[q][w]
  <2>1. StarSpread(t, p, r, c, 0)
    <3>1. Len(c) \in Nat /\ 0 \in 0..Len(c)
      BY DEF Text
    <3>2. \A w \in 0..0 : w = 0
      OBVIOUS
    <3> QED BY <3>1, <3>2 DEF StarSpread
  <2>2. RowBelow(t, p, r, c, 0)
    <3>1. SUFFICES ASSUME NEW w \in 0..Len(c), Matches(p, r + 1, c, w),
                          Source(p, r, w) < 0
                   PROVE  FALSE
      <4>1. r + 1 \in r + 1..Len(p)
        BY <1>2 DEF Text
      <4> QED BY <4>1 DEF RowBelow
    <3>2. Extends(p, r, c, w)
      BY <3>1, Recurrence
    <3> QED BY <3>1, <3>2 DEF Extends, Source
  <2>3. \A q \in r + 2..Len(p) : \A w \in 0..Len(c) : ~t[q][w]
    BY DEF Text
  <2> QED BY <2>1, <2>2, <2>3
<1> QED BY <1>1, <1>2 DEF Scanned

\* What a row that a star scans has to the left of the scan, and one that
\* another character scans has everywhere.
LEMMA RowMeant ==
  ASSUME NEW p \in Text, NEW c \in Text, NEW r \in Nat, r < Len(p),
         NEW k \in 0..Len(c), NEW t, Scanned(t, p, r, c, k)
  PROVE  /\ p[r + 1] = "*" =>
               (t[r][k] <=> \E v \in 0..k : Matches(p, r, c, v))
         /\ p[r + 1] # "*" =>
               \A w \in 0..Len(c) : t[r][w] <=> Matches(p, r, c, w)
BY DEF Scanned, StarSpread, RowDone, StarReach

\* The row below after a turn: one cell more of it is right.
LEMMA TurnBelow ==
  ASSUME NEW p \in Text, NEW c \in Text, NEW r \in Nat, r < Len(p),
         NEW k \in 0..Len(c), NEW t, NEW u,
         Scanned(t, p, r, c, k), Turn(t, u, p, r, c, k),
         NEW w \in 0..Len(c)
  PROVE  u[r + 1][w] <=> Matches(p, r + 1, c, w) /\ Source(p, r, w) < k + 1
<1>1. Matches(p, r + 1, c, w) <=> Extends(p, r, c, w)
  BY Recurrence
<1>2. t[r + 1][w] <=> Matches(p, r + 1, c, w) /\ Source(p, r, w) < k
  BY DEF Scanned, RowBelow
<1>3. u[r + 1][w] <=> t[r + 1][w] \/ Marked(t, p, r, c, k, r + 1, w)
  <2>1. r + 1 \in 0..Len(p)
    BY DEF Text
  <2> QED BY <2>1 DEF Turn
<1>4. Marked(t, p, r, c, k, r + 1, w) <=>
        Matches(p, r + 1, c, w) /\ Source(p, r, w) = k
  <2>1. CASE p[r + 1] = "*"
    <3>1. Marked(t, p, r, c, k, r + 1, w) <=> t[r][k] /\ w = k
      BY <2>1 DEF Marked
    <3> QED BY <1>1, <2>1, <3>1, RowMeant DEF Extends, Source
  <2>2. CASE p[r + 1] # "*"
    <3>1. Marked(t, p, r, c, k, r + 1, w) <=>
            t[r][k] /\ w = k + 1 /\ p[r + 1] \in {"?", c[w]}
      BY <2>2 DEF Marked
    <3>2. t[r][k] <=> Matches(p, r, c, k)
      BY <2>2, RowMeant
    <3> QED BY <1>1, <2>2, <3>1, <3>2 DEF Extends, Source
  <2> QED BY <2>1, <2>2
<1>5. Source(p, r, w) < k + 1 <=> Source(p, r, w) < k \/ Source(p, r, w) = k
  BY DEF Source
<1> QED BY <1>2, <1>3, <1>4, <1>5

\* A turn that is not the last of its row.
LEMMA TurnInner ==
  ASSUME NEW p \in Text, NEW c \in Text, NEW r \in Nat, r < Len(p),
         NEW k \in 0..Len(c), k < Len(c), NEW t, NEW u,
         Scanned(t, p, r, c, k), Turn(t, u, p, r, c, k)
  PROVE  Scanned(u, p, r, c, k + 1)
<1>0. Len(c) \in Nat /\ Len(p) \in Nat /\ r \in 0..Len(p)
  BY DEF Text
<1>1. \A w \in 0..Len(c) :
        u[r][w] <=> t[r][w] \/ (t[r][k] /\ p[r + 1] = "*" /\ w = k + 1)
  BY <1>0 DEF Turn, Marked
<1>2. RowDone(u, p, r, c)
  <2>1. SUFFICES ASSUME NEW w \in 0..Len(c)
                 PROVE  /\ Matches(p, r, c, w) => u[r][w]
                        /\ u[r][w] => \/ Matches(p, r, c, w)
                                      \/ StarReach(p, r, c, w)
    BY DEF RowDone
  <2>2. /\ Matches(p, r, c, w) => t[r][w]
        /\ t[r][w] => Matches(p, r, c, w) \/ StarReach(p, r, c, w)
    BY DEF Scanned, RowDone
  <2>3. t[r][k] /\ p[r + 1] = "*" /\ w = k + 1 => StarReach(p, r, c, w)
    BY RowMeant DEF StarReach
  <2> QED BY <1>1, <2>2, <2>3
<1>3. StarSpread(u, p, r, c, k + 1)
  <2>1. SUFFICES ASSUME p[r + 1] = "*", NEW w \in 0..k + 1
                 PROVE  u[r][w] <=> \E v \in 0..w : Matches(p, r, c, v)
    BY DEF StarSpread
  <2>2. w \in 0..Len(c)
    BY <1>0
  <2>3. CASE w # k + 1
    BY <1>1, <2>1, <2>2, <2>3 DEF Scanned, StarSpread
  <2>4. CASE w = k + 1
    <3>1. /\ Matches(p, r, c, w) => t[r][w]
          /\ t[r][w] => Matches(p, r, c, w) \/ StarReach(p, r, c, w)
      BY <2>2 DEF Scanned, RowDone
    <3>2. t[r][k] <=> \E v \in 0..k : Matches(p, r, c, v)
      BY <2>1, RowMeant
    <3>3. (\E v \in 0..w : Matches(p, r, c, v)) <=>
            Matches(p, r, c, w) \/ \E v \in 0..k : Matches(p, r, c, v)
      <4>1. \A v : v \in 0..w <=> v \in 0..k \/ v = w
        BY <2>4
      <4> QED BY <4>1
    <3> QED BY <1>1, <2>1, <2>2, <2>4, <3>1, <3>2, <3>3 DEF StarReach
  <2> QED BY <2>3, <2>4
<1>4. RowBelow(u, p, r, c, k + 1)
  BY TurnBelow DEF RowBelow
<1>5. \A q \in r + 2..Len(p) : \A w \in 0..Len(c) : ~u[q][w]
  BY <1>0 DEF Turn, Marked, Scanned
<1> QED BY <1>2, <1>3, <1>4, <1>5 DEF Scanned

\* The last turn of a row: the row below is the next to scan.
LEMMA TurnLast ==
  ASSUME NEW p \in Text, NEW c \in Text, NEW r \in Nat, r < Len(p), NEW t, NEW u,
         Scanned(t, p, r, c, Len(c)), Turn(t, u, p, r, c, Len(c))
  PROVE  Scanned(u, p, r + 1, c, 0)
<1>0. Len(c) \in Nat /\ Len(p) \in Nat /\ r + 1 \in 0..Len(p)
      /\ Len(c) \in 0..Len(c)
  BY DEF Text
<1>1. ASSUME NEW w \in 0..Len(c)
      PROVE  u[r + 1][w] <=> Matches(p, r + 1, c, w)
  <2>1. u[r + 1][w] <=>
          Matches(p, r + 1, c, w) /\ Source(p, r, w) < Len(c) + 1
    BY <1>0, TurnBelow
  <2>2. Source(p, r, w) < Len(c) + 1
    BY <1>0 DEF Source
  <2> QED BY <2>1, <2>2
<1>2. \A q \in (r + 1) + 1..Len(p) : \A w \in 0..Len(c) : ~u[q][w]
  BY <1>0 DEF Turn, Marked, Scanned
<1> QED BY <1>0, <1>1, <1>2, Fresh

-----------------------------------------------------------------------------
(* The search *)

\* The candidate is text, and so is a pattern that is not hashed.
LEMMA Tokens ==
  ASSUME NEW host \in Text, NEW port \in Chars
  PROVE  HostToken(host, port) \in Text
<1>1. Bare(host) \in Text
  BY DEF Bare, Text
<1> QED BY <1>1, PatternsAssumption DEF HostToken, Text

LEMMA Typed ==
  ASSUME TypeOK
  PROVE  /\ candidate \in Text /\ Len(case.list) \in Nat
         /\ index <= Len(case.list) /\ ~Current.hashed => PatternText \in Text
<1>1. case \in Cases /\ candidate = HostToken(case.host, case.port)
  BY DEF TypeOK
<1>2. case.host \in Text /\ case.port \in Chars /\ case.list \in Seq(Pattern)
  BY <1>1, PatternsAssumption
<1>3. ASSUME index <= Len(case.list), ~Current.hashed PROVE PatternText \in Text
  <2>1. index \in DOMAIN case.list
    BY <1>2, <1>3 DEF TypeOK
  <2> QED BY <1>1, <1>3, <2>1, PatternsAssumption DEF PatternText, Current
<1> QED BY <1>1, <1>2, <1>3, Tokens

\* A step that leaves the question alone leaves what it covers alone.
LEMMA SameQuestion ==
  ASSUME UNCHANGED <<case, candidate>>
  PROVE  \A i \in DOMAIN case.list : Covers(case.list[i])' = Covers(case.list[i])
BY DEF Covers, Void, Width

\* What the decision on the pattern looked at makes of the search: the list
\* is judged up to and with that pattern.
LEMMA DecideInv ==
  ASSUME PatternsInv, pc # "done", index <= Len(case.list), NEW matched \in BOOLEAN,
         matched <=> Covers(Current), Decide(matched),
         UNCHANGED <<case, candidate>>
  PROVE  PatternsInv'
<1>0. /\ TypeOK /\ ListInv /\ Len(case.list) \in Nat
      /\ index \in 1..Len(case.list) /\ DOMAIN case.list = 1..Len(case.list)
  <2>1. TypeOK /\ ListInv
    BY DEF PatternsInv
  <2>2. case.list \in Seq(Pattern)
    BY <2>1, PatternsAssumption DEF TypeOK
  <2> QED BY <2>1, <2>2, Typed DEF TypeOK
<1>1. \A i \in 1..Len(case.list) : Covers(case.list[i])' = Covers(case.list[i])
  BY <1>0, SameQuestion
<1>2. /\ positive <=> \E i \in 1..index - 1 :
                          ~case.list[i].negative /\ Covers(case.list[i])
      /\ \A i \in 1..index - 1 :
            case.list[i].negative => ~Covers(case.list[i])
  BY <1>0 DEF ListInv
<1>3. CASE matched /\ Current.negative
  <2>1. pc' = "done" /\ answer' = FALSE /\ UNCHANGED <<index, positive>>
    BY <1>3 DEF Decide
  <2>2. TypeOK'
    BY <1>0, <2>1 DEF TypeOK
  <2>3. case.list[index].negative /\ Covers(case.list[index])
    BY <1>3 DEF Current
  <2>4. ListCorrect'
    BY <1>0, <1>1, <2>1, <2>3 DEF ListCorrect
  <2> QED BY <2>1, <2>2, <2>4 DEF PatternsInv, TableInv, ListInv
<1>4. CASE ~(matched /\ Current.negative)
  <2>1. /\ pc' = "next" /\ index' = index + 1 /\ answer' = answer
        /\ positive' = (positive \/ matched)
    BY <1>4 DEF Decide
  <2>2. TypeOK'
    BY <1>0, <2>1 DEF TypeOK
  <2>3. 1..index' - 1 = 1..index - 1 \cup {index} /\ 1..index' - 1 \subseteq 1..Len(case.list)
    BY <1>0, <2>1
  <2>4. Covers(case.list[index]) <=> matched
    BY DEF Current
  <2>5. \A i \in 1..index' - 1 :
          case.list[i].negative => ~Covers(case.list[i])
    BY <1>2, <1>4, <2>3, <2>4 DEF Current
  <2>6. positive' <=> \E i \in 1..index' - 1 :
                        ~case.list[i].negative /\ Covers(case.list[i])
    BY <1>2, <1>4, <2>1, <2>3, <2>4 DEF Current
  <2>7. ListInv'
    BY <1>1, <2>1, <2>3, <2>5, <2>6 DEF ListInv, ListCorrect
  <2> QED BY <2>1, <2>2, <2>7 DEF PatternsInv, TableInv
<1> QED BY <1>3, <1>4

\* Nothing between two commas covers nothing.
LEMMA SkipInv == PatternsInv /\ Skip => PatternsInv'
<1> SUFFICES ASSUME PatternsInv, Skip PROVE PatternsInv'
  OBVIOUS
<1>1. /\ pc = "next" /\ index <= Len(case.list) /\ Void(Current)
      /\ index' = index + 1
      /\ UNCHANGED <<case, candidate, positive, table, row, column, pc, answer>>
  BY DEF Skip
<1>2. TypeOK /\ ListInv /\ Len(case.list) \in Nat
      /\ DOMAIN case.list = 1..Len(case.list)
  <2>1. TypeOK /\ ListInv
    BY DEF PatternsInv
  <2>2. case.list \in Seq(Pattern)
    BY <2>1, PatternsAssumption DEF TypeOK
  <2> QED BY <2>1, <2>2
<1>3. TypeOK'
  BY <1>1, <1>2 DEF TypeOK
<1>4. \A i \in 1..Len(case.list) : Covers(case.list[i])' = Covers(case.list[i])
  BY <1>1, <1>2, SameQuestion
<1>5. ~Covers(case.list[index])
  BY <1>1 DEF Covers, Void, Current
<1>6. 1..index' - 1 = 1..index - 1 \cup {index} /\ 1..index' - 1 \subseteq 1..Len(case.list)
  BY <1>1, <1>2 DEF TypeOK
<1>7. ListInv'
  BY <1>1, <1>2, <1>4, <1>5, <1>6 DEF ListInv, ListCorrect
<1> QED BY <1>1, <1>3, <1>7 DEF PatternsInv, TableInv

\* A hash covers the text it was made from.
LEMMA MatchHashInv == PatternsInv /\ MatchHash => PatternsInv'
<1> SUFFICES ASSUME PatternsInv, MatchHash PROVE PatternsInv'
  OBVIOUS
<1> DEFINE matched == PatternText # Garbled /\ PatternText = candidate
<1>1. /\ pc = "next" /\ index <= Len(case.list) /\ Current.hashed
      /\ Decide(matched) /\ UNCHANGED <<case, candidate>>
  BY DEF MatchHash
<1>2. matched <=> Covers(Current)
  BY <1>1 DEF Covers, PatternText
<1>3. matched \in BOOLEAN
  OBVIOUS
<1> HIDE DEF matched
<1> QED BY <1>1, <1>2, <1>3, DecideInv

\* glob_match() starts with nothing marked but the empty match.
LEMMA BeginGlobInv == PatternsInv /\ BeginGlob => PatternsInv'
<1> SUFFICES ASSUME PatternsInv, BeginGlob PROVE PatternsInv'
  OBVIOUS
<1>1. /\ pc = "next" /\ index <= Len(case.list)
      /\ ~Current.hashed /\ ~Void(Current)
      /\ table' = [Empty(Height, Width) EXCEPT ![0][0] = TRUE]
      /\ row' = 0 /\ column' = 0 /\ pc' = "cell"
      /\ UNCHANGED <<case, candidate, index, positive, answer>>
  BY DEF BeginGlob
<1>2. TypeOK /\ ListInv /\ candidate \in Text /\ PatternText \in Text
  BY <1>1, Typed DEF PatternsInv
<1>3. Height \in Nat /\ Width \in Nat
  BY <1>2 DEF Height, Width, Text
<1>4. /\ table' \in [0..Height -> [0..Width -> BOOLEAN]]
      /\ \A q \in 0..Height, w \in 0..Width : table'[q][w] <=> q = 0 /\ w = 0
  BY <1>1, <1>3 DEF Empty
<1>5. /\ PatternText' = PatternText /\ Current' = Current
      /\ Height' = Height /\ Width' = Width
  BY <1>1 DEF PatternText, Current, Height, Width
<1>6. TypeOK'
  BY <1>1, <1>2, <1>3, <1>4, <1>5 DEF TypeOK, Void
<1>7. Scanned(table', PatternText, 0, candidate, 0)
  <2>1. \A w \in 0..Len(candidate) :
          table'[0][w] <=> Matches(PatternText, 0, candidate, w)
    BY <1>3, <1>4 DEF Matches, Width
  <2>2. \A q \in 0 + 1..Len(PatternText) : \A w \in 0..Len(candidate) :
          ~table'[q][w]
    BY <1>3, <1>4 DEF Width, Height
  <2>3. 0 \in 0..Len(PatternText)
    BY <1>3 DEF Height
  <2> QED BY <1>2, <2>1, <2>2, <2>3, Fresh
<1>8. TableInv'
  BY <1>1, <1>5, <1>7 DEF TableInv
<1>9. ListInv'
  <2>1. case.list \in Seq(Pattern)
    BY <1>2, PatternsAssumption DEF TypeOK
  <2>2. \A i \in 1..index - 1 : Covers(case.list[i])' = Covers(case.list[i])
    BY <1>1, <1>2, <2>1, SameQuestion DEF TypeOK
  <2> QED BY <1>1, <1>2, <2>2 DEF ListInv, ListCorrect
<1> QED BY <1>6, <1>8, <1>9 DEF PatternsInv

\* What Filled does to the table is a turn of the loop.
LEMMA FilledTurn ==
  ASSUME NEW p \in Text, NEW c \in Text, p = PatternText, c = candidate,
         NEW t \in Tables(p, c), t = table, NEW r \in Nat, r = row, r < Len(p),
         NEW k \in 0..Len(c), k = column
  PROVE  Filled \in Tables(p, c) /\ Turn(t, Filled, p, r, c, k)
<1>0. /\ Len(p) \in Nat /\ Len(c) \in Nat
      /\ r \in 0..Len(p) /\ r + 1 \in 0..Len(p) /\ r # r + 1
  BY DEF Text
<1>1. CASE ~t[r][k]
  <2>1. Filled = t
    BY <1>1 DEF Filled
  <2> QED BY <1>1, <2>1 DEF Turn, Marked
<1>2. CASE t[r][k] /\ p[r + 1] = "*" /\ k < Len(c)
  <2>1. Filled = [t EXCEPT ![r + 1][k] = TRUE, ![r][k + 1] = TRUE]
    BY <1>2 DEF Filled, Character, Width
  <2>2. \A q \in 0..Len(p), w \in 0..Len(c) :
          Filled[q][w] <=> \/ q = r + 1 /\ w = k
                           \/ q = r /\ w = k + 1
                           \/ t[q][w]
    BY <1>0, <2>1 DEF Tables
  <2>3. Filled \in Tables(p, c)
    BY <1>0, <2>1 DEF Tables
  <2> QED BY <1>2, <2>2, <2>3 DEF Turn, Marked
<1>3. CASE t[r][k] /\ p[r + 1] = "*" /\ ~(k < Len(c))
  <2>1. Filled = [t EXCEPT ![r + 1][k] = TRUE]
    BY <1>3 DEF Filled, Character, Width
  <2>2. \A q \in 0..Len(p), w \in 0..Len(c) :
          Filled[q][w] <=> (q = r + 1 /\ w = k) \/ t[q][w]
    BY <1>0, <2>1 DEF Tables
  <2>3. Filled \in Tables(p, c)
    BY <1>0, <2>1 DEF Tables
  <2> QED BY <1>0, <1>3, <2>2, <2>3 DEF Turn, Marked
<1>4. CASE /\ t[r][k] /\ p[r + 1] # "*"
           /\ k < Len(c) /\ p[r + 1] \in {"?", c[k + 1]}
  <2>1. Filled = [t EXCEPT ![r + 1][k + 1] = TRUE]
    BY <1>4 DEF Filled, Character, Width
  <2>2. \A q \in 0..Len(p), w \in 0..Len(c) :
          Filled[q][w] <=> (q = r + 1 /\ w = k + 1) \/ t[q][w]
    BY <1>0, <2>1 DEF Tables
  <2>3. Filled \in Tables(p, c)
    BY <1>0, <2>1 DEF Tables
  <2> QED BY <1>4, <2>2, <2>3 DEF Turn, Marked
<1>5. CASE /\ t[r][k] /\ p[r + 1] # "*"
           /\ ~(k < Len(c) /\ p[r + 1] \in {"?", c[k + 1]})
  <2>1. Filled = t
    BY <1>5 DEF Filled, Character, Width
  <2> QED BY <1>0, <1>5, <2>1 DEF Turn, Marked
<1> QED BY <1>1, <1>2, <1>3, <1>4, <1>5

\* A turn of the inner loop.
LEMMA CellInv == PatternsInv /\ Cell => PatternsInv'
<1> SUFFICES ASSUME PatternsInv, Cell PROVE PatternsInv'
  OBVIOUS
<1>1. /\ pc = "cell" /\ row < Height /\ table' = Filled
      /\ IF column < Width THEN column' = column + 1 /\ row' = row
                           ELSE column' = 0 /\ row' = row + 1
      /\ UNCHANGED <<case, candidate, index, positive, pc, answer>>
  BY DEF Cell
<1>2. /\ TypeOK /\ ListInv /\ candidate \in Text /\ PatternText \in Text
      /\ Scanned(table, PatternText, row, candidate, column)
  BY <1>1, Typed DEF PatternsInv, TableInv, TypeOK
<1>3. /\ Height \in Nat /\ Width \in Nat /\ row \in 0..Height
      /\ column \in 0..Width /\ table \in [0..Height -> [0..Width -> BOOLEAN]]
      /\ Height = Len(PatternText) /\ Width = Len(candidate)
  BY <1>1, <1>2 DEF TypeOK, Height, Width, Text
<1>4. /\ PatternText' = PatternText /\ Current' = Current
      /\ Height' = Height /\ Width' = Width
  BY <1>1 DEF PatternText, Current, Height, Width
<1>5. /\ table' \in [0..Height -> [0..Width -> BOOLEAN]]
      /\ Turn(table, table', PatternText, row, candidate, column)
  <2>1. table \in Tables(PatternText, candidate)
    BY <1>3 DEF Tables
  <2>2. row \in Nat /\ row < Len(PatternText) /\ column \in 0..Len(candidate)
    BY <1>1, <1>3
  <2>3. /\ Filled \in Tables(PatternText, candidate)
        /\ Turn(table, Filled, PatternText, row, candidate, column)
    BY <1>2, <2>1, <2>2, FilledTurn
  <2> QED BY <1>1, <1>3, <2>3 DEF Tables
<1>6. TypeOK'
  <2>1. row' \in 0..Height /\ column' \in 0..Width
    BY <1>1, <1>3
  <2> QED BY <1>1, <1>2, <1>4, <1>5, <2>1 DEF TypeOK, Void
<1>7. Scanned(table', PatternText, row', candidate, column')
  <2>1. row \in Nat /\ row < Len(PatternText)
    BY <1>1, <1>3
  <2>2. CASE column < Width
    BY <1>1, <1>2, <1>3, <1>5, <2>1, <2>2, TurnInner
  <2>3. CASE ~(column < Width)
    <3>1. column = Len(candidate)
      BY <1>3, <2>3
    <3> QED BY <1>1, <1>2, <1>3, <1>5, <2>1, <2>3, <3>1, TurnLast
  <2> QED BY <2>2, <2>3
<1>8. TableInv'
  BY <1>1, <1>4, <1>7 DEF TableInv
<1>9. ListInv'
  <2>1. case.list \in Seq(Pattern)
    BY <1>2, PatternsAssumption DEF TypeOK
  <2>2. \A i \in 1..index - 1 : Covers(case.list[i])' = Covers(case.list[i])
    BY <1>1, <1>2, <2>1, SameQuestion DEF TypeOK
  <2> QED BY <1>1, <1>2, <2>2 DEF ListInv, ListCorrect
<1> QED BY <1>6, <1>8, <1>9 DEF PatternsInv

\* The last row has what the whole pattern means.
LEMMA LastRow ==
  ASSUME PatternsInv, pc = "cell", row = Height
  PROVE  /\ table[Height][Width] \in BOOLEAN
         /\ table[Height][Width] <=>
              Matches(PatternText, Height, candidate, Width)
<1>1. PatternText \in Text /\ candidate \in Text
  BY Typed DEF PatternsInv, TypeOK
<1>2. Height \in Nat /\ Width \in Nat /\ Height = Len(PatternText)
      /\ Width = Len(candidate)
  BY <1>1 DEF Height, Width, Text
<1>3. table \in [0..Height -> [0..Width -> BOOLEAN]]
  BY DEF PatternsInv, TypeOK
<1>4. RowDone(table, PatternText, Height, candidate)
  BY DEF PatternsInv, TableInv, Scanned
<1> QED BY <1>2, <1>3, <1>4 DEF RowDone, StarReach

\* glob_match() answers for the pattern looked at.
LEMMA EndGlobInv == PatternsInv /\ EndGlob => PatternsInv'
<1> SUFFICES ASSUME PatternsInv, EndGlob PROVE PatternsInv'
  OBVIOUS
<1>1. /\ pc = "cell" /\ row = Height /\ Decide(table[Height][Width])
      /\ UNCHANGED <<case, candidate>>
  BY DEF EndGlob
<1>2. index <= Len(case.list) /\ ~Current.hashed /\ ~Void(Current)
  BY <1>1 DEF PatternsInv, TypeOK
<1>3. table[Height][Width] <=> Covers(Current)
  BY <1>1, <1>2, LastRow DEF Covers, PatternText, Height
<1>4. table[Height][Width] \in BOOLEAN
  BY <1>1, LastRow
<1> QED BY <1>1, <1>2, <1>3, <1>4, DecideInv

\* The list ends without a negated pattern that covers the candidate.
LEMMA EndListInv == PatternsInv /\ EndList => PatternsInv'
<1> SUFFICES ASSUME PatternsInv, EndList PROVE PatternsInv'
  OBVIOUS
<1>1. /\ pc = "next" /\ index > Len(case.list)
      /\ pc' = "done" /\ answer' = positive
      /\ UNCHANGED <<case, candidate, index, positive, table, row, column>>
  BY DEF EndList
<1>2. TypeOK /\ ListInv
  BY DEF PatternsInv
<1>3. case.list \in Seq(Pattern)
  BY <1>2, PatternsAssumption DEF TypeOK
<1>4. DOMAIN case.list = 1..index - 1
  BY <1>1, <1>2, <1>3 DEF TypeOK
<1>5. \A i \in DOMAIN case.list : Covers(case.list[i])' = Covers(case.list[i])
  BY <1>1, SameQuestion
<1>6. TypeOK'
  BY <1>1, <1>2 DEF TypeOK
<1>7. ListCorrect'
  BY <1>1, <1>2, <1>4, <1>5 DEF ListCorrect, ListInv
<1> QED BY <1>1, <1>6, <1>7 DEF PatternsInv, TableInv, ListInv

LEMMA InitPatternsInv == Init => PatternsInv
<1> SUFFICES ASSUME Init PROVE PatternsInv
  OBVIOUS
<1>1. case.list \in Seq(Pattern)
  BY PatternsAssumption DEF Init
<1>2. TypeOK
  <2>1. 1 \in 1..Len(case.list) + 1
    BY <1>1
  <2> QED BY <2>1 DEF Init, TypeOK
<1>3. TableInv /\ ListInv
  BY DEF Init, TableInv, ListInv, ListCorrect
<1> QED BY <1>2, <1>3 DEF PatternsInv

LEMMA NextPatternsInv == PatternsInv /\ [Next]_vars => PatternsInv'
<1> SUFFICES ASSUME PatternsInv, [Next]_vars PROVE PatternsInv'
  OBVIOUS
<1>1. CASE Next
  BY <1>1, SkipInv, MatchHashInv, BeginGlobInv, CellInv, EndGlobInv, EndListInv
     DEF Next
<1>2. CASE UNCHANGED vars
  BY <1>2 DEF vars, PatternsInv, TypeOK, TableInv, ListInv, ListCorrect, Covers,
              Void, Current, PatternText, Height, Width
<1> QED BY <1>1, <1>2

\* glob_match()'s table and host_patterns_match()'s search are right at every
\* turn, whatever the list, the host and the alphabet.
THEOREM PatternsInvariant == Spec => []PatternsInv
BY InitPatternsInv, NextPatternsInv, PTL DEF Spec

\* glob_match() says what the pattern means.
THEOREM GlobIsCorrect == Spec => []GlobCorrect
<1>1. PatternsInv => GlobCorrect
  BY LastRow DEF GlobCorrect
<1> QED BY <1>1, PatternsInvariant, PTL

\* host_patterns_match() is OpenSSH's rule, whatever the order of the list.
THEOREM ListIsCorrect == Spec => []ListCorrect
<1>1. PatternsInv => ListCorrect
  BY DEF PatternsInv, ListInv
<1> QED BY <1>1, PatternsInvariant, PTL

-----------------------------------------------------------------------------
(* What is recorded for a host *)

\* Without wildcards, a piece is a character: the pattern is the candidate.
LEMMA Literal ==
  ASSUME NEW p \in Text, NEW c \in Text,
         \A i \in DOMAIN p : p[i] \notin {"*", "?"}
  PROVE  Matches(p, Len(p), c, Len(c)) <=> p = c
<1>0. /\ Len(p) \in Nat /\ Len(c) \in Nat
      /\ DOMAIN p = 1..Len(p) /\ DOMAIN c = 1..Len(c)
  BY DEF Text
<1>1. CASE Len(p) = 0
  <2>1. Matches(p, Len(p), c, Len(c)) <=> Len(c) = 0
    BY <1>1 DEF Matches
  <2>2. Len(c) = 0 <=> p = c
    BY <1>1 DEF Text
  <2> QED BY <2>1, <2>2
<1>2. CASE Len(p) # 0
  <2>1. ASSUME Matches(p, Len(p), c, Len(c)) PROVE p = c
    <3>1. PICK cut \in [1..Len(p) -> 0..Len(c)] :
            /\ cut[Len(p)] = Len(c)
            /\ \A r \in 1..Len(p) : Fits(p, c, cut, r)
      BY <1>2, <2>1 DEF Matches
    <3>2. ASSUME NEW r \in 1..Len(p)
          PROVE  /\ cut[r] = (IF r = 1 THEN 0 ELSE cut[r - 1]) + 1
                 /\ p[r] = c[cut[r]]
      <4>1. Fits(p, c, cut, r) /\ p[r] # "*" /\ p[r] # "?"
        BY <1>0, <3>1
      <4> QED BY <4>1 DEF Fits
    <3> DEFINE Off == {r \in 1..Len(p) : cut[r] # r}
    <3>3. Off = {}
      <4>1. SUFFICES ASSUME Off # {} PROVE FALSE
        OBVIOUS
      <4>2. PICK r \in Off : \A q \in Off : r <= q
        <5>1. Off \in SUBSET Nat
          OBVIOUS
        <5> HIDE DEF Off
        <5> QED BY <4>1, <5>1, Least
      <4>3. r \in 1..Len(p) /\ cut[r] # r
        OBVIOUS
      <4>4. CASE r = 1
        BY <3>2, <4>3, <4>4
      <4>5. CASE r # 1
        <5>1. r - 1 \in 1..Len(p) /\ ~(r <= r - 1)
          BY <1>0, <4>3, <4>5
        <5>2. cut[r - 1] = r - 1
          BY <4>2, <5>1
        <5> QED BY <3>2, <4>3, <4>5, <5>2
      <4> QED BY <4>4, <4>5
    <3>4. \A r \in 1..Len(p) : cut[r] = r /\ p[r] = c[r]
      BY <3>2, <3>3
    <3>5. Len(p) = Len(c)
      <4>1. Len(p) \in 1..Len(p)
        BY <1>0, <1>2
      <4> QED BY <3>1, <3>4, <4>1
    <3> QED BY <3>4, <3>5 DEF Text
  <2>2. ASSUME p = c PROVE Matches(p, Len(p), c, Len(c))
    <3> DEFINE cut == [r \in 1..Len(p) |-> r]
    <3>1. cut \in [1..Len(p) -> 0..Len(c)] /\ cut[Len(p)] = Len(c)
      BY <1>0, <1>2, <2>2
    <3>2. ASSUME NEW r \in 1..Len(p) PROVE Fits(p, c, cut, r)
      <4>1. cut[r] = r /\ (r # 1 => cut[r - 1] = r - 1)
        BY <1>0
      <4>2. p[r] # "*" /\ p[r] = c[r]
        BY <1>0, <2>2
      <4> HIDE DEF cut
      <4> QED BY <1>0, <4>1, <4>2 DEF Fits
    <3> HIDE DEF cut
    <3> QED BY <1>2, <3>1, <3>2 DEF Matches
  <2> QED BY <2>1, <2>2
<1> QED BY <1>1, <1>2

\* The token of a host on another port than 22, character by character.
LEMMA PortToken ==
  ASSUME NEW b \in Text, NEW port \in Chars
  PROVE  LET token == <<"[">> \o b \o <<"]", ":", port>> IN
         /\ token \in Text /\ Len(token) = Len(b) + 4 /\ token[1] = "["
         /\ token[Len(b) + 4] = port
         /\ \A i \in 1..Len(b) : token[i + 1] = b[i]
         /\ token[Len(b) + 2] = "]" /\ token[Len(b) + 3] = ":"
BY PatternsAssumption DEF Text

\* host_token() tells hosts and ports apart, brackets aside.
LEMMA TokenInjective ==
  ASSUME NEW h \in Text, NEW g \in Text, NEW p \in Chars, NEW q \in Chars,
         Plain(Bare(h)), Plain(Bare(g)), HostToken(h, p) = HostToken(g, q)
  PROVE  Bare(h) = Bare(g) /\ p = q
<1>0. Bare(h) \in Text /\ Bare(g) \in Text
  BY DEF Bare, Text
<1>1. PICK b \in Text, a \in Text : b = Bare(h) /\ a = Bare(g)
  BY <1>0
<1>2. /\ Len(a) \in Nat /\ DOMAIN a = 1..Len(a)
      /\ Len(b) \in Nat /\ DOMAIN b = 1..Len(b)
  BY DEF Text
<1>3. CASE p = DefaultPort /\ q = DefaultPort
  BY <1>3 DEF HostToken
<1>4. CASE p # DefaultPort /\ q # DefaultPort
  <2>1. <<"[">> \o b \o <<"]", ":", p>> = <<"[">> \o a \o <<"]", ":", q>>
    BY <1>1, <1>4 DEF HostToken
  <2>2. PICK token : token = <<"[">> \o b \o <<"]", ":", p>>
    OBVIOUS
  <2>3. /\ Len(token) = Len(b) + 4 /\ token[Len(b) + 4] = p
        /\ \A i \in 1..Len(b) : token[i + 1] = b[i]
    BY <2>2, PortToken
  <2>4. /\ Len(token) = Len(a) + 4 /\ token[Len(a) + 4] = q
        /\ \A i \in 1..Len(a) : token[i + 1] = a[i]
    <3>1. token = <<"[">> \o a \o <<"]", ":", q>>
      BY <2>1, <2>2
    <3> QED BY <3>1, PortToken
  <2>5. Len(b) = Len(a) /\ p = q
    <3>1. Len(b) + 4 = Len(a) + 4
      BY <2>3, <2>4
    <3>2. Len(b) = Len(a)
      <4>1. Len(b) \in Nat /\ Len(a) \in Nat
        BY <1>2
      <4> QED BY <3>1, <4>1
    <3> QED BY <2>3, <2>4, <3>2
  <2>6. \A i \in 1..Len(b) : b[i] = a[i]
    BY <2>3, <2>4, <2>5
  <2> QED BY <1>1, <2>5, <2>6 DEF Text
<1>5. CASE p = DefaultPort /\ q # DefaultPort
  <2>1. b = <<"[">> \o a \o <<"]", ":", q>>
    BY <1>1, <1>5 DEF HostToken
  <2>2. 1 \in DOMAIN b /\ b[1] = "["
    BY <1>2, <2>1, PortToken
  <2> QED BY <1>1, <2>2 DEF Plain
<1>6. CASE p # DefaultPort /\ q = DefaultPort
  <2>1. a = <<"[">> \o b \o <<"]", ":", p>>
    BY <1>1, <1>6 DEF HostToken
  <2>2. 1 \in DOMAIN a /\ a[1] = "["
    BY <1>2, <2>1, PortToken
  <2> QED BY <1>1, <2>2 DEF Plain
<1> QED BY <1>3, <1>4, <1>5, <1>6

\* The token of a plain host has no wildcard and is not empty.
LEMMA TokenPlain ==
  ASSUME NEW h \in Text, NEW p \in Chars \ {"*", "?"}, Plain(Bare(h)),
         Bare(h) # <<>>
  PROVE  /\ HostToken(h, p) # <<>>
         /\ \A i \in DOMAIN HostToken(h, p) : HostToken(h, p)[i] \notin {"*", "?"}
<1>0. Bare(h) \in Text
  BY DEF Bare, Text
<1>1. PICK b \in Text : b = Bare(h)
  BY <1>0
<1>2. Len(b) \in Nat /\ DOMAIN b = 1..Len(b)
  BY DEF Text
<1>3. CASE p = DefaultPort
  BY <1>1, <1>3 DEF HostToken, Plain
<1>4. CASE p # DefaultPort
  <2>1. PICK token : token = <<"[">> \o b \o <<"]", ":", p>>
    OBVIOUS
  <2>2. /\ token \in Text /\ Len(token) = Len(b) + 4 /\ token[1] = "["
        /\ token[Len(b) + 4] = p
        /\ \A i \in 1..Len(b) : token[i + 1] = b[i]
        /\ token[Len(b) + 2] = "]" /\ token[Len(b) + 3] = ":"
    BY <2>1, PortToken
  <2>3. ASSUME NEW i \in DOMAIN token PROVE token[i] \notin {"*", "?"}
    <3>1. i \in 1..Len(b) + 4
      BY <2>2 DEF Text
    <3>2. CASE i \in 2..Len(b) + 1
      <4>1. i - 1 \in 1..Len(b) /\ (i - 1) + 1 = i
        BY <1>2, <3>2
      <4>2. token[i] = b[i - 1]
        BY <2>2, <4>1
      <4> QED BY <1>1, <1>2, <4>1, <4>2 DEF Plain
    <3>3. CASE i \in {1, Len(b) + 2, Len(b) + 3, Len(b) + 4}
      BY <2>2, <3>3
    <3> QED BY <1>2, <3>1, <3>2, <3>3
  <2>4. token # <<>>
    BY <1>2, <2>2
  <2> QED BY <1>1, <1>4, <2>1, <2>3, <2>4 DEF HostToken
<1> QED BY <1>3, <1>4

\* What accept_key() recorded for a host and port covers these and nothing
\* else.
THEOREM RecordedIsExact == Spec => []RecordedExact
<1>1. PatternsInv => RecordedExact
  <2>1. SUFFICES ASSUME PatternsInv, pc = "done", "of" \in DOMAIN case
                 PROVE  answer <=> /\ Bare(case.of.host) = Bare(case.host)
                                   /\ case.of.port = case.port
    BY DEF RecordedExact
  <2>2. TypeOK /\ ListCorrect /\ candidate \in Text
    <3>1. TypeOK /\ ListCorrect
      BY <2>1 DEF PatternsInv, ListInv
    <3> QED BY <3>1, Typed
  <2>3. /\ case \in Cases /\ candidate = HostToken(case.host, case.port)
        /\ case.host \in Text /\ case.port \in Chars
    BY <2>2, PatternsAssumption DEF TypeOK
  <2>4. /\ case.of.host \in Text /\ Plain(Bare(case.of.host))
        /\ Plain(Bare(case.host)) /\ case.of.port \in Chars \ {"*", "?"}
        /\ Bare(case.of.host) # <<>>
        /\ case.list = Recorded(case.of.host, case.of.port)
    BY <2>1, <2>3, RecordedAssumption
  <2>5. PICK token \in Text : token = HostToken(case.of.host, case.of.port)
    BY <2>4, Tokens
  <2>6. /\ DOMAIN case.list = {1} /\ ~case.list[1].negative
        /\ ~case.list[1].hashed /\ case.list[1].text = token
    BY <2>4, <2>5 DEF Recorded
  <2>7. token # <<>> /\ \A i \in DOMAIN token : token[i] \notin {"*", "?"}
    BY <2>4, <2>5, TokenPlain
  <2>8. Covers(case.list[1]) <=> token = candidate
    BY <2>2, <2>6, <2>7, Literal DEF Covers, Void, Width
  <2>9. answer <=> token = candidate
    BY <2>1, <2>2, <2>6, <2>8 DEF ListCorrect
  <2>10. token = candidate =>
           Bare(case.of.host) = Bare(case.host) /\ case.of.port = case.port
    <3>1. SUFFICES ASSUME HostToken(case.of.host, case.of.port)
                            = HostToken(case.host, case.port)
                   PROVE  /\ Bare(case.of.host) = Bare(case.host)
                          /\ case.of.port = case.port
      BY <2>3, <2>5
    <3>2. case.of.port \in Chars
      BY <2>4
    <3> QED BY <2>3, <2>4, <3>1, <3>2, TokenInjective
  <2>11. Bare(case.of.host) = Bare(case.host) /\ case.of.port = case.port =>
           token = candidate
    BY <2>3, <2>5 DEF HostToken
  <2> QED BY <2>9, <2>10, <2>11
<1> QED BY <1>1, PatternsInvariant, PTL
=============================================================================
