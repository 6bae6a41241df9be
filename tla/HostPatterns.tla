---------------------------- MODULE HostPatterns ----------------------------
(***************************************************************************)
(* Which hosts a known_hosts entry is about (core/host_key.rs):            *)
(* host_patterns_match() over a comma separated list, host_token() and     *)
(* glob_match(), whose table is filled cell by cell.                       *)
(*                                                                         *)
(* Text is a sequence of characters.  A hashed pattern is the text whose   *)
(* HMAC it holds, or Garbled when it cannot be decoded: it covers that     *)
(* text and nothing else.                                                  *)
(***************************************************************************)
EXTENDS Naturals, Sequences

CONSTANTS Chars,        \* characters, the two wildcards among them
          Cases,        \* lists, and the host and port they are asked for
          DefaultPort,  \* 22
          Garbled       \* a hash that does not decode

\* A port is written as one character of its own.
Text == Seq(Chars)
Pattern == [negative : BOOLEAN, hashed : BOOLEAN, text : Text \cup {Garbled}]

ASSUME PatternsAssumption ==
    /\ {"*", "?", "[", "]", ":"} \subseteq Chars
    /\ Garbled \notin Text
    /\ \A case \in Cases : /\ case.host \in Text /\ case.port \in Chars
                           /\ case.list \in Seq(Pattern)
                           /\ \A i \in DOMAIN case.list :
                                  \/ case.list[i].hashed
                                  \/ case.list[i].text \in Text

VARIABLES case,      \* the question
          candidate, \* host_token() of it
          index,     \* the pattern looked at
          positive,  \* some pattern matched
          table,     \* of glob_match
          row,       \* pattern characters done
          column,    \* the cell of that row looked at
          pc,        \* "next", "cell" or "done"
          answer     \* what host_patterns_match returns

vars == <<case, candidate, index, positive, table, row, column, pc, answer>>

-----------------------------------------------------------------------------
Width == Len(candidate)
Current == case.list[index]
PatternText == Current.text
Height == Len(PatternText)
Character == PatternText[row + 1]

\* The port is left out for hosts on another port.
HostTokenPortless(host, port) == host

\* Brackets around the host are those of an IPv6 literal.
Bare(host) ==
    IF Len(host) >= 2 /\ host[1] = "[" /\ host[Len(host)] = "]"
      THEN SubSeq(host, 2, Len(host) - 1) ELSE host

HostToken(host, port) ==
    IF port = DefaultPort
      THEN Bare(host)
      ELSE <<"[">> \o Bare(host) \o <<"]", ":", port>>

Empty(h, w) == [r \in 0..h |-> [c \in 0..w |-> FALSE]]

Init == /\ case \in Cases
        /\ candidate = HostToken(case.host, case.port)
        /\ index = 1 /\ positive = FALSE
        /\ table = Empty(0, 0) /\ row = 0 /\ column = 0
        /\ pc = "next" /\ answer = FALSE

-----------------------------------------------------------------------------
(* Mutated forms, each a plausible slip in this code.                      *)

\* A star takes one character only: its row is not extended.
FilledStarOnce ==
    IF ~table[row][column] THEN table
    ELSE IF Character = "*"
      THEN [table EXCEPT ![row + 1][column] = TRUE,
                         ![row + 1][IF column < Width THEN column + 1
                                                      ELSE column] = TRUE]
    ELSE IF column < Width /\ Character \in {"?", candidate[column + 1]}
      THEN [table EXCEPT ![row + 1][column + 1] = TRUE]
    ELSE table

\* The first pattern that matches decides.
DecideFirst(matched) ==
    IF matched
      THEN /\ answer' = ~Current.negative /\ pc' = "done"
           /\ UNCHANGED <<index, positive>>
      ELSE /\ pc' = "next" /\ index' = index + 1
           /\ UNCHANGED <<positive, answer>>

-----------------------------------------------------------------------------
(* glob_match()                                                            *)

\* What one turn of the inner loop makes of the table.
Filled ==
    IF ~table[row][column] THEN table
    ELSE IF Character = "*"
      THEN IF column < Width
             THEN [table EXCEPT ![row + 1][column] = TRUE,
                                ![row][column + 1] = TRUE]
             ELSE [table EXCEPT ![row + 1][column] = TRUE]
    ELSE IF column < Width /\ Character \in {"?", candidate[column + 1]}
      THEN [table EXCEPT ![row + 1][column + 1] = TRUE]
    ELSE table

Cell ==
    /\ pc = "cell" /\ row < Height
    /\ table' = Filled
    /\ IF column < Width THEN column' = column + 1 /\ row' = row
                         ELSE column' = 0 /\ row' = row + 1
    /\ UNCHANGED <<case, candidate, index, positive, pc, answer>>

-----------------------------------------------------------------------------
(* host_patterns_match()                                                   *)

\* A negated pattern that matches ends the search.
Decide(matched) ==
    IF matched /\ Current.negative
      THEN /\ answer' = FALSE /\ pc' = "done"
           /\ UNCHANGED <<index, positive>>
      ELSE /\ positive' = (positive \/ matched)
           /\ pc' = "next" /\ index' = index + 1
           /\ UNCHANGED answer

\* Nothing between two commas.  A lone "!" is a pattern.
Void(pattern) == /\ ~pattern.negative /\ ~pattern.hashed
                 /\ pattern.text = <<>>

Skip ==
    /\ pc = "next" /\ index <= Len(case.list) /\ Void(Current)
    /\ index' = index + 1
    /\ UNCHANGED <<case, candidate, positive, table, row, column, pc, answer>>

\* single_host_pattern_matches(): a hash, or a glob.
MatchHash ==
    /\ pc = "next" /\ index <= Len(case.list) /\ Current.hashed
    /\ Decide(PatternText # Garbled /\ PatternText = candidate)
    /\ UNCHANGED <<case, candidate, table, row, column>>

BeginGlob ==
    /\ pc = "next" /\ index <= Len(case.list)
    /\ ~Current.hashed /\ ~Void(Current)
    /\ table' = [Empty(Height, Width) EXCEPT ![0][0] = TRUE]
    /\ row' = 0 /\ column' = 0
    /\ pc' = "cell"
    /\ UNCHANGED <<case, candidate, index, positive, answer>>

EndGlob ==
    /\ pc = "cell" /\ row = Height
    /\ Decide(table[Height][Width])
    /\ UNCHANGED <<case, candidate, table, row, column>>

EndList ==
    /\ pc = "next" /\ index > Len(case.list)
    /\ pc' = "done" /\ answer' = positive
    /\ UNCHANGED <<case, candidate, index, positive, table, row, column>>

Next == Skip \/ MatchHash \/ BeginGlob \/ Cell \/ EndGlob \/ EndList

Spec == Init /\ [][Next]_vars

-----------------------------------------------------------------------------
(* What a pattern means: the candidate can be cut into one piece per       *)
(* pattern character, cut[r] being where the piece of character r ends.    *)

Fits(p, c, cut, r) ==
    LET from == IF r = 1 THEN 0 ELSE cut[r - 1] IN
    IF p[r] = "*" THEN from <= cut[r]
    ELSE /\ cut[r] = from + 1
         /\ p[r] = "?" \/ p[r] = c[cut[r]]

\* The first h characters of p match the first w of c.
Matches(p, h, c, w) ==
    IF h = 0 THEN w = 0
    ELSE \E cut \in [1..h -> 0..w] :
             /\ cut[h] = w
             /\ \A r \in 1..h : Fits(p, c, cut, r)

Covers(pattern) ==
    IF pattern.hashed THEN pattern.text # Garbled /\ pattern.text = candidate
    ELSE /\ ~Void(pattern)
         /\ Matches(pattern.text, Len(pattern.text), candidate, Width)

-----------------------------------------------------------------------------
(* Properties *)

TypeOK == /\ case \in Cases
          /\ candidate = HostToken(case.host, case.port)
          /\ index \in 1..Len(case.list) + 1
          /\ positive \in BOOLEAN /\ answer \in BOOLEAN
          /\ pc \in {"next", "cell", "done"}
          /\ pc = "cell" =>
               /\ index <= Len(case.list) /\ ~Current.hashed /\ ~Void(Current)
               /\ row \in 0..Height /\ column \in 0..Width
               /\ table \in [0..Height -> [0..Width -> BOOLEAN]]

\* glob_match says what the pattern means: stars may take nothing or
\* everything, and a path through the table that dies out is no match.
GlobCorrect ==
    pc = "cell" /\ row = Height =>
        (table[Height][Width] <=> Matches(PatternText, Height, candidate, Width))

\* The order of patterns does not matter: a host is covered if some pattern
\* covers it and no negated one does (OpenSSH's rule).
ListCorrect ==
    pc = "done" =>
        (answer <=> /\ \E i \in DOMAIN case.list :
                           ~case.list[i].negative /\ Covers(case.list[i])
                    /\ \A i \in DOMAIN case.list :
                           case.list[i].negative => ~Covers(case.list[i]))

\* What accept_key() records for a host and port, of hosts whose names have
\* no wildcard, comma, bracket, "!" or "|".
Recorded(host, port) == <<[negative |-> FALSE, hashed |-> FALSE,
                           text |-> HostToken(host, port)]>>
Plain(text) == \A i \in DOMAIN text : text[i] \notin {"*", "?", "[", "]"}

ASSUME RecordedAssumption ==
    \A k \in Cases : "of" \in DOMAIN k =>
        /\ k.of.host \in Text /\ Plain(Bare(k.of.host)) /\ Plain(Bare(k.host))
        /\ k.of.port \in Chars \ {"*", "?"}
        /\ Bare(k.of.host) # <<>>
        /\ k.list = Recorded(k.of.host, k.of.port)

\* What was recorded for one host and port covers these and nothing else:
\* not the same host on another port, not another host.
RecordedExact ==
    pc = "done" /\ "of" \in DOMAIN case =>
        (answer <=> /\ Bare(case.of.host) = Bare(case.host)
                    /\ case.of.port = case.port)

-----------------------------------------------------------------------------
(* The inductive invariant.  With r rows of the table t done and the scan  *)
(* of the next at column k:                                                *)

\* Stars also mark cells to the right of a match, in their row only.
StarReach(p, r, c, w) ==
    r < Len(p) /\ p[r + 1] = "*" /\ \E v \in 0..w : Matches(p, r, c, v)

\* The row in progress has what is meant, and what stars have added.
RowDone(t, p, r, c) ==
    \A w \in 0..Len(c) :
        /\ Matches(p, r, c, w) => t[r][w]
        /\ t[r][w] => Matches(p, r, c, w) \/ StarReach(p, r, c, w)

\* Behind the scan the star has spread all the way.
StarSpread(t, p, r, c, k) ==
    p[r + 1] = "*" =>
        \A w \in 0..k : (t[r][w] <=> \E v \in 0..w : Matches(p, r, c, v))

\* A cell of the row below is reached from the one above it or, for a
\* character, from the one above and to the left: that row is right as far
\* as the scan has come.
Source(p, r, w) == IF p[r + 1] = "*" THEN w ELSE w - 1
RowBelow(t, p, r, c, k) ==
    \A w \in 0..Len(c) :
        t[r + 1][w] <=> Matches(p, r + 1, c, w) /\ Source(p, r, w) < k

Scanned(t, p, r, c, k) ==
    /\ RowDone(t, p, r, c)
    /\ r < Len(p) =>
         /\ StarSpread(t, p, r, c, k)
         /\ RowBelow(t, p, r, c, k)
         /\ \A q \in r + 2..Len(p) : \A w \in 0..Len(c) : ~t[q][w]

TableInv == pc = "cell" => Scanned(table, PatternText, row, candidate, column)

ListInv ==
    /\ pc # "done" =>
         /\ positive <=> \E i \in 1..index - 1 :
                             ~case.list[i].negative /\ Covers(case.list[i])
         /\ \A i \in 1..index - 1 :
                case.list[i].negative => ~Covers(case.list[i])
    /\ ListCorrect

PatternsInv == TypeOK /\ TableInv /\ ListInv
=============================================================================
