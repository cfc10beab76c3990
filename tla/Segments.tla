------------------------------ MODULE Segments ------------------------------
(***************************************************************************)
(* A draft's paragraphs are joined into one text for the checker, and its  *)
(* answer, in offsets of that text, is taken back to the paragraphs.       *)
(* Texts are their lengths in UTF-16 units.                                *)
(***************************************************************************)
EXTENDS Integers, Sequences

CONSTANTS
    MaxSegments, MaxUnits,      \* bounds: paragraphs, and units in each
    SEPARATOR_UNITS

VARIABLES segments, match, where

vars == <<segments, match, where>>

\* join_segments: [start, end) of each
spans(s) ==
    LET end[i \in 0..Len(s)] ==
            IF i = 0 THEN -SEPARATOR_UNITS ELSE end[i-1] + SEPARATOR_UNITS + s[i]
    IN [i \in DOMAIN s |-> <<end[i] - s[i], end[i]>>]

\* Variant: a match may run on into the separator.
locate_start(s, m) ==
    LET before == {i \in DOMAIN s : spans(s)[i][1] <= m.offset} IN
    IF before = {} THEN <<>>
    ELSE LET i == CHOOSE i \in before : \A j \in before : j <= i IN <<i, m.offset - spans(s)[i][1]>>

\* _locate: bisect for the paragraph, none if the match does not end in it
_locate(s, m) ==
    LET before == {i \in DOMAIN s : spans(s)[i][1] <= m.offset} IN
    IF before = {} THEN <<>>
    ELSE LET i == CHOOSE i \in before : \A j \in before : j <= i IN
         IF m.offset + m.length > spans(s)[i][2] THEN <<>> ELSE <<i, m.offset - spans(s)[i][1]>>

Init ==
    /\ segments \in UNION {[1..n -> 0..MaxUnits] : n \in 0..MaxSegments}
    /\ match \in [offset : 0 .. MaxSegments * (MaxUnits + SEPARATOR_UNITS), length : 0 .. MaxUnits + 1]
    /\ where = <<"asked">>

check ==
    /\ where = <<"asked">> /\ where' = _locate(segments, match)
    /\ UNCHANGED <<segments, match>>

Next == check
Spec == Init /\ [][Next]_vars

\* The units of the joined text, each by the paragraph and place it came from; a
\* separator's units come from none.
Text(s) ==
    LET upto[i \in 0..Len(s)] ==
            IF i = 0 THEN <<>>
            ELSE upto[i-1] \o (IF i = 1 THEN <<>> ELSE [k \in 1..SEPARATOR_UNITS |-> <<0, k>>])
                           \o [k \in 1..s[i] |-> <<i, k - 1>>]
    IN upto[Len(s)]

\* An underline is drawn under the very units the checker meant, and every match that
\* covers units of one paragraph alone is drawn (join_segments, _locate).
Underlined ==
    where # <<"asked">> /\ match.length > 0 =>
        LET meant == {k \in DOMAIN Text(segments) : k > match.offset /\ k <= match.offset + match.length}
            home  == {Text(segments)[k][1] : k \in meant}
        IN IF \E i \in home : i # 0 /\ home = {i}
              /\ match.offset + match.length <= Len(Text(segments))
           THEN /\ where # <<>> /\ home = {where[1]}
                /\ {Text(segments)[k][2] : k \in meant} = where[2] .. where[2] + match.length - 1
           ELSE where = <<>>
=============================================================================
