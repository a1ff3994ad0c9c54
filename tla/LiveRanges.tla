---------------------------- MODULE LiveRanges ------------------------------
(***************************************************************************)
(* The range lists of internal/regalloc/interval.go: a set of program      *)
(* points kept as half open ranges, sorted, disjoint and never adjacent.   *)
(***************************************************************************)
EXTENDS Integers, Sequences, FiniteSetsExt

LiveRange == [from : Nat, to : Nat]

Ranges == Seq(LiveRange)

RangePoints(r) == {p \in r.from..r.to : p < r.to}

Points(rs) == UNION {RangePoints(rs[i]) : i \in DOMAIN rs}

Span(rs) == MapThenSumSet(LAMBDA i : rs[i].to - rs[i].from, DOMAIN rs)

(* covers looks for the first range that ends after the point.             *)
Covers(rs, point) ==
  \E i \in 1..Len(rs) :
    /\ rs[i].from <= point /\ point < rs[i].to
    /\ \A j \in 1..(i - 1) : rs[j].to <= point

Overlap(a, b) == a.from < b.to /\ b.from < a.to

(* The places two cursors into rs and ss can be at.                        *)
Cursors(rs, ss) == (1..(Len(rs) + 1)) \X (1..(Len(ss) + 1))

\* Seeded fault: the list whose range starts first advances.
IntersectsByFrom(rs, ss) ==
  LET meet[c \in Cursors(rs, ss)] ==
        /\ c[1] <= Len(rs) /\ c[2] <= Len(ss)
        /\ \/ Overlap(rs[c[1]], ss[c[2]])
           \/ meet[IF rs[c[1]].from >= ss[c[2]].from THEN <<c[1] + 1, c[2]>>
                                                   ELSE <<c[1], c[2] + 1>>]
  IN  meet[<<1, 1>>]

(* Two cursors; the one whose range ends first moves on.                   *)
Intersects(rs, ss) ==
  LET meet[c \in Cursors(rs, ss)] ==
        /\ c[1] <= Len(rs) /\ c[2] <= Len(ss)
        /\ \/ Overlap(rs[c[1]], ss[c[2]])
           \/ meet[IF rs[c[1]].to <= ss[c[2]].to THEN <<c[1] + 1, c[2]>>
                                               ELSE <<c[1], c[2] + 1>>]
  IN  meet[<<1, 1>>]

(* The new range merges with the first one or goes in front of it.         *)
AddRange(rs, from, to) ==
  IF to <= from THEN rs
  ELSE IF rs # <<>> /\ to >= Head(rs).from
  THEN <<[from |-> IF from < Head(rs).from THEN from ELSE Head(rs).from,
          to   |-> IF to > Head(rs).to THEN to ELSE Head(rs).to]>> \o Tail(rs)
  ELSE <<[from |-> from, to |-> to]>> \o rs

SetFrom(rs, point) == [rs EXCEPT ![1].from = point]
=============================================================================
