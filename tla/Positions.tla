----------------------------- MODULE Positions -----------------------------
(***************************************************************************)
(* The position column that dbif/triggers.rs and dbif/numerology.rs keep   *)
(* in the same way, by an UPDATE that makes room and one that closes the   *)
(* gaps.  A table is a function from the idx of its rows to records.       *)
(***************************************************************************)
EXTENDS Integers, SequencesExt

(* The highest position there is, or the one asked for.                    *)
Highest(tbl, k) == Max({tbl[j].position : j \in DOMAIN tbl} \cup {k})

(* Mutant of Shifted: the row that is being placed moves as well. *)
ShiftedAll(tbl, lo, hi, d, but) ==
  [i \in DOMAIN tbl |->
     IF lo <= tbl[i].position /\ tbl[i].position <= hi
       THEN [tbl[i] EXCEPT !.position = @ + d] ELSE tbl[i]]

(* The UPDATE of set_trigger_position_in_db: rows lo .. hi move by d.      *)
Shifted(tbl, lo, hi, d, but) ==
  [i \in DOMAIN tbl |->
     IF i # but /\ lo <= tbl[i].position /\ tbl[i].position <= hi
       THEN [tbl[i] EXCEPT !.position = @ + d] ELSE tbl[i]]

(* UPDATE triggers SET position = (SELECT COUNT( * ) FROM triggers b WHERE *)
(* b.position < triggers.position) + 1.  SQLite updates the rows one by    *)
(* one in the order of idx, and the subquery sees the rows updated before: *)
(* after[k] is the table with the rows up to idx k done.                   *)
Renumbered(tbl) ==
  LET last == Max(DOMAIN tbl \cup {0})
      Before(t, i) == Cardinality({j \in DOMAIN tbl : t[j].position < t[i].position})
      after[k \in 0 .. last] ==
        IF k = 0 THEN tbl
        ELSE IF k \in DOMAIN tbl
          THEN [after[k - 1] EXCEPT ![k].position = 1 + Before(after[k - 1], k)]
          ELSE after[k - 1]
  IN  after[last]

(* INSERT, or UPDATE of the row there is: row i is row now. *)
With(tbl, i, row) == [j \in DOMAIN tbl \cup {i} |-> IF j = i THEN row ELSE tbl[j]]

(* The idx of a new row: integer primary key without AUTOINCREMENT. *)
NewIdx(tbl) == 1 + Max(DOMAIN tbl \cup {0})
============================================================================
