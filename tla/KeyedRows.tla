------------------------------ MODULE KeyedRows ------------------------------
(***************************************************************************)
(* What the statements promise about the rows of a table with an           *)
(* AUTO_INCREMENT primary key id and a column v: every statement that       *)
(* succeeds acts at once on all the rows it selects, computing every new    *)
(* value from the old rows, and no two rows have the same key.  Nothing is  *)
(* promised once a write has failed in the middle of a statement or a       *)
(* ROLLBACK did not give back the rows of BEGIN (damaged).                  *)
(***************************************************************************)
EXTENDS Integers, FiniteSets

CONSTANTS MaxInt,   \* the largest value of id's type
          Texts,    \* the values of v
          Null,     \* SQL NULL
          Wheres,   \* the WHERE conditions of the statements
          Sets      \* the SET lists of UPDATE

VARIABLES rel,      \* the rows
          saved,    \* the rows at BEGIN, for ROLLBACK
          damaged

rowsVars == <<rel, saved, damaged>>

(* WHERE: all rows, or an equality, which NULL never satisfies. *)
Matches(w, row) ==
    \/ w.col = "all"
    \/ w.col \in {"id", "v"} /\ row[w.col] # Null /\ row[w.col] = w.val

(* SET: id keeps its value, is increased, or mirrored; v keeps or gets one. *)
NewRow(s, row) ==
    [id |-> CASE s.id = "keep" -> row.id
              [] s.id = "next" -> row.id + 1
              [] s.id = "flip" -> MaxInt + 1 - row.id,
     v  |-> IF s.v = "keep" THEN row.v ELSE s.v]

UniqueKeys(rows) == \A r, s \in rows : r.id = s.id => r = s

RowsInit == rel = {} /\ saved = {} /\ damaged = FALSE

(* INSERT adds rows with keys nobody has. *)
InsertRows == rel \subseteq rel' /\ UniqueKeys(rel')

UpdateRows(w, s) ==
    LET old == {r \in rel : Matches(w, r)}
        new == {NewRow(s, r) : r \in old}
    IN  /\ Cardinality(new) = Cardinality(old)
        /\ rel' = (rel \ old) \cup new
        /\ UniqueKeys(rel')

DeleteRows(w) == rel' = {r \in rel : ~Matches(w, r)}
TruncateRows  == rel' = {}

Statement == /\ \/ InsertRows
                \/ \E w \in Wheres, s \in Sets : UpdateRows(w, s)
                \/ \E w \in Wheres : DeleteRows(w)
                \/ TruncateRows
             /\ UNCHANGED <<saved, damaged>>

Begin    == saved' = rel /\ UNCHANGED <<rel, damaged>>
Commit   == saved' = {} /\ UNCHANGED <<rel, damaged>>
Rollback == rel' = saved /\ saved' = {} /\ UNCHANGED damaged

Damage == damaged' = TRUE

RowsNext == Statement \/ Begin \/ Commit \/ Rollback \/ Damage

RowsSpec == RowsInit /\ [][RowsNext]_rowsVars
=============================================================================
