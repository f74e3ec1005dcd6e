-------------------------- MODULE IndexedRelation ---------------------------
(***************************************************************************)
(* relation.IndexedRelation: rows, and hash indexes over tuples of columns *)
(* that are built when first asked for and kept up to date by add.  A row  *)
(* lies in the bucket of its own key, so an index is determined by the     *)
(* rows it holds; `Columns` are the column tuples some join looks up.      *)
(***************************************************************************)
EXTENDS DatalogPrograms

CONSTANT Columns

Relations == [rows : SUBSET Rows, indexes : UNION {[C -> SUBSET Rows] : C \in SUBSET Columns}]

\* IndexedRelation(rows) starts without indexes.
relation_of(R) == [rows |-> R, indexes |-> [c \in {} |-> {}]]

ensure_index(rel, columns) ==
  [rel EXCEPT !.indexes = [c \in DOMAIN @ \cup {columns} |-> IF c \in DOMAIN @ THEN @[c] ELSE rel.rows]]

\* The rows some key of these columns leads to.
lookup(rel, columns) == ensure_index(rel, columns).indexes[columns]

\* Slip: add forgets the indexes that exist.
add_to_rows_only(rel, R) == [rel EXCEPT !.rows = @ \cup R]

\* add, row by row; a row already present touches no index.
add_all(rel, R) ==
  [rows |-> rel.rows \cup R,
   indexes |-> [c \in DOMAIN rel.indexes |-> rel.indexes[c] \cup (R \ rel.rows)]]

Coherent(rel) == \A c \in DOMAIN rel.indexes : rel.indexes[c] = rel.rows
=============================================================================
