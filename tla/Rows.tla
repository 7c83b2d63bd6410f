-------------------------------- MODULE Rows --------------------------------
(***************************************************************************)
(* How a request writes a row it has loaded.  SQLAlchemy remembers the row *)
(* as the session loaded it and, at a flush, sends an UPDATE of the        *)
(* columns whose value is now another one; PostgreSQL lays them over the   *)
(* row as it is committed then.  A column that another request wrote in    *)
(* between survives if this request left it as it had loaded it.           *)
(***************************************************************************)

\* The columns a flush sends: those whose value differs from the loaded row.
Changed(row, wanted) ==
  [c \in {d \in DOMAIN wanted : wanted[d] # row[d]} |-> wanted[c]]

\* An UPDATE of some columns of a row.
Overlay(row, write) ==
  [c \in DOMAIN row |-> IF c \in DOMAIN write THEN write[c] ELSE row[c]]
=============================================================================
