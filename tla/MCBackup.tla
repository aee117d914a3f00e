------------------------------- MODULE MCBackup -------------------------------
(* Backup with two jobs, one primary database on a remote host. *)
EXTENDS Backup

ThePrimary == [host |-> "db", db |-> [base |-> "nova", suffix |-> None, inside |-> "nova"]]

\* One run from its start over an s3 store with an image or over an empty fs store,
\* and two that publish at once.
Lone == [j \in Jobs |-> IF j = "j1" THEN "idle" ELSE "local"]
SomeStarts ==
  {[kind |-> "s3", live |-> {"i2"}, at |-> Lone], [kind |-> "fs", live |-> {}, at |-> Lone],
   [kind |-> "fs", live |-> {}, at |-> [j \in Jobs |-> "publish"]]}
=============================================================================
