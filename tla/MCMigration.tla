---------------------------- MODULE MCMigration ----------------------------
(***************************************************************************)
(* Instances of Migration: the kinds of migration that differ.             *)
(***************************************************************************)
EXTENDS Migration

Option(postcopy, paused, lock) == [postcopy |-> postcopy, paused |-> paused, lock |-> lock]

\* Pre-copy with and without a lock manager, of a running and of a paused guest;
\* post-copy; and the combination that Prepare rejects.
MCOptions ==
  {Option(FALSE, FALSE, TRUE), Option(FALSE, FALSE, FALSE), Option(FALSE, TRUE, TRUE),
   Option(TRUE, FALSE, TRUE), Option(TRUE, TRUE, TRUE)}
=============================================================================
