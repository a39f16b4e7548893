---------------------------- MODULE MCMigrations ----------------------------
(* Instances of Migrations for TLC. *)
EXTENDS Migrations

CONSTANTS i1, i2

OneId == {i1}
TwoIds == {i1, i2}
=============================================================================
