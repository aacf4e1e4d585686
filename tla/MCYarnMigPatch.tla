---------------------------- MODULE MCYarnMigPatch ----------------------------
(* Instances of YarnMigPatch for TLC: all lists of two entries out of one of    *)
(* each kind, among them the one the test of the patch has (0:0,1:1:0).         *)
EXTENDS YarnMigPatch, TLC

CONSTANTS c1, c2, c3

Entries == {
  <<0, 0>>, <<1, 1>>,            \* whole GPUs
  <<1, 1, 0>>, <<1, 1, 1>>,      \* instances
  <<0, 0, Whole>>,               \* a MIG index of -1 is the whole GPU
  <<0>>, <<NoNumber>>,           \* too short
  <<0, NoNumber>>, <<1, 1, NoNumber>>,
  <<0, 0, 0, 1>>}                \* too long

Pairs == [1 .. 2 -> Entries]

Settings == (c1 :> "unset") @@ (c2 :> "false") @@ (c3 :> "true")
Counts == (c1 :> 2) @@ (c2 :> 2) @@ (c3 :> 1)
=============================================================================
