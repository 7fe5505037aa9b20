----------------------------- MODULE MCForeman -----------------------------
(* A pipeline for TLC, after the shapes of pipeline_fixtures_test.go: a relay *)
(* in which B takes A in and feeds E, which also takes A.                     *)
EXTENDS Foreman

RelayInputs == [B |-> {"A"}, E |-> {"A", "B::x"}]
RelayOuts   == [B |-> {"B::x"}, E |-> {"E::x"}]
=============================================================================
