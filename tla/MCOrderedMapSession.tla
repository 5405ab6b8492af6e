-------------------------- MODULE MCOrderedMapSession --------------------------
(* Instances of OrderedMapSession for TLC.                                  *)
EXTENDS OrderedMapSession

MCFailing == {8}
MCUnrecordable == {5}
MCOversizedFrames == {3}
MCSizes == {1, 3, 7}
NoItems == {}
===============================================================================
