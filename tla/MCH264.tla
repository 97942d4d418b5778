------------------------------- MODULE MCH264 -------------------------------
(* An instance of H264Split and of H264Payloader for TLC: a behaviour      *)
(* either splits a sample or packetizes samples given as units.            *)
(* MTU = 8 leaves six bytes to a fragment, and takes a pair of parameter   *)
(* sets of 3 bytes together.                                               *)
EXTENDS H264Payloader, H264Split

SmallBytes == 0 .. 2
SomeUnits == [type : {"picture"}, len : {0, 8, 9, 13, 14}]
             \cup [type : {"sps"}, len : {1, 4}] \cup [type : {"pps", "aud"}, len : {1}]

MCInit == SplitInit /\ PayloadInit
MCNext == \/ given = <<>> /\ SplitNALUs /\ UNCHANGED pvars
          \/ payload = <<0>> /\ spc = "done" /\ PayloadNext /\ UNCHANGED svars
MCSpec == MCInit /\ [][MCNext]_<<svars, pvars>>
=============================================================================
