------------------------------ MODULE MCBench ------------------------------
(* Instance of the benchmark, and the property that needs Checksums. *)
EXTENDS Bench, Checksums

MCLangs == <<"mojo", "c">>

MCTable == <<"crc32", "sort", "mat16">>

(* Short workloads, which a poll disturbs visibly, and a long one. *)
MCDuration == <<100, 1000, 100>>

(* What the host accepts from a firmware that got past board_init are the     *)
(* right checksums, and whatever run, firmware or session has left in the    *)
(* buffers, all nine workloads return theirs: "verified by identical checksums". *)
ChecksumsRight ==
  /\ \A l \in started : \A i \in DOMAIN got[l] : got[l][i].ck = Checksum[Table[i]]
  /\ fw = "between" /\ k = 0 => \A name \in Range(BMS) : Bm(name, mem).ck = Checksum[name]
=============================================================================
