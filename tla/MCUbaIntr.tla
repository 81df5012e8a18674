----------------------------- MODULE MCUbaIntr -----------------------------
(* UbaIntr with the disk at level 1, the devices of adapter 3 at level 2.  *)
EXTENDS UbaIntr

LevelHigh == [u \in Units |-> IF u = 1 THEN 1 ELSE 0]
LevelLow  == [u \in Units |-> IF u = 1 THEN 0 ELSE 2]
Others    == {"attn", "seek", "apr"}
OneEach   == {{"rx", "tx"} \cup Others, {"lp"} \cup Others,
              {"duprx"} \cup Others, {"duptx"} \cup Others}
Dup       == {{"duprx", "duptx"}}
Transfer  == {{"xfer"}}
=============================================================================
