-------------------------- MODULE MCConfidentialFlow --------------------------
(* Instances of ConfidentialFlow for TLC.                                  *)
EXTENDS ConfidentialFlow

MCDefects == [op : {t.op : t \in Txs}, how : {"rejects", "ignores"}]
=============================================================================
