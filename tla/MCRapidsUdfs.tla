----------------------------- MODULE MCRapidsUdfs -----------------------------
(* Instances of RapidsUdfs for TLC: every batch of two rows over short strings,  *)
(* short vectors, and decimals between -1.5 and 1.5.                             *)
EXTENDS RapidsUdfs

Upto(S, n) == UNION {[1 .. k -> S] : k \in 0 .. n}

Characters == {" ", "a", "A", "+", "%41", "%"}

WordRows == {<<s>> : s \in {Null} \cup Upto({" ", "a"}, 4)}
UrlRows == {<<s>> : s \in {Null} \cup Upto({"a", "+", "%41", "%"}, 2)}
DecimalRows == {<<d>> : d \in {Null} \cup -15 .. 15}
Vectors == {Null, <<Null>>} \cup Upto({1, 2}, 2)

Batch(udf, rows) == {[udf |-> udf, rows |-> r] : r \in Upto(rows, 2)}
AllBatches ==
  Batch("wordcount", WordRows) \cup Batch("urldecode", UrlRows)
    \cup Batch("fraction", DecimalRows) \cup Batch("cosine", Vectors \X Vectors)
=============================================================================
