----------------------------- MODULE MCStudio -----------------------------
(* A studio with documents of three, one and no usable passages. *)
EXTENDS Studio, TLC

MCTexts == << <<<<5, 4, 3>>, <<2>>>>, <<<<4>>, <<6>>>>, <<<<1, 1>>>> >>

(* BM25 and the dense ranking put the passages in different orders. *)
Bm25  == << <<1, 1>>, <<2, 1>>, <<1, 2>>, <<2, 2>> >>
Dense == << <<2, 2>>, <<1, 2>>, <<2, 1>>, <<1, 1>> >>
MCRankings == <<Bm25, Dense>>

Alike == Permutations(Threads) \cup Permutations(Collections)
=============================================================================
