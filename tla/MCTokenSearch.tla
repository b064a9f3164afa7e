--------------------------- MODULE MCTokenSearch ---------------------------
(* The constants of llm/probe.rs, the ceilings of the OpenCode and DeepSeek *)
(* providers, and caps at, around and between the points of the search.     *)
EXTENDS TokenSearch, TLC

Around(S) == UNION {{k - 2, k - 1, k, k + 1} : k \in S}
SomeCaps ==
  {0, 500, 5000, 131072} \cup Around({1024, 1025 + 51, 2048 + 22, 16384, 393216})
(* One power short of the code's thirty: TLC's integers end at 2^31 - 1.    *)
SomePowers == {2 ^ k : k \in 1 .. 29}
SomeReports == {1023, 1024, 4096, 16385, 400000, Sentinel}
=============================================================================
