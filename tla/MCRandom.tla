------------------------------ MODULE MCRandom ------------------------------
EXTENDS Random

Dists == {"erl", "trn", "gam"}
Classification == [d \in Dists |-> IF d = "erl" THEN "erlang" ELSE IF d = "gam" THEN "gamma" ELSE "truncated"]
=============================================================================
