------------------------------ MODULE MCFetcher ------------------------------
(* Bodies of one to four chunks that share a first chunk, and an error page;  *)
(* the last one is longer than the limit of three.                            *)
EXTENDS Fetcher
CONSTANTS a, b, c, x

MCBodies == { <<a>>, <<a, b, c>>, <<a, c>>, <<a, b, c, b>> }
MCErrorPage == <<x>>

Times(error, drop, crash) ==
    [kind \in Kinds |-> CASE kind = "error" -> error [] kind = "drop" -> drop [] kind = "crash" -> crash]
MCFaults == Times(2, 2, 2)
Errors   == Times(2, 0, 1)
OneCrash == Times(0, 0, 1)
=============================================================================
