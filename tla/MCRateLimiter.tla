--------------------------- MODULE MCRateLimiter ---------------------------
(***************************************************************************)
(* Two buckets of different categories: a longer window with two calls and *)
(* a shorter one with one call.                                            *)
(***************************************************************************)
EXTENDS RateLimiter

MCKeys     == {"messages", "sandbox"}
MCMaxCalls == [k \in MCKeys |-> IF k = "messages" THEN 2 ELSE 1]
MCWindow   == [k \in MCKeys |-> IF k = "messages" THEN 5 ELSE 3]
=============================================================================
