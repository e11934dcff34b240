---------------------------- MODULE MCResolvers ----------------------------
(* The instances of Resolvers that TLC checks: refresh requests of quotes, two of them (r1, r2) about one
   quote and one of these a watch; r3 is of another type, stock, or, with r4, of other quotes. *)
EXTENDS Resolvers

CONSTANTS r1, r2, r3, r4, quote, stock, q1, c1, QuotesOnly, Slow

MCRequests == {r1, r2, r3} \cup IF QuotesOnly THEN {r4} ELSE {}
MCTypeOf == [r \in MCRequests |-> IF r = r3 /\ ~QuotesOnly THEN stock ELSE quote]
MCObjectOf == [r \in MCRequests |-> IF r \in {r1, r2} /\ ~QuotesOnly THEN q1 ELSE r]
MCRank == [r \in MCRequests |-> IF r = r2 THEN 0 ELSE 1]
MCInterval == [t \in {MCTypeOf[r] : r \in MCRequests} |-> IF t = quote THEN Slow ELSE 0]
=============================================================================
