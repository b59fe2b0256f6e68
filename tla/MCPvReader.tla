----------------------------- MODULE MCPvReader -----------------------------
(* PvReader with short documents. *)
EXTENDS PvReader, TLC

MCHandleOf == [p \in {"fetch", "page", "dial"} |->
                 CASE p = "fetch" -> 7 [] p = "page" -> 6 [] OTHER -> 0]
MCHeights ==
  [k \in {"text", "lut", "delta", "cinepak"} |->
     CASE k = "text" -> [w \in {1, 2} |-> IF w = 1 THEN 3 ELSE 2]
       [] k = "lut"  -> [w \in {1, 2} |-> 0]
       [] OTHER      -> [w \in {1, 2} |-> 2]]
MCClipOf ==
  [k \in {"delta", "cinepak"} |->
     IF k = "delta" THEN [codec |-> k, promised |-> 3, whole |-> 2, tail |-> TRUE, step |-> 1]
     ELSE [codec |-> k, promised |-> 2, whole |-> 2, tail |-> FALSE, step |-> 1]]
Html == [bundle |-> FALSE, kinds |-> <<>>]
Bundle(kinds) == [bundle |-> TRUE, kinds |-> kinds]
\* All three programs; the readers with a request more; PAGE and what it shows.
Small == [programs |-> {"fetch", "page", "dial"}, docs |-> {Bundle(<<"text", "text">>)},
          hdrs |-> {1, 3}, sizes |-> {<<1, 4>>}, reqs |-> 2]
MCCasts ==
  {Small,
   [Small EXCEPT !.programs = {"fetch", "page"}, !.hdrs = {3}, !.reqs = 3],
   [programs |-> {"page"},
    docs |-> {Bundle(<<"lut", "cinepak">>), Bundle(<<"delta", "text", "text">>),
              Bundle(<<"text", "text", "text", "text">>), Html},
    hdrs |-> {1}, sizes |-> {<<1, 2>>, <<2, 4>>}, reqs |-> 2]}
TwoReaders ==
  {[Small EXCEPT !.programs = {"fetch", "page"}, !.hdrs = {3}]}
=============================================================================
