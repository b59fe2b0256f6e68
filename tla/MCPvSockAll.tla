----------------------------- MODULE MCPvSockAll -----------------------------
(* PvSock in two settings: two handles with web/app.js behind them, which     *)
(* answers a fetch with one message, and requests sent in one piece; and one  *)
(* handle with any host and requests in pieces of any length.                 *)
EXTENDS PvSock

CONSTANTS h1, h2

VARIABLE setting

Whole(m) == m.done /\ ~m.error /\ m.bytes # <<>>

MCInit == Init /\ setting \in {"page", "host"} /\ (setting = "host" => sel = h1 /\ cur = h1)
MCNext ==
  /\ Next
  /\ setting = "page" => /\ \A i \in DOMAIN toDev' : Whole(toDev'[i])
                         /\ \A h \in Handles : nsent'[h] \in {0, ReqLen}
  /\ setting = "host" => \A c \in DOMAIN home' : home'[c] = h1
  /\ UNCHANGED setting

MCSpec == MCInit /\ [][MCNext]_<<vars, setting>> /\ Fairness
=============================================================================
