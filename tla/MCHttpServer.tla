---------------------------- MODULE MCHttpServer ----------------------------
(* Small instances of HttpServer for TLC.                                  *)
EXTENDS HttpServer

CONSTANTS c1, c2, f1, f2, o1, o2, o3

TwoConns == {c1, c2}
OneConn  == {c1}
TwoFds   == {f1, f2}
OneFd    == {f1}
TwoObjs  == {o1, o2}
ThreeObjs == {o1, o2, o3}

(* Requests in one segment or split inside lines.                          *)
WithinLines ==
  { <<<<"cmd", "nl", "nl">>>>,
    <<<<"cmd", "nl", "len", "nl", "nl", "data", "data">>>>,
    <<<<"cmd">>, <<"nl", "len">>, <<"nl", "nl", "data", "data">>>> }

(* These are single requests that are cut inside lines of the header only.  *)
ASSUME WithinLinesSplit == Scripts = WithinLines /\ ~HandlerMayThrow /\ ~PeersMayReset => OneRequestEach

(* Requests split anywhere, kept alive, or unfinished.                     *)
Anyhow ==
  { <<<<"cmd">>, <<"nl", "nl">>>>,
    <<<<"cmd", "nl", "len", "nl">>, <<"nl", "data">>, <<"data">>>>,
    <<<<"cmd", "nl", "keep", "nl", "nl">>, <<"cmd", "nl", "nl">>>> }

AtLines == { <<<<"cmd", "nl">>, <<"nl">>>> }

Symmetry == Permutations(Conns) \cup Permutations(Fds) \cup Permutations(Objs)
=============================================================================
