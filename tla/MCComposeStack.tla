--------------------------- MODULE MCComposeStack ---------------------------
(* Small instances of ComposeStack: ports 1..8, privileged up to 2.        *)
EXTENDS ComposeStack

Single(s, h, c, proto, pub) ==
    [service |-> s, host |-> h, container |-> c, hostRange |-> <<>>,
     containerRange |-> <<>>, protocol |-> proto, public |-> pub,
     spelled |-> proto = "udp"]

Span(s, lo, hi, c, proto, pub) ==
    [service |-> s, host |-> 0, container |-> 0, hostRange |-> <<lo, hi>>,
     containerRange |-> <<c, c + hi - lo>>, protocol |-> proto, public |-> pub,
     spelled |-> proto = "udp"]

\* Version 1: web on 3 and 4, a public udp port.  Version 2 is the same release
\* with the overlay wired.  Version 3 is a new release that moves web's second
\* port to 5 and listens on tcp and udp of one number; version 4 has a public
\* range and no URL template, and writes the protocol of web's second port.
MCApps == <<
  [ports |-> <<Single("web", 3, 1, "tcp", FALSE), Single("web", 4, 2, "tcp", FALSE),
               Single("peer", 6, 1, "udp", TRUE)>>,
   images |-> 1, wired |-> FALSE, target |-> 3, pangolin |-> 4],
  [ports |-> <<Single("web", 3, 1, "tcp", FALSE), Single("web", 4, 2, "tcp", FALSE),
               Single("peer", 6, 1, "udp", TRUE)>>,
   images |-> 1, wired |-> TRUE, target |-> 3, pangolin |-> 0],
  [ports |-> <<Single("web", 3, 1, "tcp", FALSE), Single("web", 5, 2, "tcp", FALSE),
               Single("web", 3, 1, "udp", FALSE)>>,
   images |-> 2, wired |-> TRUE, target |-> 3, pangolin |-> 0],
  [ports |-> <<Single("web", 3, 1, "tcp", FALSE),
               [Single("web", 4, 2, "tcp", FALSE) EXCEPT !.spelled = TRUE],
               Span("peer", 6, 7, 1, "udp", TRUE)>>,
   images |-> 3, wired |-> TRUE, target |-> 0, pangolin |-> 0] >>

Map(p, q) == [x \in {p} |-> q]
MCOverrides == {<<>>, Map(3, 5), Map(4, 7), Map(3, 4), Map(6, 7), Map(3, 2),
                [x \in {3, 4} |-> IF x = 3 THEN 4 ELSE 5]}

Tcp(p) == [protocol |-> "tcp", port |-> p]
MCInitiallyTaken == {{}, {Tcp(3), Tcp(5), Tcp(7)}}
=============================================================================
