---------------------------- MODULE MCReconciler ----------------------------
EXTENDS Reconciler
CONSTANTS a, b, c, src1, src2

\* A day with a gap on both sides, two windows of one source back to back, and one of another source.
MCDay == <<NoWindow, a, b, c, NoWindow>>
\* A window, and the gap after it.
MCEvening == <<a, NoWindow>>
MCSource == [k \in Keys |-> IF k = c THEN src2 ELSE src1]

Transport(i) == [op |-> "transport", mode |-> "until_next", intent |-> i]
PlayNow == [op |-> "play_now", mode |-> "play_now", intent |-> "play"]
Post(m, i) == [op |-> "post", mode |-> m, intent |-> i]
Delete == [op |-> "delete", mode |-> "until_next", intent |-> "play"]
Switch(to) == [op |-> to, mode |-> "until_next", intent |-> "play"]

\* What the requests of each instance are.
MCPeople  == {Transport("stop"), PlayNow}
MCRest    == {Post("timed", "stop"), Post("until_next", "play"), Delete, Switch("on"), Switch("off")}
=============================================================================
