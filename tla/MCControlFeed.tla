--------------------------- MODULE MCControlFeed ---------------------------
(* ControlFeed on small instances.                                         *)
EXTENDS ControlFeed

\* The channels and the histories overflow.
SmallChannels == [c \in Channels |-> IF c \in {"log", "remotes"} THEN 2 ELSE 1]
SmallHistory == [k \in {"log", "remotes"} |-> 2]

\* A reduction: one session speaks; nothing but its being known matters to what it says.
OneSpeaks == \A m \in capturing' : m.call.from = CHOOSE i \in Ids : TRUE

=============================================================================
