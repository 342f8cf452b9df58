--------------------------- MODULE MCSupervision ---------------------------
(* Supervision with three slots for processes and two devices. *)
EXTENDS Supervision

Line(k, v) == [key |-> k, value |-> v]

\* Two devices behind a comment and in front of a second dev line, with a word for
\* the daemon that is no number; the same for a daemon; no device.
MCFiles ==
  { <<Line(Skip, <<>>), Line("dev", <<"eth0", Bar, "eth1">>), Line("dev", <<"lo">>),
       Line("daemon", <<"yes">>)>>,
    <<Line("daemon", <<"2">>), Line("dev", <<"eth0", Bar, "eth1">>)>>,
    <<Line("daemon", <<"0">>)>> }
=============================================================================
