---------------------------- MODULE MCThreadPool ----------------------------
(* Instances of ThreadPool for TLC. *)
EXTENDS ThreadPool, TLC

\* Raise and lower each limit, refuse min > max, and leave limits alone.
AllParams == {<<-1, 1, -1>>, <<2, 2, -1>>, <<-1, 2, 0>>, <<0, -1, 2>>, <<3, 2, 1>>}
NoParams == {}
=============================================================================
