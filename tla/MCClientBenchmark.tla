-------------------------- MODULE MCClientBenchmark --------------------------
(* Model values for ClientBenchmark.  An option's argument is a number where the
   script counts with it. *)
EXTENDS ClientBenchmark

MCTargets == <<5000, 10000>>

\* No option, no round, fewer and more rounds than the default, an option without effect on
\* the loop, another server, help after an option, and a letter getopts does not know.
MCLines ==
    { <<>>,
      << <<"r", 0>> >>,
      << <<"r", 1>> >>,
      << <<"c", 20>>, <<"r", 3>> >>,
      << <<"a", "10.0.0.2">> >>,
      << <<"r", 1>>, <<"p", "6380">> >>,
      << <<"r", 1>>, <<"h", 0>> >>,
      << <<"-", 0>> >> }

\* redis-cli as the script chooses it, and as a user may set it.
MCDefaultCli == { DefaultServer }
MCCliServers == { DefaultServer, <<"10.0.0.2", "6379">> }

\* What the usage of Redis' script documents.
MCWorkloadLines == { << <<"r", 1>>, <<"w", w>> >> : w \in {"A", "B", "C", "D", "E", "F"} }
=============================================================================
