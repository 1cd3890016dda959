--------------------------- MODULE MCAdminCommand ---------------------------
(***************************************************************************)
(* A small instance of AdminCommand for TLC.                               *)
(***************************************************************************)
EXTENDS AdminCommand

MCDialErrors == { NoError, {"DeadlineExceeded"} }

\* The fixed replies, alone, with a line end, with more behind them and with
\* more behind the NUL; errors; two lines; replies at, below and above the
\* bounds; nothing at all.
MCScripts ==
  { <<"PONG", "NUL">>, <<"PONG", "EOL", "NUL">>, <<"PONG", "text", "NUL">>,
    <<"RELOADING", "NUL", "ERROR">>, <<"text", "SP", "ERROR", "NUL">>,
    <<"ERROR", "EOL", "NUL">>, <<"PONG", "EOL", "text", "NUL">>,
    <<"text", "EOL", "text", "SP", "NUL">>, <<"NUL">>, <<>>,
    <<"text", "text", "text", "text", "text", "text">> }
=============================================================================
