------------------------------ MODULE Exchange ------------------------------
(***************************************************************************)
(* Processes that talk to each other through the kernel, one of:           *)
(*   Servers    stream sockets: four servers and their clients;            *)
(*   MyFtp      files through a message queue that all clients share;      *)
(*   FifoChat   lines through named pipes.                                 *)
(* The programs of the other two are not running.                          *)
(***************************************************************************)
EXTENDS Servers, MyFtp, FifoChat

exchangeVars == <<vars, ftpVars, chatVars>>

ExchangeInit ==
    \/ Init /\ FtpIdle /\ ChatIdle
    \/ Idle /\ FtpInit /\ ChatIdle
    \/ Idle /\ FtpIdle /\ ChatInit

ExchangeNext ==
    \/ Next     /\ UNCHANGED <<ftpVars, chatVars>>
    \/ FtpStep  /\ UNCHANGED <<vars, chatVars>>
    \/ ChatStep /\ UNCHANGED <<vars, ftpVars>>

ExchangeSpec ==
    ExchangeInit /\ [][ExchangeNext]_exchangeVars /\ Fairness /\ FtpFairness /\ ChatFairness

\* Clients of the socket servers are served to their end (ClientsLeave), requests
\* to the file server are served until it is stuck behind messages nobody takes
\* (RequestsServed), and chats get connected and end, but for a jam and for side
\* "a" repeating its last line for ever after the end of its input, which its call
\* of fgets does not notice (ChatsConclude).
ExchangesConclude == ClientsLeave /\ RequestsServed /\ ChatsConclude
=============================================================================
