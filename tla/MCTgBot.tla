------------------------------- MODULE MCTgBot -------------------------------
(***************************************************************************)
(* A finite instance of TgBot.                                             *)
(***************************************************************************)
EXTENDS TgBot

CONSTANTS c1

\* 0 is refused as a threshold by the wizard, and means no limit as a notional; 2
\* is a threshold the columns hold and, with a NotionalLimit of 2, a notional
\* they refuse.
MCNumbers == {0, 2}

MCOneNumber == {2}
=============================================================================
