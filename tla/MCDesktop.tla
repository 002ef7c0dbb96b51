----------------------------- MODULE MCDesktop ------------------------------
(* The constants of the desktop run.                                       *)
EXTENDS Desktop

\* Marked first bytes, without and with the button and the signs; movements of
\* which one looks like a first byte.  <<8, 0, 0>> is a report of another button.
MCHeaders == {8, 57}
MCData == {0, 9}
=============================================================================
