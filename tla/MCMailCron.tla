----------------------------- MODULE MCMailCron -----------------------------
(***************************************************************************)
(* Instances of MailCron for TLC.                                          *)
(***************************************************************************)
EXTENDS MailCron

\* Every message goes to every address.
MCRecipients == [m \in Messages |-> Addresses]
=============================================================================
