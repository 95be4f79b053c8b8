------------------------------ MODULE MCMailbox ------------------------------
(* Instances of MailboxWorker for TLC.                                     *)
EXTENDS MailboxWorker

\* The first task may need an approval, the second is an easy one.
MCOutcomes ==
    [t \in Tasks |-> IF t = 1 THEN {"completed", "needs_approval"} ELSE {"completed"}]
==============================================================================
