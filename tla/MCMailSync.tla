----------------------------- MODULE MCMailSync -----------------------------
EXTENDS MailSync, TLC

CONSTANTS img, pdf, other

\* A picture and a PDF of one invoice, then a second PDF.
MCAttached3 == <<img, pdf, other>>
MCNumber == [d \in Documents |-> "n1"]
=============================================================================
