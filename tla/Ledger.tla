------------------------------- MODULE Ledger -------------------------------
(***************************************************************************)
(* What the posting side of the program promises, whoever runs it and      *)
(* however often it dies: accounts are opened and never closed, a case is  *)
(* only patched for an account that exists, and an application is settled  *)
(* once, one application at a time, and only on the strength of an account *)
(* with its address.  Pipeline is shown to implement this specification.   *)
(***************************************************************************)
CONSTANTS Candidates, Emails, EmailOf

VARIABLES
  opened,   \* addresses that have an account
  cased,    \* addresses whose case was patched
  settled   \* applications with a terminal outcome

ledgerVars == <<opened, cased, settled>>

LedgerInit ==
  /\ opened = {}
  /\ cased = {}
  /\ settled = {}

Open(m) ==
  /\ opened' = opened \cup {m}
  /\ UNCHANGED <<cased, settled>>

PatchCaseOf(m) ==
  /\ m \in opened
  /\ cased' = cased \cup {m}
  /\ UNCHANGED <<opened, settled>>

Settle(e) ==
  /\ e \notin settled
  /\ EmailOf[e] \in opened
  /\ settled' = settled \cup {e}
  /\ UNCHANGED <<opened, cased>>

LedgerNext ==
  \/ \E m \in Emails : Open(m) \/ PatchCaseOf(m)
  \/ \E e \in Candidates : Settle(e)

LedgerSpec == LedgerInit /\ [][LedgerNext]_ledgerVars

\* Every patched case and every settled application has its account, which
\* is all that a reader of the log has to trust.
BooksBalance ==
  /\ cased \subseteq opened
  /\ \A e \in settled : EmailOf[e] \in opened

=============================================================================
