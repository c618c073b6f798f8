------------------------------- MODULE Benivo -------------------------------
(***************************************************************************)
(* The Benivo API as app/clients/benivo_client.py uses it.  The service is *)
(* external: it keeps the accounts and the cases, and whether it refuses a *)
(* second account for one address is not known to the program, hence a     *)
(* constant.                                                               *)
(***************************************************************************)
EXTENDS Invocations

CONSTANT RefusesDuplicates  \* does create-user refuse an address it has?

ASSUME BenivoAssumption == RefusesDuplicates \in BOOLEAN

VARIABLES
  accounts,  \* how many accounts were created for each address
  patched    \* addresses whose case has been patched

benivoVars == <<accounts, patched>>

BenivoTypeOK ==
  /\ accounts \in [Emails -> Nat]
  /\ patched \in SUBSET Emails

BenivoInit ==
  /\ accounts = [m \in Emails |-> 0]
  /\ patched = {}

HasAccount(m) == accounts[m] > 0

\* Mutant: the comparison of the address never succeeds.
FindsUser_Never(m) == FALSE

\* Mutant: any answer of the lookup counts as a match.
FindsUser_AnyAnswer(m) == TRUE

FindsUser(m) == HasAccount(m)

Refuses(m) == RefusesDuplicates /\ HasAccount(m)

OpenAccount(m) == accounts' = [accounts EXCEPT ![m] = @ + 1]

PatchCase(m) == patched' = patched \cup {m}

=============================================================================
