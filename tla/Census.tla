-------------------------------- MODULE Census --------------------------------
(***************************************************************************)
(* The holder census (fullSnapshot, snapshot): what the token accounts of  *)
(* a mint give each owner, and who of them takes part.                     *)
(***************************************************************************)
EXTENDS Integers, Sequences, Functions

CONSTANTS Threshold, Excluded  \* holderUnits and exclusions of the policy

ASSUME CensusPolicy == Threshold \in Nat \ {0}

Supply(accounts) == SumFunction([n \in DOMAIN accounts |-> accounts[n].amount])

AccountsOf(accounts, o) == {n \in DOMAIN accounts : accounts[n].owner = o}

(* An owner's accounts count together. *)
BalanceOfAccount(accounts, o) ==
    LET n == CHOOSE n \in AccountsOf(accounts, o) :
                \A k \in AccountsOf(accounts, o) : accounts[k].amount <= accounts[n].amount
    IN  accounts[n].amount

Balance(accounts, o) ==
    SumFunctionOnSet([n \in DOMAIN accounts |-> accounts[n].amount], AccountsOf(accounts, o))

Eligible(accounts) ==
    {o \in {accounts[n].owner : n \in DOMAIN accounts} :
        o \notin Excluded /\ Balance(accounts, o) >= Threshold}

(* What the rewards of a round are divided by. *)
Holders(accounts) == [o \in Eligible(accounts) |-> Balance(accounts, o)]
=============================================================================
