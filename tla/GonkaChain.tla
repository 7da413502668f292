----------------------------- MODULE GonkaChain -----------------------------
(***************************************************************************)
(* The Gonka chain as the exporter's fetchers see it: the epoch number,    *)
(* the participants' counters of each epoch and their wallets.  It is      *)
(* external code; what is modelled is what internal/fetcher reads of it.   *)
(* The chain moves between any two requests of the exporter.               *)
(***************************************************************************)
EXTENDS EpochFiles

CONSTANTS
    FirstWallet,  \* the wallet balances at the start
    MaxServed,    \* bound: the inferences of a participant in one epoch
    MaxWallet,    \* bound: a wallet balance
    MaxTransfers  \* bound: the changes of wallet balances

VARIABLES
    epoch,     \* get_current_epoch, and the epoch of epoch_info
    served,    \* served[p][e]: p's counter in epoch e
    wallet,    \* the participants' balances
    transfers  \* how often a balance changed (a bound, and for properties)

chainVars == <<epoch, served, wallet, transfers>>

ChainTypeOK ==
    /\ epoch \in Epoch
    /\ served \in [Participant -> [Epoch -> Nat]]
    /\ wallet \in [Participant -> Nat]
    /\ transfers \in Nat

ASSUME ChainAssumption ==
    /\ FirstWallet \in [Participant -> Nat]
    /\ MaxEpoch >= 1 /\ MaxServed \in Nat /\ MaxWallet \in Nat /\ MaxTransfers \in Nat

ChainInit ==
    /\ epoch = 1
    /\ served = [p \in Participant |-> [e \in Epoch |-> 0]]
    /\ wallet = FirstWallet
    /\ transfers = 0

\* The next epoch starts; its counters start at 0.
NewEpoch ==
    /\ epoch < MaxEpoch
    /\ epoch' = epoch + 1
    /\ UNCHANGED <<served, wallet, transfers>>

Serve(p) ==
    /\ served[p][epoch] < MaxServed
    /\ served' = [served EXCEPT ![p][epoch] = @ + 1]
    /\ UNCHANGED <<epoch, wallet, transfers>>

\* A reward, a payment or a withdrawal.
Transfer(p, w) ==
    /\ transfers < MaxTransfers
    /\ wallet[p] # w
    /\ wallet' = [wallet EXCEPT ![p] = w]
    /\ transfers' = transfers + 1
    /\ UNCHANGED <<epoch, served>>

ChainNext ==
    \/ NewEpoch
    \/ \E p \in Participant : Serve(p)
    \/ \E p \in Participant, w \in 0 .. MaxWallet : Transfer(p, w)
=============================================================================
