---------------------------- MODULE StateTransfer ----------------------------
(***************************************************************************)
(* What UTXO state sync promises, without diffs, sketches or roots: a peer *)
(* offers to take a set `from` to a set `to`; the local set either changes *)
(* by its owner's own step or jumps, in one step, from exactly the `from`  *)
(* to exactly the `to` of an offer still open.                             *)
(***************************************************************************)
CONSTANTS Sets,            \* the sets of coins there can be
          Neighbours(_)    \* the sets one own addition or removal away

VARIABLES local,    \* the local set
          offers    \* open offers, pairs <<from, to>>

transferVars == <<local, offers>>

TransferInit == local \in Sets /\ offers = {}

OwnChange == local' \in Neighbours(local) /\ UNCHANGED offers

Offer == /\ \E to \in Sets : offers' = offers \union {<<local, to>>}
         /\ UNCHANGED local

Withdraw == /\ \E o \in offers : offers' = offers \ {o}
            /\ UNCHANGED local

Transfer == \E o \in offers : /\ local = o[1]
                              /\ local' = o[2]
                              /\ UNCHANGED offers

TransferNext == OwnChange \/ Offer \/ Withdraw \/ Transfer

TransferSpec == TransferInit /\ [][TransferNext]_transferVars
=============================================================================
