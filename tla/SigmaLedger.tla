---------------------------- MODULE SigmaLedger ----------------------------
(***************************************************************************)
(* What the sigma state promises to the rest of the node: a ledger of      *)
(* blocks, each minting and spending coins of some denomination, in which  *)
(* a serial is spent by one block at most and only after a mint of the     *)
(* same denomination.  Blocks are appended and rolled back at the end.     *)
(***************************************************************************)
EXTENDS Naturals, Sequences

CONSTANTS Coins, Denoms

VARIABLE ledger     \* a sequence of [minted, spent], sets of <<coin, denomination>>

Entries == [minted : SUBSET (Coins \X Denoms), spent : SUBSET (Coins \X Denoms)]

Minted(L) == UNION {L[n].minted : n \in 1..Len(L)}
SpentSerials(L) == {p[1] : p \in UNION {L[n].spent : n \in 1..Len(L)}}

Init == ledger = << >>

Extend ==
    LET e == ledger'[Len(ledger) + 1]
    IN  /\ Len(ledger') = Len(ledger) + 1
        /\ e \in Entries
        /\ e.spent \subseteq Minted(ledger)
        /\ {p[1] : p \in e.spent} \cap SpentSerials(ledger) = {}
        /\ ledger' = Append(ledger, e)

Rollback ==
    /\ ledger # << >>
    /\ ledger' = SubSeq(ledger, 1, Len(ledger) - 1)

Next == Rollback \/ Extend

Spec == Init /\ [][Next]_ledger
=============================================================================
