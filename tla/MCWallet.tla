------------------------------- MODULE MCWallet -------------------------------
(* Small instances of Wallet for TLC.                                      *)
EXTENDS Wallet

CONSTANTS k1, u1, a1, a2

MCOneCard == {k1}
MCOneUid == {u1}
MCClicks == {a1, a2}
===============================================================================
