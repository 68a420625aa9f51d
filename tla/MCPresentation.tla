---------------------------- MODULE MCPresentation ----------------------------
(* Two small instances of Presentation for TLC.                            *)
EXTENDS Presentation, TLC

CONSTANTS s1, s2, t1, t2, c1, d1, d2, k1, k2, f1

MCSessions == {s1, s2}
MCTabs == {t1, t2}
MCTab == {t1}
MCCards == {c1}
MCClicks == {d1, d2}
MCKeys == {k1, k2}
MCKey == {k1}

Signer == [c \in Card |-> k1]
FolderOf == [c \in Card |-> f1]

(* The disclosure that s2's page asks for is none of the card's schema.    *)
AllOffered == Card \X Session
OneOffered == Card \X {s1}

(* The client's clock is behind.                                           *)
Behind == -1

Symmetric == Permutations(MCSessions) \cup Permutations(MCTabs)
               \cup Permutations(MCClicks)
SymmetricClicks == Permutations(MCClicks)
===============================================================================
